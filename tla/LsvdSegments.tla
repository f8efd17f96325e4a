---------------------------- MODULE LsvdSegments ----------------------------
(***************************************************************************)
(* What the write path promises about the volume's segments, as spec.md   *)
(* sections 4 and 5 describe them: writes go into the one open segment;    *)
(* sealing closes it and opens the next, and a sealed segment never        *)
(* changes; sealed segments are installed into the extent map one at a     *)
(* time in the order they were sealed, and installing a segment points     *)
(* each LBA it holds at it.  LsvdDisk implements this specification.       *)
(***************************************************************************)
EXTENDS Naturals

CONSTANTS LBAs, Data, NoVal, MaxSeg

NoSeg == 0
SegIds == 1..MaxSeg

VARIABLES
    content,    \* content[s]: the record segment s holds for each LBA
    open,       \* the segment writes go to
    installed,  \* segments installed into the extent map
    map         \* the extent map: the segment each LBA resolves to

absVars == <<content, open, installed, map>>

Init ==
    /\ content = [s \in SegIds |-> [l \in LBAs |-> NoVal]]
    /\ open = 1
    /\ installed = {}
    /\ map = [l \in LBAs |-> NoSeg]

\* Records are added to, or replace records of, the open segment only;
\* the segment may be sealed by the same call.
Write ==
    /\ \E f \in [LBAs -> Data \cup {NoVal}] :
         /\ \A l \in LBAs : content[open][l] # NoVal => f[l] # NoVal
         /\ content' = [content EXCEPT ![open] = f]
    /\ open' \in {open, open + 1} \cap SegIds
    /\ UNCHANGED <<installed, map>>

Seal ==
    /\ open + 1 \in SegIds
    /\ open' = open + 1
    /\ UNCHANGED <<content, installed, map>>

\* The oldest sealed segment not yet installed is installed.
Install(s) ==
    /\ s < open
    /\ s \notin installed
    /\ \A t \in 1..(s - 1) : t \in installed
    /\ installed' = installed \cup {s}
    /\ map' = [l \in LBAs |-> IF content[s][l] # NoVal THEN s ELSE map[l]]
    /\ UNCHANGED <<content, open>>

Next == Write \/ Seal \/ \E s \in SegIds : Install(s)

Spec == Init /\ [][Next]_absVars

\* Every sealed segment is eventually installed.
FairSpec == Spec /\ \A s \in SegIds : WF_absVars(Install(s))

=============================================================================
