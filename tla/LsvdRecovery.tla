----------------------------- MODULE LsvdRecovery -----------------------------
(***************************************************************************)
(* The Disk of LsvdDisk across process lifetimes: Disk.Close (CloseSegment *)
(* then saveLBAMap), a crash at any step, a failed newSegmentCreator that  *)
(* leaves d.curOC nil, and NewDisk on the state that persisted: the        *)
(* write-cache journals, the object store with its index, and the LBA map *)
(* blob.  Everything else of LsvdDisk is volatile and rebuilt by NewDisk.  *)
(*                                                                         *)
(* restoreWriteCache, loadLBAMap, rebuildFromSegments, saveLBAMap and the  *)
(* journal of SegmentCreator are not under src/; they follow spec.md 4.3   *)
(* and 4.8, read in the way most favourable to the code where the spec is  *)
(* silent: older journals are flushed and installed over the loaded map,   *)
(* and a present map blob is used as it is.                                *)
(***************************************************************************)
EXTENDS LsvdDisk
LOCAL INSTANCE FiniteSetsExt
LOCAL INSTANCE SequencesExt

CONSTANTS
    Crashes     \* whether the process may die at any step

ASSUME Crashes \in BOOLEAN

VARIABLES
    phase,      \* the process: "up", "broken" (curOC is nil), "down", "failed"
    journals,   \* the writecache.<ULID> files on local disk
    mapBlob,    \* the LBA map metadata blob saved by Close
    closing,    \* Disk.Close is in progress
    clean       \* ghost: every earlier process ended with a successful Close

recVars == <<phase, journals, mapBlob, closing, clean>>
allVars == <<vars, recVars>>

NoBlob == [present |-> FALSE, map |-> [l \in LBAs |-> NoSeg]]

RecoveryTypeOK ==
    /\ phase \in {"up", "broken", "down", "failed"}
    /\ journals \subseteq SegIds /\ journals # {}
    /\ mapBlob \in [present : BOOLEAN, map : [LBAs -> SegIds \cup {NoSeg}]]
    /\ closing \in BOOLEAN /\ clean \in BOOLEAN

RecInit ==
    /\ Init
    /\ phase = "up"
    /\ journals = {curSeq}
    /\ mapBlob = NoBlob
    /\ closing = FALSE
    /\ clean = TRUE

-----------------------------------------------------------------------------
(***************************************************************************)
(* The running process: the steps of LsvdDisk, with their effect on the   *)
(* journals.                                                               *)
(***************************************************************************)

\* Mutant: the journal is created only by the first write to the creator.
JournalsAfterNoOpen ==
    (journals \cup {s \in SegIds : \E l \in LBAs : oc'[s][l] # NoVal})
        \ {s \in SegIds : fl[s].pc = "appendWrite" /\ fl'[s].pc = "install"}

\* Mutant: the journal is deleted as soon as the flush goroutine starts.
JournalsAfterAtStart ==
    (journals \cup {curSeq'}) \ {s \in SegIds : fl[s].pc = "none" /\ fl'[s].pc = "upload"}

\* newSegmentCreator opens the journal of the new creator; oc.Flush deletes
\* a creator's journal once AppendToObjects has succeeded.
JournalsAfter ==
    (journals \cup {curSeq'}) \ {s \in SegIds : fl[s].pc = "appendWrite"
                                                /\ fl'[s].pc = "install"}

\* The writer's calls while no Disk.Close is in progress; the calls a
\* Close is made of while it is.
CallerStep ==
    \/ ~closing /\ WriterStep
    \/ closing /\ (SetPrev \/ CloseDone)
    \/ \E s \in SegIds : CancelCtx(s)

\* With curOC nil every call panics; the flush goroutines still run.
DiskStep ==
    /\ \/ phase = "up" /\ CallerStep
       \/ phase = "up" /\ (\E r \in Readers : ReaderStep(r))
       \/ phase = "up" /\ EvictExtent
       \/ phase \in {"up", "broken"} /\ \E s \in SegIds : FlusherStep(s) \/ FlushUploadLost(s)
    /\ journals' = JournalsAfter
    /\ UNCHANGED <<phase, mapBlob, closing, clean>>

\* closeSegmentAsync: newSegmentCreator fails after the sealed creator was
\* taken from d.curOC.  d.curOC is left nil, the sealed creator is neither
\* in prevCache nor flushed, and the error is returned to the caller.
SealFail ==
    /\ phase = "up" /\ writer.pc = "setprev"
    /\ phase' = "broken"
    /\ clean' = FALSE
    /\ UNCHANGED <<vars, journals, mapBlob, closing>>

\* Disk.Close, first step: CloseSegment seals curOC.
DiskClose ==
    /\ phase = "up" /\ ~closing
    /\ CloseSegment
    /\ closing' = TRUE
    /\ journals' = JournalsAfter
    /\ UNCHANGED <<phase, mapBlob, clean>>

\* saveLBAMap: WriteMetadata buffers the blob and mdWriter.Close uploads it
\* in one PutObject, so the store keeps the old blob or the new one.
SaveLBAMap(old, new) == IF StoreErrors THEN {old, new} ELSE {new}

\* Mutant: Close saves the map without waiting for CloseSegment's flush.
CloseReturnsNoWait ==
    /\ phase = "up" /\ closing /\ writer.pc \in {"idle", "waitflush"}
    /\ \E b \in SaveLBAMap(mapBlob, [present |-> TRUE, map |-> lba2pba]) :
         /\ mapBlob' = b
         /\ clean' = (clean /\ b.present /\ b.map = lba2pba)
    /\ phase' = "down"
    /\ closing' = FALSE
    /\ UNCHANGED <<vars, journals>>

\* Disk.Close returns: when CloseSegment failed (its ctx was cancelled) it
\* returns at once; else the map is saved, the LRU purged and the process
\* ends.
CloseReturns ==
    /\ phase = "up" /\ closing /\ writer.pc = "idle"
    /\ IF fl[writer.seal].pc = "done"
       THEN \E b \in SaveLBAMap(mapBlob, [present |-> TRUE, map |-> lba2pba]) :
              /\ mapBlob' = b
              /\ clean' = (clean /\ b.present /\ b.map = lba2pba)
       ELSE /\ clean' = FALSE
            /\ UNCHANGED mapBlob
    /\ phase' = "down"
    /\ closing' = FALSE
    /\ UNCHANGED <<vars, journals>>

\* The process dies; what is not on disk or in the store is gone.
Crash ==
    /\ Crashes
    /\ phase \in {"up", "broken"}
    /\ phase' = "down"
    /\ closing' = FALSE
    /\ clean' = FALSE
    /\ UNCHANGED <<vars, journals, mapBlob>>

-----------------------------------------------------------------------------
(***************************************************************************)
(* NewDisk.                                                                *)
(***************************************************************************)

\* The extent map, live blocks and registry after UpdateBatch of segment s.
UpdateBatch(st, s) ==
    [map  |-> [l \in LBAs |-> IF l \in Entries(s) THEN s ELSE st.map[l]],
     live |-> [t \in SegIds |->
                 IF t = s THEN Cardinality(Entries(s))
                 ELSE st.live[t] - Cardinality({l \in Entries(s) : st.map[l] = t})],
     reg  |-> st.reg \cup {s}]

NoRegistry == [map |-> [l \in LBAs |-> NoSeg], live |-> [t \in SegIds |-> 0], reg |-> {}]

\* Mutant: the registry of a loaded map counts no live block.
RegistryOfNoLive(m) ==
    [map |-> m, live |-> [t \in SegIds |-> 0],
     reg |-> {m[l] : l \in LBAs} \ {NoSeg}]

\* loadLBAMap: the segments the loaded map references, each with the
\* blocks that resolve to it.
RegistryOf(m) ==
    [map |-> m, live |-> [t \in SegIds |-> Cardinality({l \in LBAs : m[l] = t})],
     reg |-> {m[l] : l \in LBAs} \ {NoSeg}]

\* rebuildFromSegments: ListSegments, then OpenSegment and UpdateBatch of
\* each listed segment in order; an id with no object fails NewDisk.
RebuildOpens == \A i \in 1..Len(objIndex) : objIndex[i] \in store
Rebuilt == FoldLeft(UpdateBatch, NoRegistry, objIndex)

\* restoreWriteCache: the journals in ULID order; the newest is kept as
\* curOC, each older one is replayed and flushed (uploaded, appended to the
\* index, its journal deleted) and installed over the loaded map.
Older == SetToSortSeq(journals \ {Max(journals)}, <)

\* NewDisk on what persisted.
Restart ==
    /\ phase \in {"down", "failed"}
    /\ LET n    == Max(journals)
           base == IF mapBlob.present THEN RegistryOf(mapBlob.map) ELSE Rebuilt
           st   == FoldLeft(UpdateBatch, base, Older)
       IN IF mapBlob.present \/ RebuildOpens
          THEN /\ phase' = "up"
               /\ curSeq' = n
               /\ body' = Cardinality({l \in LBAs : oc[n][l] \notin {NoVal, Zero}})
               /\ journals' = {n}
               /\ store' = store \cup (journals \ {n})
               /\ objIndex' = objIndex \o Older
               /\ lba2pba' = st.map /\ live' = st.live /\ registered' = st.reg
               /\ handed' = {}
               /\ writer' = [pc |-> "idle", op |-> "write", seal |-> NoSeg, pend |-> {}]
               /\ prevCache' = NoSeg
               /\ fl' = [i \in SegIds |-> [pc |-> "none", snap |-> <<>>, todo |-> {},
                                           victim |-> NoSeg, ctx |-> "live"]]
               /\ rd' = [r \in Readers |-> [rd[r] EXCEPT !.pc = "idle", !.seg = NoSeg,
                                              !.seen = {}, !.res = NoVal, !.via = "bg"]]
               /\ lru' = <<>>
               /\ UNCHANGED <<logical, oc, extCache>>
          ELSE /\ phase' = "failed"
               /\ UNCHANGED <<vars, journals>>
    /\ UNCHANGED <<mapBlob, closing, clean>>

RecNext ==
    \/ DiskStep
    \/ SealFail
    \/ DiskClose
    \/ CloseReturns
    \/ Crash
    \/ Restart

RecSpec == RecInit /\ [][RecNext]_allVars

-----------------------------------------------------------------------------
(***************************************************************************)
(* Properties.                                                             *)
(***************************************************************************)

\* The creator or segment holding the newest record of l, if any.
Holders(l) == {s \in SegIds : oc[s][l] # NoVal}

\* No completed write exists only in memory: the newest record of every
\* LBA is in a journal or in a segment object, whatever the flush
\* goroutines, cleanupDeletedSegments, a failed seal or a restart did, so
\* a crash at any step keeps it.  This holds only if oc.Flush deletes the
\* journal after the upload and cleanup deletes no live segment.
Durable ==
    \A l \in LBAs : Holders(l) # {} => Max(Holders(l)) \in journals \cup store

\* After any crash, NewDisk opens the volume and every LBA resolves, through
\* the restored curOC and the loaded or rebuilt map, to its last write in a
\* segment that exists.
RestartRecovers ==
    /\ phase # "failed"
    /\ phase = "up" => NoWriteLost /\ MapRefsStored

\* A volume every process of which ended with a successful Disk.Close
\* (CloseSegment, then saveLBAMap) reopens with all its writes, and the
\* registry loadLBAMap rebuilds lets cleanup delete only dead segments.
CleanRestartRecovers == clean => RestartRecovers

=============================================================================
