--------------------------- MODULE ObjectCreator ---------------------------
(***************************************************************************)
(* The legacy segment writer of object.go: ObjectCreator buffers blocks    *)
(* (WriteExtent), then Flush encodes a header, points an LBA map at the    *)
(* new segment and writes the file; LocalFile reads a block back.          *)
(*                                                                         *)
(* Bytes are abstracted to cells.  A body cell records which block it      *)
(* belongs to as the block's value v, its position i in the block's stored *)
(* bytes and the stored length n, so a read at an offset decodes to a      *)
(* block exactly when it starts on a block's first cell and spans it.      *)
(* lz4 is the function Lz4Size from a block's content to the size          *)
(* CompressBlock returns (0 when incompressible).  Fixed-width fields keep *)
(* their width: uint32 is OffsetBits wide, scaled down with BlockSize.     *)
(***************************************************************************)
EXTENDS Naturals, Sequences
LOCAL INSTANCE SequencesExt

CONSTANTS
    LBAs,          \* block addresses, a set of naturals
    Values,        \* non-zero block contents
    Zero,          \* the all-zero block (emptyBlock)
    Lz4Size(_),    \* lz4.CompressBlock's result for a block's content
    BlockSize,     \* bytes per block
    OffsetBits,    \* width of the uint32 fields of objPBA and the file header
    MaxBlocks,     \* bound: blocks buffered in one creator
    MaxExtent,     \* bound: blocks per WriteExtent call
    MaxSegs,       \* bound: segments flushed
    Faults         \* whether os.Create and f.Write may fail

ASSUME /\ LBAs \subseteq Nat
       /\ BlockSize \in Nat \ {0}
       /\ \A v \in Values : Lz4Size(v) \in 0..2 * BlockSize
       /\ Faults \in BOOLEAN

Data == Values \cup {Zero}
SegIds == 1..MaxSegs

\* ocBlock.flags values
Uncompressed == 0
Compressed == 1
Empty == 2

NoPBA == [seg |-> 0, off |-> 0, flags |-> Empty, size |-> 0]
NoFile == [exists |-> FALSE, size |-> 0, begin |-> 0, body |-> <<>>]

\* Outcomes of a read: a block's content, bytes of something else, an error.
Garbage == "garbage"
Err == "err"

\* uint32(x)
Trunc(x) == x % (2 ^ OffsetBits)

VARIABLES
    cnt,      \* o.cnt
    offset,   \* o.offset
    blocks,   \* o.blocks: Seq of [lba, flags, size, offset]
    body,     \* o.body: Seq of cells
    m,        \* the treemap passed to Flush: LBA -> objPBA
    files,    \* the files at the segments' paths
    nextSeg,  \* the segment id the caller passes to the next Flush
    latest    \* ghost: the content last given to WriteExtent for each LBA

vars == <<cnt, offset, blocks, body, m, files, nextSeg, latest>>

Cell == [v : Values, i : 1..BlockSize, n : 1..BlockSize]
Block == [lba : LBAs, flags : {Uncompressed, Compressed, Empty},
          size : 0..BlockSize, offset : Nat]
PBA == [seg : SegIds \cup {0}, off : 0..(2 ^ OffsetBits - 1),
        flags : {Uncompressed, Compressed, Empty}, size : 0..BlockSize]

TypeOK ==
    /\ cnt = Len(blocks) /\ cnt <= MaxBlocks
    /\ offset = Len(body)
    /\ blocks \in Seq(Block)
    /\ body \in Seq(Cell)
    /\ m \in [LBAs -> PBA]
    /\ files \in [SegIds -> [exists : BOOLEAN, size : Nat, begin : Nat,
                             body : Seq(Cell)]]
    /\ nextSeg \in 1..MaxSegs + 1
    /\ latest \in [LBAs -> Data]

Init ==
    /\ cnt = 0
    /\ offset = 0
    /\ blocks = <<>>
    /\ body = <<>>
    /\ m = [l \in LBAs |-> NoPBA]
    /\ files = [s \in SegIds |-> NoFile]
    /\ nextSeg = 1
    /\ latest = [l \in LBAs |-> Zero]

-----------------------------------------------------------------------------
(* WriteExtent                                                             *)

\* The bytes stored for a non-empty block, and its flags: compressed only
\* when lz4 produced 0 < sz < BlockSize.
StoredSize(v) == IF Lz4Size(v) > 0 /\ Lz4Size(v) < BlockSize
                 THEN Lz4Size(v) ELSE BlockSize
StoredFlags(v) == IF Lz4Size(v) > 0 /\ Lz4Size(v) < BlockSize
                  THEN Compressed ELSE Uncompressed

\* Mutant: the empty-block branch forgets o.cnt++.
PutBlockNoCnt(o, lba, v) ==
    IF v = Zero
    THEN [o EXCEPT !.blocks = Append(@, [lba |-> lba, flags |-> Empty,
                                         size |-> 0, offset |-> 0])]
    ELSE LET n == StoredSize(v)
         IN [o EXCEPT !.cnt = @ + 1,
                !.blocks = Append(@, [lba |-> lba, flags |-> StoredFlags(v),
                                      size |-> n, offset |-> o.offset]),
                !.body = @ \o [j \in 1..n |-> [v |-> v, i |-> j, n |-> n]],
                !.offset = @ + n]

\* One iteration of WriteExtent's loop on the creator o for block v at lba:
\* an empty block is a record with flags 2 and no body; any other block
\* appends its stored bytes to the body at o.offset.
PutBlock(o, lba, v) ==
    IF v = Zero
    THEN [o EXCEPT !.cnt = @ + 1,
                   !.blocks = Append(@, [lba |-> lba, flags |-> Empty,
                                         size |-> 0, offset |-> 0])]
    ELSE LET n == StoredSize(v)
         IN [o EXCEPT !.cnt = @ + 1,
                !.blocks = Append(@, [lba |-> lba, flags |-> StoredFlags(v),
                                      size |-> n, offset |-> o.offset]),
                !.body = @ \o [j \in 1..n |-> [v |-> v, i |-> j, n |-> n]],
                !.offset = @ + n]

RECURSIVE PutBlocks(_, _, _, _)
PutBlocks(o, first, vals, i) ==
    IF i > Len(vals) THEN o
    ELSE PutBlocks(PutBlock(o, first + i - 1, vals[i]), first, vals, i + 1)

\* CompressBlock into a 2*BlockSize scratch and bytes.Buffer.Write cannot
\* fail, so the loop runs to the end.
WriteExtent(first, vals) ==
    LET o == PutBlocks([cnt |-> cnt, offset |-> offset, blocks |-> blocks,
                        body |-> body], first, vals, 1)
    IN /\ o.cnt <= MaxBlocks
       /\ cnt' = o.cnt
       /\ offset' = o.offset
       /\ blocks' = o.blocks
       /\ body' = o.body
       /\ latest' = [l \in LBAs |->
                       IF l - first + 1 \in DOMAIN vals
                       THEN vals[l - first + 1] ELSE latest[l]]
       /\ UNCHANGED <<m, files, nextSeg>>

\* Extents of 1..MaxExtent blocks inside LBAs.
ExtentInputs ==
    {<<f, vals>> : f \in LBAs,
                   vals \in UNION {[1..k -> Data] : k \in 1..MaxExtent}}
ValidExtent(f, vals) == \A j \in 1..Len(vals) : f + j - 1 \in LBAs

-----------------------------------------------------------------------------
(* Flush                                                                   *)

\* Bytes binary.PutUvarint writes: one per started group of 7 bits.
RECURSIVE UvarintLen(_)
UvarintLen(x) == IF x < 128 THEN 1 ELSE 1 + UvarintLen(x \div 128)

\* A header record: varint(lba), the flags byte, varint(size), varint(offset).
RecordLen(b) == UvarintLen(b.lba) + 1 + UvarintLen(b.size)
                + UvarintLen(b.offset)

HeaderLen(bs) == FoldLeft(LAMBDA acc, b : acc + RecordLen(b), 0, bs)

\* Mutant: dataBegin without the 8 bytes of count and dataBegin.
DataBeginNoPrefix(bs) == Trunc(HeaderLen(bs))

\* dataBegin := uint32(o.header.Len() + 8)
DataBegin(bs) == Trunc(HeaderLen(bs) + 8)

\* The objPBA m.Set gives a block of segment seg.
EntryOf(bs, seg, b) ==
    [seg |-> seg, off |-> Trunc(DataBegin(bs) + Trunc(b.offset)),
     flags |-> b.flags, size |-> b.size]

\* The map after the m.Set loop: the last record of an LBA wins.
MapAfter(bs, seg) ==
    [l \in LBAs |->
        LET k == SelectLastInSeq(bs, LAMBDA b : b.lba = l)
        IN IF k = 0 THEN m[l] ELSE EntryOf(bs, seg, bs[k])]

\* The file: 4 bytes count, 4 bytes dataBegin, the header, the body.
FileOf(bs, bd) ==
    [exists |-> TRUE, size |-> 8 + HeaderLen(bs) + Len(bd),
     begin |-> 8 + HeaderLen(bs), body |-> bd]

\* What is on disk when Flush returns: os.Create failed (no file), a Write
\* or io.Copy failed (a prefix), or everything was written.
FileOutcomes(bs, bd) ==
    LET full == FileOf(bs, bd)
    IN IF Faults
       THEN {NoFile, full} \cup {[full EXCEPT !.size = k] : k \in 0..full.size - 1}
       ELSE {full}

\* Flush sets the map entries before os.Create, and its deferred Reset
\* empties the creator on every return.
Flush ==
    /\ nextSeg <= MaxSegs
    /\ m' = MapAfter(blocks, nextSeg)
    /\ \E f \in FileOutcomes(blocks, body) : files' = [files EXCEPT ![nextSeg] = f]
    /\ nextSeg' = nextSeg + 1
    /\ cnt' = 0 /\ offset' = 0 /\ blocks' = <<>> /\ body' = <<>>
    /\ UNCHANGED latest

-----------------------------------------------------------------------------
(* LocalFile                                                               *)

\* l.f.ReadAt(b, off) with len(b) = n: an error when the file ends first,
\* else the block whose stored bytes are exactly those n bytes, if any.
ReadAt(f, off, n) ==
    IF ~f.exists \/ off + n > f.size THEN Err
    ELSE IF off < f.begin THEN Garbage
    ELSE LET c == f.body[off - f.begin + 1]
         IN IF c.i = 1 /\ c.n = n
               /\ \A j \in 1..n : f.body[off - f.begin + j] = [c EXCEPT !.i = j]
            THEN c.v ELSE Garbage

\* ReadAtCompressed: lz4.UncompressBlock must give exactly BlockSize bytes;
\* anything but a compressed block's bytes is taken to fail that test.
ReadAtCompressed(f, off, compSize) ==
    LET r == ReadAt(f, off, compSize)
    IN IF r \in Values /\ StoredFlags(r) = Compressed THEN r ELSE Err

\* Reading an objPBA back through the segment's LocalFile.
ReadPBA(p) ==
    CASE p.flags = Empty      -> Zero
      [] p.flags = Compressed -> ReadAtCompressed(files[p.seg], p.off, p.size)
      [] OTHER                -> ReadAt(files[p.seg], p.off, BlockSize)

ReadLBA(l) == IF m[l] = NoPBA THEN Zero ELSE ReadPBA(m[l])

-----------------------------------------------------------------------------

Next ==
    \/ \E e \in ExtentInputs : ValidExtent(e[1], e[2]) /\ WriteExtent(e[1], e[2])
    \/ Flush

Spec == Init /\ [][Next]_vars

-----------------------------------------------------------------------------
(* Properties                                                              *)

\* Every block written and no longer buffered in the creator reads back,
\* through the map Flush filled and the file it wrote, as the content last
\* written to it: the header length, dataBegin, per-block offsets, flags and
\* the uint32 fields of objPBA must all agree with the file's layout.
ReadBack ==
    \A l \in LBAs :
        (\A k \in 1..Len(blocks) : blocks[k].lba # l) => ReadLBA(l) = latest[l]


=============================================================================
