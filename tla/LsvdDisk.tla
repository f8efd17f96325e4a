------------------------------ MODULE LsvdDisk ------------------------------
(***************************************************************************)
(* The Disk of lsvd (src/disk.go): one writer filling the current segment  *)
(* creator (curOC), sealing it when its body reaches FlushThreshHold, a    *)
(* background flush goroutine per sealed creator (upload, append to the    *)
(* volume's object index, install into the extent map, clear the previous  *)
(* cache, delete dead segments), and concurrent readers that look in curOC,*)
(* then in the previous cache, then resolve through the extent map and     *)
(* read the segment from the object store (S3Access).                      *)
(*                                                                         *)
(* Data is abstracted to one block per LBA: a creator or segment is a      *)
(* function from LBA to the block it holds (NoVal when it holds none), and *)
(* the extent map is a function from LBA to the segment holding it.  The   *)
(* creator with ULID i becomes segment i, so oc[i] is both.                *)
(***************************************************************************)
EXTENDS Naturals, FiniteSets, Sequences
LOCAL INSTANCE SequencesExt

CONSTANTS
    LBAs,       \* the LBAs of the volume (a small interval of naturals)
    Values,     \* non-zero block contents (model values)
    Zero,       \* the all-zero block: emptyBlock, flags=Empty, size 0
    NoVal,      \* "this creator holds no record for the LBA"
    Err,        \* a read that returned an error to its caller
    Readers,    \* concurrent ReadExtent callers
    MaxSeg,     \* bound: number of segment ULIDs the writer may allocate
    Threshold,  \* FlushThreshHold, in non-empty blocks of body
    LruCap,     \* capacity of the openSegments LRU (256 in the code)
    CtxCancel,  \* whether a caller may cancel the ctx it passed in
    StoreErrors,\* whether a store call may fail transiently
    LocalFiles  \* segments are read through LocalFileAccess, NewDisk's default

ASSUME /\ LBAs \subseteq Nat /\ LBAs # {}
       /\ {Zero, NoVal, Err} \cap Values = {}
       /\ MaxSeg \in Nat \ {0} /\ Threshold \in Nat \ {0}
       /\ LruCap \in Nat \ {0}
       /\ CtxCancel \in BOOLEAN /\ StoreErrors \in BOOLEAN /\ LocalFiles \in BOOLEAN

\* Segment ULIDs in creation order; 0 is the zero ULID.
NoSeg == 0
SegIds == 1..MaxSeg
Data == Values \cup {Zero}

VARIABLES
    logical,    \* ghost: the block each LBA holds in the abstract disk
    oc,         \* oc[i]: records of the creator (and segment) with ULID i
    curSeq,     \* d.curSeq, the ULID of d.curOC
    body,       \* d.curOC.BodySize(), counted in non-empty blocks
    writer,     \* the writer's call in progress
    prevCache,  \* d.prevCache: ULID of the sealed creator, or NoSeg
    lba2pba,    \* d.lba2pba: the segment each LBA resolves to, or NoSeg
    registered, \* ULIDs created in d.s (Segments.Create)
    live,       \* d.s liveBlocks per segment
    handed,     \* dead segments already returned by FindDeleted
    store,      \* segment objects present in the object store
    objIndex,   \* volumes/<vol>/objects: the volume's object index
    fl,         \* the flush goroutine of each sealed creator
    rd,         \* each reader's ReadExtent in progress
    lru,        \* d.openSegments, least recently used first
    extCache    \* d.extentCache: <<segment, LBA>> extents cached locally

vars == <<logical, oc, curSeq, body, writer, prevCache, lba2pba, registered,
          live, handed, store, objIndex, fl, rd, lru, extCache>>

FlPcs == {"none", "upload", "appendRead", "appendWrite", "install", "clear",
          "find", "rmRead", "rmWrite", "rmSeg", "done"}
\* The ctx an S3ObjectReader was opened with (see ReadOpen); "closed" is a
\* LocalFile whose file the LRU closed.
Ctxs == Readers \cup {"dead", "bg", "closed"}
RdPcs == {"idle", "prev", "resolve", "fetch", "readAt", "done"}

TypeOK ==
    /\ logical \in [LBAs -> Data]
    /\ oc \in [SegIds -> [LBAs -> Data \cup {NoVal}]]
    /\ curSeq \in SegIds
    /\ body \in 0..Threshold
    /\ writer \in [pc : {"idle", "setprev", "waitflush"}, op : {"write", "close"},
                   seal : SegIds \cup {NoSeg}, pend : SUBSET (LBAs \X Data)]
    /\ prevCache \in SegIds \cup {NoSeg}
    /\ lba2pba \in [LBAs -> SegIds \cup {NoSeg}]
    /\ registered \subseteq SegIds /\ handed \subseteq registered
    /\ live \in [SegIds -> 0..Cardinality(LBAs)]
    /\ store \subseteq SegIds
    /\ objIndex \in Seq(SegIds \cup {NoSeg})
    /\ fl \in [SegIds -> [pc : FlPcs, snap : Seq(SegIds \cup {NoSeg}),
                          todo : SUBSET SegIds, victim : SegIds \cup {NoSeg},
                          ctx : {"live", "cancelled"}]]
    /\ rd \in [Readers -> [pc : RdPcs, lba : LBAs, seg : SegIds \cup {NoSeg},
                           seen : SUBSET Data, res : Data \cup {Err, NoVal},
                           via : Ctxs]]
    /\ lru \in Seq([seg : SegIds, ctx : Ctxs])
    /\ extCache \subseteq SegIds \X LBAs

(***************************************************************************)
(* NewDisk on a fresh volume: restoreWriteCache finds no journal, so a new *)
(* creator is made (newSegmentCreator takes the first ULID); there is no   *)
(* saved LBA map and rebuildFromSegments finds an empty object index.      *)
(***************************************************************************)
Init ==
    /\ logical = [l \in LBAs |-> Zero]
    /\ oc = [i \in SegIds |-> [l \in LBAs |-> NoVal]]
    /\ curSeq = 1
    /\ body = 0
    /\ writer = [pc |-> "idle", op |-> "write", seal |-> NoSeg, pend |-> {}]
    /\ prevCache = NoSeg
    /\ lba2pba = [l \in LBAs |-> NoSeg]
    /\ registered = {} /\ live = [i \in SegIds |-> 0] /\ handed = {}
    /\ store = {}
    /\ objIndex = <<>>
    /\ fl = [i \in SegIds |-> [pc |-> "none", snap |-> <<>>, todo |-> {},
                                victim |-> NoSeg, ctx |-> "live"]]
    /\ rd = [r \in Readers |-> [pc |-> "idle", lba |-> CHOOSE l \in LBAs : TRUE,
                                seg |-> NoSeg, seen |-> {}, res |-> NoVal,
                                via |-> "bg"]]
    /\ lru = <<>>
    /\ extCache = {}

-----------------------------------------------------------------------------
(***************************************************************************)
(* Writer.                                                                 *)
(***************************************************************************)

\* A reader whose ReadExtent has started and not yet returned.
Reading(r) == rd[r].pc \notin {"idle", "done"}

\* SegmentCreator.WriteExtent / ZeroBlocks: store the blocks ws (a function
\* from some LBAs to their new contents) in curOC; later records shadow
\* earlier ones.  logical and the readers' admissible results follow.
PutBlocks(ws) ==
    /\ oc' = [oc EXCEPT ![curSeq] =
                [l \in LBAs |-> IF l \in DOMAIN ws THEN ws[l] ELSE @[l]]]
    /\ logical' = [l \in LBAs |-> IF l \in DOMAIN ws THEN ws[l] ELSE logical[l]]
    /\ rd' = [r \in Readers |->
                IF Reading(r) /\ rd[r].lba \in DOMAIN ws
                THEN [rd[r] EXCEPT !.seen = @ \cup {ws[rd[r].lba]}]
                ELSE rd[r]]

\* Body bytes a block adds: none for an empty block (flags=Empty).
BodyOf(d) == IF d = Zero THEN 0 ELSE 1

\* The first half of closeSegmentAsync: segId := d.curSeq, oc := d.curOC,
\* then newSegmentCreator takes the next ULID and becomes d.curOC.  The
\* sealed creator is held only by the writer until SetWhenClear returns.
SealCurrent(op, pend) ==
    /\ curSeq < MaxSeg
    /\ writer' = [pc |-> "setprev", op |-> op, seal |-> curSeq, pend |-> pend]
    /\ curSeq' = curSeq + 1
    /\ body' = 0

\* The write of ws completes, or seals when the body reached the threshold.
WriteThenMaybeSeal(ws, newBody) ==
    /\ PutBlocks(ws)
    /\ IF newBody >= Threshold
       THEN SealCurrent("write", {<<l, logical[l]>> : l \in DOMAIN ws})
       ELSE /\ body' = newBody
            /\ UNCHANGED <<writer, curSeq>>

WriterUnchangedRest ==
    UNCHANGED <<prevCache, lba2pba, registered, live, handed, store, objIndex,
                fl, lru, extCache>>

\* Disk.WriteExtent of one contiguous extent e with contents ws.
WriteExtent(ws) ==
    /\ writer.pc = "idle"
    /\ WriteThenMaybeSeal(ws,
         body + Cardinality({l \in DOMAIN ws : ws[l] # Zero}))
    /\ WriterUnchangedRest

\* Disk.WriteExtents of two one-block ranges, written in order with the
\* threshold checked once after both.
WriteExtents(l1, d1, l2, d2) ==
    /\ writer.pc = "idle"
    /\ WriteThenMaybeSeal(IF l1 = l2 THEN (l2 :> d2) ELSE (l1 :> d1) @@ (l2 :> d2),
                          body + BodyOf(d1) + BodyOf(d2))
    /\ WriterUnchangedRest

\* Disk.ZeroBlocks: an Empty record; no body bytes and no threshold check.
ZeroBlocks(e) ==
    /\ writer.pc = "idle"
    /\ PutBlocks([l \in e |-> Zero])
    /\ UNCHANGED <<body, writer, curSeq>>
    /\ WriterUnchangedRest

\* Disk.CloseSegment: seal curOC whatever its size, then wait for the flush.
CloseSegment ==
    /\ writer.pc = "idle"
    /\ SealCurrent("close", {})
    /\ UNCHANGED <<logical, oc, rd>>
    /\ WriterUnchangedRest

\* Mutant: SetWhenClear does not wait for the slot to be clear.
SetPrevNoWait ==
    /\ writer.pc = "setprev"
    /\ prevCache' = writer.seal
    /\ fl' = [fl EXCEPT ![writer.seal].pc = "upload"]
    /\ writer' = [writer EXCEPT !.pc = IF writer.op = "close" THEN "waitflush"
                                                            ELSE "idle",
                                !.pend = {}]
    /\ UNCHANGED <<logical, oc, curSeq, body, lba2pba, registered, live, handed,
                   store, objIndex, rd, lru, extCache>>

\* The rest of closeSegmentAsync: prevCache.SetWhenClear(oc) waits until the
\* previous flush has cleared the slot, sets it, and starts the goroutine.
SetPrev ==
    /\ writer.pc = "setprev"
    /\ prevCache = NoSeg
    /\ prevCache' = writer.seal
    /\ fl' = [fl EXCEPT ![writer.seal].pc = "upload"]
    /\ writer' = [writer EXCEPT !.pc = IF writer.op = "close" THEN "waitflush"
                                                            ELSE "idle",
                                !.pend = {}]
    /\ UNCHANGED <<logical, oc, curSeq, body, lba2pba, registered, live, handed,
                   store, objIndex, rd, lru, extCache>>

\* The ctx closeSegmentAsync was called with, which every call of the
\* goroutine to the object store uses, has not been cancelled.
Live(s) == fl[s].ctx = "live"

\* The caller of the write or CloseSegment that sealed s cancels its ctx.
\* CloseSegment, when waiting for that flush, returns ctx.Err(); the flush
\* goroutine keeps the cancelled ctx.
CancelCtx(s) ==
    /\ CtxCancel
    /\ fl[s].pc \notin {"none", "done"} /\ Live(s)
    /\ fl' = [fl EXCEPT ![s].ctx = "cancelled"]
    /\ writer' = IF writer.pc = "waitflush" /\ writer.seal = s
                 THEN [writer EXCEPT !.pc = "idle", !.op = "write"]
                 ELSE writer
    /\ UNCHANGED <<logical, oc, curSeq, body, prevCache, lba2pba, registered,
                   live, handed, store, objIndex, rd, lru, extCache>>

\* CloseSegment returns once the goroutine has closed its done channel.
CloseDone ==
    /\ writer.pc = "waitflush"
    /\ fl[writer.seal].pc = "done"
    /\ writer' = [writer EXCEPT !.pc = "idle", !.op = "write"]
    /\ UNCHANGED <<logical, oc, curSeq, body, prevCache, lba2pba, registered,
                   live, handed, store, objIndex, fl, rd, lru, extCache>>

-----------------------------------------------------------------------------
(***************************************************************************)
(* The flush goroutine of closeSegmentAsync for segment s.                 *)
(***************************************************************************)

FlUnchanged == UNCHANGED <<logical, oc, curSeq, body, writer, rd, lru, extCache>>

\* oc.Flush, first step: WriteSegment streams the segment object to the store.
FlushUpload(s) ==
    /\ fl[s].pc = "upload" /\ Live(s)
    /\ store' = store \cup {s}
    /\ fl' = [fl EXCEPT ![s].pc = "appendRead"]
    /\ FlUnchanged
    /\ UNCHANGED <<prevCache, lba2pba, registered, live, handed, objIndex>>

\* With the ctx cancelled, bgWriter.Close returns b.err as soon as the ctx
\* is done, racing the upload goroutine's write of b.err: Flush may see nil
\* and go on to AppendToObjects although no object was stored.
FlushUploadLost(s) ==
    /\ fl[s].pc = "upload" /\ ~Live(s)
    /\ fl' = [fl EXCEPT ![s].pc = "appendRead"]
    /\ FlUnchanged
    /\ UNCHANGED <<prevCache, lba2pba, registered, live, handed, store, objIndex>>

\* oc.Flush, AppendToObjects: ListSegments reads the index ...
FlushAppendRead(s) ==
    /\ fl[s].pc = "appendRead" /\ Live(s)
    /\ fl' = [fl EXCEPT ![s].pc = "appendWrite", ![s].snap = objIndex]
    /\ FlUnchanged
    /\ UNCHANGED <<prevCache, lba2pba, registered, live, handed, store, objIndex>>

\* Mutant: the previous cache is cleared as soon as the segment is
\* published, before the extent map is updated.
FlushAppendWriteClears(s) ==
    /\ fl[s].pc = "appendWrite" /\ Live(s)
    /\ objIndex' = Append(fl[s].snap, s)
    /\ prevCache' = NoSeg
    /\ fl' = [fl EXCEPT ![s].pc = "install", ![s].snap = <<>>]
    /\ FlUnchanged
    /\ UNCHANGED <<lba2pba, registered, live, handed, store>>

\* ... and uploads the list read, with s appended.
FlushAppendWrite(s) ==
    /\ fl[s].pc = "appendWrite" /\ Live(s)
    /\ objIndex' = Append(fl[s].snap, s)
    /\ fl' = [fl EXCEPT ![s].pc = "install", ![s].snap = <<>>]
    /\ FlUnchanged
    /\ UNCHANGED <<prevCache, lba2pba, registered, live, handed, store>>

\* ListSegments or the index upload fails: Flush returns the error and the
\* loop sleeps and retries the whole Flush.  Once the ctx is cancelled
\* every attempt fails, the upload included.
FlushRetry(s) ==
    /\ \/ fl[s].pc \in {"appendRead", "appendWrite"}
       \/ fl[s].pc = "upload" /\ ~Live(s)
    /\ fl' = [fl EXCEPT ![s].pc = "upload", ![s].snap = <<>>]
    /\ FlUnchanged
    /\ UNCHANGED <<prevCache, lba2pba, registered, live, handed, store, objIndex>>

\* The LBAs segment s has a record for: its entries.
Entries(s) == {l \in LBAs : oc[s][l] # NoVal}

\* Mutant: UpdateBatch never credits the new segment with its blocks.
InstallNoInc(s) ==
    /\ fl[s].pc = "install"
    /\ registered' = registered \cup {s}
    /\ lba2pba' = [l \in LBAs |-> IF l \in Entries(s) THEN s ELSE lba2pba[l]]
    /\ live' = [t \in SegIds |->
                  IF t = s THEN 0
                  ELSE live[t] - Cardinality({l \in Entries(s) : lba2pba[l] = t})]
    /\ fl' = [fl EXCEPT ![s].pc = "clear"]
    /\ FlUnchanged
    /\ UNCHANGED <<prevCache, handed, store, objIndex>>

\* Mutant: every older registered segment is debited the whole batch.
InstallDebitAll(s) ==
    /\ fl[s].pc = "install"
    /\ registered' = registered \cup {s}
    /\ lba2pba' = [l \in LBAs |-> IF l \in Entries(s) THEN s ELSE lba2pba[l]]
    /\ live' = [t \in SegIds |->
                  IF t = s THEN Cardinality(Entries(s))
                  ELSE IF t \in registered THEN live[t] - Cardinality(Entries(s))
                  ELSE live[t]]
    /\ fl' = [fl EXCEPT ![s].pc = "clear"]
    /\ FlUnchanged
    /\ UNCHANGED <<prevCache, handed, store, objIndex>>

\* d.s.Create(segId, stats) then d.lba2pba.UpdateBatch(entries, segId, d.s):
\* every entry now resolves to s, the segments it covered lose those blocks.
Install(s) ==
    /\ fl[s].pc = "install"
    /\ registered' = registered \cup {s}
    /\ lba2pba' = [l \in LBAs |-> IF l \in Entries(s) THEN s ELSE lba2pba[l]]
    /\ live' = [t \in SegIds |->
                  IF t = s THEN Cardinality(Entries(s))
                  ELSE live[t] - Cardinality({l \in Entries(s) : lba2pba[l] = t})]
    /\ fl' = [fl EXCEPT ![s].pc = "clear"]
    /\ FlUnchanged
    /\ UNCHANGED <<prevCache, handed, store, objIndex>>

\* Mutant: the goroutine never clears the previous cache.
ClearPrevMissing(s) ==
    /\ fl[s].pc = "clear"
    /\ fl' = [fl EXCEPT ![s].pc = "find"]
    /\ FlUnchanged
    /\ UNCHANGED <<prevCache, lba2pba, registered, live, handed, store, objIndex>>

\* d.prevCache.Clear().
ClearPrev(s) ==
    /\ fl[s].pc = "clear"
    /\ prevCache' = NoSeg
    /\ fl' = [fl EXCEPT ![s].pc = "find"]
    /\ FlUnchanged
    /\ UNCHANGED <<lba2pba, registered, live, handed, store, objIndex>>

\* Segments.FindDeleted: the registered segments with no live block that
\* have not been returned before.
Dead == {t \in registered \ handed : live[t] = 0}

\* cleanupDeletedSegments takes the list of dead segments.
FindDeleted(s) ==
    /\ fl[s].pc = "find"
    /\ handed' = handed \cup Dead
    /\ fl' = [fl EXCEPT ![s].pc = IF Dead = {} THEN "done" ELSE "rmRead",
                        ![s].todo = Dead]
    /\ FlUnchanged
    /\ UNCHANGED <<prevCache, lba2pba, registered, live, store, objIndex>>

\* RemoveSegmentFromVolume: ListSegments reads the index (the dead list is
\* a Go map's keys, so any order).
RemoveRead(s) ==
    /\ fl[s].pc = "rmRead" /\ Live(s)
    /\ \E x \in fl[s].todo :
         fl' = [fl EXCEPT ![s].pc = "rmWrite", ![s].victim = x,
                          ![s].snap = objIndex]
    /\ FlUnchanged
    /\ UNCHANGED <<prevCache, lba2pba, registered, live, handed, store, objIndex>>

\* slices.DeleteFunc(segments, ...) with its result dropped: the slice keeps
\* its length; the kept ids are shifted to the front and the tail is zeroed
\* (Go >= 1.22) or keeps its old ids (Go 1.21).
DeleteFuncKeepLen(snap, x) ==
    LET kept == Remove(snap, x)
        n    == Len(snap) - Len(kept)
    IN  { kept \o [i \in 1..n |-> NoSeg],
          kept \o SubSeq(snap, Len(kept) + 1, Len(snap)) }

\* ... and uploads the list as left by DeleteFunc.
RemoveWrite(s) ==
    /\ fl[s].pc = "rmWrite" /\ Live(s)
    /\ objIndex' \in DeleteFuncKeepLen(fl[s].snap, fl[s].victim)
    /\ fl' = [fl EXCEPT ![s].pc = "rmSeg", ![s].snap = <<>>]
    /\ FlUnchanged
    /\ UNCHANGED <<prevCache, lba2pba, registered, live, handed, store>>

\* Mutant: the removed segment is not taken off the dead list.
RemoveSegmentKeepTodo(s) ==
    /\ fl[s].pc = "rmSeg" /\ Live(s)
    /\ store' = store \ {fl[s].victim}
    /\ fl' = [fl EXCEPT ![s].pc = "rmRead", ![s].victim = NoSeg]
    /\ FlUnchanged
    /\ UNCHANGED <<prevCache, lba2pba, registered, live, handed, objIndex>>

\* removeSegmentIfPossible: RemoveSegment deletes the object.
RemoveSegment(s) ==
    /\ fl[s].pc = "rmSeg" /\ Live(s)
    /\ store' = store \ {fl[s].victim}
    /\ fl' = [fl EXCEPT ![s].pc = IF fl[s].todo = {fl[s].victim} THEN "done"
                                                                  ELSE "rmRead",
                        ![s].todo = @ \ {fl[s].victim}, ![s].victim = NoSeg]
    /\ FlUnchanged
    /\ UNCHANGED <<prevCache, lba2pba, registered, live, handed, objIndex>>

\* Any of the three calls fails: cleanupDeletedSegments returns the error,
\* which is logged; the rest of the dead list is dropped.
CleanupFail(s) ==
    /\ fl[s].pc \in {"rmRead", "rmWrite", "rmSeg"}
    /\ fl' = [fl EXCEPT ![s].pc = "done", ![s].todo = {}, ![s].victim = NoSeg,
                        ![s].snap = <<>>]
    /\ FlUnchanged
    /\ UNCHANGED <<prevCache, lba2pba, registered, live, handed, store, objIndex>>

-----------------------------------------------------------------------------
(***************************************************************************)
(* Readers: ReadExtent of one block.                                       *)
(***************************************************************************)

RdUnchanged == UNCHANGED <<logical, oc, curSeq, body, writer, prevCache, lba2pba,
                           registered, live, handed, store, objIndex, fl>>

\* The results a read of l may return: what l holds when the read starts,
\* what a write still in progress found there, and (see PutBlocks) whatever
\* is written to l before the read returns.
Admissible(l) == {logical[l]} \cup {p[2] : p \in {q \in writer.pend : q[1] = l}}

Finish(r, v) == [rd[r] EXCEPT !.pc = "done", !.res = v]

\* fillFromWriteCache: d.curOC.FillExtent.
ReadStart(r, l) ==
    /\ rd[r].pc = "idle"
    /\ LET v == oc[curSeq][l]
           r0 == [pc |-> "prev", lba |-> l, seg |-> NoSeg,
                  seen |-> Admissible(l), res |-> NoVal, via |-> "bg"]
       IN rd' = [rd EXCEPT ![r] = IF v # NoVal THEN [r0 EXCEPT !.pc = "done",
                                                               !.res = v]
                                  ELSE r0]
    /\ RdUnchanged /\ UNCHANGED <<lru, extCache>>

\* fillingFromPrevWriteCache: d.prevCache.Load(), then FillExtent on it.
ReadPrev(r) ==
    /\ rd[r].pc = "prev"
    /\ LET p == prevCache
       IN rd' = [rd EXCEPT ![r] =
                   IF p # NoSeg /\ oc[p][rd[r].lba] # NoVal
                   THEN Finish(r, oc[p][rd[r].lba])
                   ELSE [rd[r] EXCEPT !.pc = "resolve"]]
    /\ RdUnchanged /\ UNCHANGED <<lru, extCache>>

\* d.lba2pba.Resolve; nothing mapped or an Empty extent (Size 0) leaves the
\* pre-zeroed buffer as it is.
ReadResolve(r) ==
    /\ rd[r].pc = "resolve"
    /\ LET s == lba2pba[rd[r].lba]
       IN rd' = [rd EXCEPT ![r] =
                   IF s = NoSeg \/ oc[s][rd[r].lba] = Zero
                   THEN Finish(r, Zero)
                   ELSE [rd[r] EXCEPT !.pc = "fetch", !.seg = s]]
    /\ RdUnchanged /\ UNCHANGED <<lru, extCache>>

\* readPartialExtent: the extent is in the local read cache.
ReadCacheHit(r) ==
    /\ rd[r].pc = "fetch"
    /\ <<rd[r].seg, rd[r].lba>> \in extCache
    /\ rd' = [rd EXCEPT ![r] = Finish(r, oc[rd[r].seg][rd[r].lba])]
    /\ RdUnchanged /\ UNCHANGED <<lru, extCache>>

\* d.openSegments holds S3ObjectReaders, each with the ctx of the ReadExtent
\* call that opened it: a reader's call in progress, a call whose caller
\* cancelled its ctx on return ("dead"), or one never cancelled ("bg").
LruKeys(q) == {q[i].seg : i \in 1..Len(q)}
LruGet(q, s) == q[CHOOSE i \in 1..Len(q) : q[i].seg = s]

\* golang-lru: Get makes a key the most recent; Add of a new key puts it
\* last, evicting the oldest at capacity.
LruTouch(q, s) == Append(SelectSeq(q, LAMBDA e : e.seg # s), LruGet(q, s))
LruAdd(q, e) ==
    IF Len(q) = LruCap THEN Append(Tail(q), e) ELSE Append(q, e)

\* OpenSegment of LocalFileAccess makes a LocalFile (OpenLocalFile), which
\* keeps no ctx; S3Access keeps the ctx of the calling ReadExtent.
HandleCtx(r) == IF LocalFiles THEN "bg" ELSE r

\* Add at capacity evicts the oldest reader and the eviction callback calls
\* its Close: a no-op for an S3ObjectReader, the file's Close for a
\* LocalFile, which fails every later ReadAt of a reader that another
\* ReadExtent already took from Get.
CloseEvicted(r, q) ==
    [x \in Readers |->
        IF /\ LocalFiles /\ x # r /\ Len(q) = LruCap
           /\ rd[x].pc = "readAt" /\ rd[x].seg = Head(q).seg
        THEN [rd[x] EXCEPT !.via = "closed"]
        ELSE rd[x]]

\* Cache miss: d.openSegments.Get finds a reader, or S3Access.OpenSegment
\* (HeadObject must find the object, with this call's ctx) makes one that
\* keeps this call's ctx, and d.openSegments.Add caches it.
ReadOpen(r) ==
    /\ rd[r].pc = "fetch"
    /\ <<rd[r].seg, rd[r].lba>> \notin extCache
    /\ \/ /\ rd[r].seg \in LruKeys(lru)
          /\ lru' = LruTouch(lru, rd[r].seg)
          /\ rd' = [rd EXCEPT ![r].pc = "readAt",
                              ![r].via = LruGet(lru, rd[r].seg).ctx]
       \/ /\ rd[r].seg \notin LruKeys(lru)
          /\ rd[r].seg \in store
          /\ lru' = LruAdd(lru, [seg |-> rd[r].seg, ctx |-> HandleCtx(r)])
          /\ rd' = [CloseEvicted(r, lru) EXCEPT ![r].pc = "readAt",
                                                ![r].via = HandleCtx(r)]
    /\ RdUnchanged /\ UNCHANGED extCache

\* OpenSegment fails (HeadObject finds no object): ReadExtent returns err.
ReadOpenFail(r) ==
    /\ rd[r].pc = "fetch"
    /\ <<rd[r].seg, rd[r].lba>> \notin extCache
    /\ rd[r].seg \notin LruKeys(lru)
    /\ rd[r].seg \notin store
    /\ rd' = [rd EXCEPT ![r] = Finish(r, Err)]
    /\ RdUnchanged /\ UNCHANGED <<lru, extCache>>

\* S3ObjectReader.ReadAt: GetObject with the reader's ctx succeeds; the
\* extent is written to the read cache.  An open LocalFile still reads a
\* segment file removed since.
ReadAtOk(r) ==
    /\ rd[r].pc = "readAt"
    /\ rd[r].seg \in store \/ LocalFiles
    /\ rd[r].via \notin {"dead", "closed"}
    /\ extCache' = extCache \cup {<<rd[r].seg, rd[r].lba>>}
    /\ rd' = [rd EXCEPT ![r] = Finish(r, oc[rd[r].seg][rd[r].lba])]
    /\ RdUnchanged /\ UNCHANGED lru

\* ReadAt fails (the object was deleted, the reader's ctx is cancelled, its
\* file was closed, or a transient store error): readPartialExtent returns nil and the buffer
\* keeps its zeros.
ReadAtErr(r) ==
    /\ rd[r].pc = "readAt"
    /\ \/ StoreErrors
       \/ rd[r].seg \notin store /\ ~LocalFiles
       \/ rd[r].via \in {"dead", "closed"}
    /\ rd' = [rd EXCEPT ![r] = Finish(r, Zero)]
    /\ RdUnchanged /\ UNCHANGED <<lru, extCache>>

\* ReadExtent returns to its caller, who may then cancel the call's ctx:
\* the readers opened by this call keep it.
ReadReturn(r) ==
    /\ rd[r].pc = "done"
    /\ \E c \in IF CtxCancel THEN {"dead", "bg"} ELSE {"bg"} :
         /\ lru' = [i \in 1..Len(lru) |->
                      IF lru[i].ctx = r THEN [lru[i] EXCEPT !.ctx = c] ELSE lru[i]]
         /\ rd' = [q \in Readers |->
                     IF q = r
                     THEN [rd[r] EXCEPT !.pc = "idle", !.seg = NoSeg, !.seen = {},
                                        !.res = NoVal, !.via = "bg"]
                     ELSE IF rd[q].via = r THEN [rd[q] EXCEPT !.via = c]
                     ELSE rd[q]]
    /\ RdUnchanged /\ UNCHANGED extCache

\* The ExtentCache is bounded: it may drop an extent at any time.
EvictExtent ==
    /\ \E e \in extCache : extCache' = extCache \ {e}
    /\ RdUnchanged /\ UNCHANGED <<rd, lru>>

-----------------------------------------------------------------------------
\* The contiguous extents of the volume.
Extents == {e \in SUBSET LBAs : e # {} /\ \A a, b \in e : a..b \subseteq e}

WriterStep ==
    \/ \E e \in Extents, d \in Data : WriteExtent([l \in e |-> d])
    \/ \E l1, l2 \in LBAs, d1, d2 \in Data : WriteExtents(l1, d1, l2, d2)
    \/ \E e \in Extents : ZeroBlocks(e)
    \/ CloseSegment
    \/ SetPrev
    \/ CloseDone

FlusherStep(s) ==
    \/ FlushUpload(s) \/ FlushAppendRead(s) \/ FlushAppendWrite(s)
    \/ FlushRetry(s) \/ Install(s) \/ ClearPrev(s) \/ FindDeleted(s)
    \/ RemoveRead(s) \/ RemoveWrite(s) \/ RemoveSegment(s) \/ CleanupFail(s)

ReaderStep(r) ==
    \/ \E l \in LBAs : ReadStart(r, l)
    \/ ReadPrev(r) \/ ReadResolve(r) \/ ReadCacheHit(r) \/ ReadOpen(r)
    \/ ReadOpenFail(r) \/ ReadAtOk(r) \/ ReadAtErr(r) \/ ReadReturn(r)

\* A caller cancels the ctx flush goroutine s keeps, and what the goroutine
\* then does that it could not do with a live ctx.
CtxStep(s) == CancelCtx(s) \/ FlushUploadLost(s)

\* The steps of the disk when no caller cancels a ctx: with CtxCancel FALSE,
\* CtxStep is never enabled, so this has the behaviours of Next.
NextLiveCtx ==
    \/ WriterStep
    \/ \E s \in SegIds : FlusherStep(s)
    \/ \E r \in Readers : ReaderStep(r)
    \/ EvictExtent

Next ==
    \/ NextLiveCtx
    \/ \E s \in SegIds : CtxStep(s)

(***************************************************************************)
(* Fairness.  The flush goroutine is never descheduled forever (weak       *)
(* fairness); its retry loop never gives up, and the object store is       *)
(* assumed to accept a request eventually, so the successful outcome of    *)
(* each retried call is strongly fair.  The writer's SetWhenClear and      *)
(* CloseSegment's wait on the done channel are woken when their condition  *)
(* holds.                                                                  *)
(***************************************************************************)
Fairness ==
    /\ \A s \in SegIds :
         /\ WF_vars(FlusherStep(s) \/ FlushUploadLost(s))
         /\ SF_vars(FlushAppendRead(s)) /\ SF_vars(FlushAppendWrite(s))
    /\ WF_vars(SetPrev) /\ WF_vars(CloseDone)

Spec == Init /\ [][Next]_vars
FairSpec == Spec /\ Fairness
\* FairSpec when no caller cancels a ctx (for CtxCancel = FALSE).
LiveCtxSpec == Init /\ [][NextLiveCtx]_vars /\ Fairness

-----------------------------------------------------------------------------
(***************************************************************************)
(* Properties.                                                             *)
(***************************************************************************)

\* The block l resolves to through the layers the code keeps: curOC, the
\* creator the writer is sealing, the previous cache, then the extent map.
StoredBlock(l) ==
    CASE oc[curSeq][l] # NoVal -> oc[curSeq][l]
      [] writer.pc = "setprev" /\ oc[writer.seal][l] # NoVal -> oc[writer.seal][l]
      [] prevCache # NoSeg /\ oc[prevCache][l] # NoVal -> oc[prevCache][l]
      [] lba2pba[l] # NoSeg -> oc[lba2pba[l]][l]
      [] OTHER -> Zero

\* No write is lost by the seal/flush/install pipeline: whatever the state
\* of the writer and of the flush goroutines (closeSegmentAsync), the newest
\* layer holding l, in the order ReadExtent consults them, holds the last
\* block written to l.
NoWriteLost == \A l \in LBAs : StoredBlock(l) = logical[l]

\* cleanupDeletedSegments deletes only segments the extent map no longer
\* references: every segment lba2pba resolves to is in the object store.
MapRefsStored == \A l \in LBAs : lba2pba[l] # NoSeg => lba2pba[l] \in store

\* Every flush goroutine started by closeSegmentAsync runs to its end (the
\* retry loop and cleanup terminate), closing its done channel.
FlushCompletes == \A s \in SegIds : fl[s].pc = "upload" ~> fl[s].pc = "done"

\* The writer never blocks forever: a write that seals waits in
\* SetWhenClear only until the previous flush clears the slot, and
\* CloseSegment returns once its flush is done.
WriterProgress == writer.pc # "idle" ~> writer.pc = "idle"

\* A read returns a block that l held at some time during the read: it sees
\* every write that completed before it started.
ReadYourWrites ==
    \A r \in Readers :
        rd[r].pc = "done" /\ rd[r].res # Err => rd[r].res \in rd[r].seen

\* A read that went to the object store returns the bytes of the extent it
\* resolved, or an error; it never returns a zero buffer in their place.
ReadReturnsResolvedData ==
    \A r \in Readers :
        rd[r].pc = "done" /\ rd[r].seg # NoSeg /\ rd[r].res # Err
            => rd[r].res = oc[rd[r].seg][rd[r].lba]

\* Every segment the extent map resolves to is in the object index, so a
\* rebuild from the index after a restart finds its blocks.
IndexCoversMap ==
    \A l \in LBAs : lba2pba[l] # NoSeg =>
        \E i \in 1..Len(objIndex) : objIndex[i] = lba2pba[l]


\* Every segment whose blocks are all superseded is eventually purged from
\* the object store: cleanupDeletedSegments removes each segment
\* FindDeleted hands it, even when a call for an earlier one fails.
DeadSegmentsPurged ==
    \A t \in SegIds : (t \in registered /\ live[t] = 0) ~> t \notin store


\* The segment sequence LsvdDisk keeps, seen through LsvdSegments: the
\* creators are the segments, curOC is the open one, Segments.Create
\* marks installation and lba2pba is the extent map.
Segments == INSTANCE LsvdSegments
                WITH content <- oc, open <- curSeq, installed <- registered,
                     map <- lba2pba

\* LsvdDisk implements LsvdSegments under the goroutines' fairness: writes
\* reach only curOC and a sealed creator never changes; the flush
\* goroutines, although they overlap, install segments into lba2pba one at
\* a time in ULID order, because prevCache.SetWhenClear holds back the next
\* goroutine until the previous one has installed and cleared; and every
\* sealed creator is eventually installed.
SegmentsInstalled == Segments!FairSpec

=============================================================================
