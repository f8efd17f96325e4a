# TLA+ models of lsvd

These are model-checked TLA+ specifications of the log-structured virtual disk in
`src/`. The source files are:

* `src/disk.go`, which is three Go files run together:
  * the `Disk`: open, read path, write path, `Close`;
  * the segment seal and flush goroutine: `CloseSegment`, `closeSegmentAsync`, `cleanupDeletedSegments`;
  * the S3 driver, `S3Access`.
* `src/object.go`: the older `ObjectCreator` segment writer and the `LocalFile` reader.
* `src/extent_test.go`: tests of the extent algebra.

The extent algebra, `ExtentMap`, `SegmentCreator`, `Segments`, `PreviousCache`,
`ExtentCache` and `LocalFileAccess` are not under `src/`. Where the model needs
them, it follows `spec.md` and marks those definitions `spec_modelled` in
`PROJECT.json`.

## Inventory

| Component | State | Operations | Interacts with |
|---|---|---|---|
| Writer (`Disk.WriteExtent`, `WriteExtents`, `ZeroBlocks`, `CloseSegment`) | `d.curOC`, `d.curSeq` | Append blocks to the current creator. Seal it when `BodySize() >= FlushThreshHold`, or on `CloseSegment`. | Creator (a call); previous cache and flush goroutine (`SetWhenClear`, `go func`) |
| Segment creator (`SegmentCreator`, spec) | Records per extent; body size; journal | `WriteExtent`, `ZeroBlocks`, `FillExtent`, `Flush` | Object store (upload, `AppendToObjects`) |
| Previous cache (`PreviousCache`, spec) | One nullable slot | `SetWhenClear` (blocks while set), `Clear`, `Load` | Writer sets it, flush goroutine clears it, readers load it |
| Flush goroutine (`closeSegmentAsync`) | Its own progress | Flush with retry forever, `Segments.Create`, `UpdateBatch`, `Clear`, then `cleanupDeletedSegments` | Object store, extent map, registry, previous cache |
| Extent map (`ExtentMap`, spec) | LBA range to partial extent in a segment | `UpdateBatch` (clips entries and debits `liveBlocks`), `Resolve` | Registry (live blocks); readers |
| Segment registry (`Segments`, spec) | `liveBlocks` per segment | `Create`, live-block updates, `FindDeleted` | Cleanup |
| Object store (`S3Access`) | Segment objects; volume object index `volumes/<vol>/objects`; metadata | `WriteSegment`, `ListSegments`, `AppendToObjects`, `RemoveSegmentFromVolume`, `RemoveSegment`, `OpenSegment`, `ReadAt` | Flush goroutines; readers |
| Read path (`ReadExtent`, `readPartialExtent`) | Its own buffer | `curOC.FillExtent`, then the previous cache's `FillExtent`, then `Resolve`, then the extent cache or LRU/`OpenSegment` followed by `ReadAt`, then decompress and copy | All of the above, concurrently with the writer and the goroutines |
| Open-segment LRU | Up to 256 open readers | `Get`, `Add` (evicting calls `Close`), `Purge` | Readers |
| Extent cache (spec) | Local raw extents keyed by segment, offset and size | `ReadExtent`, `WriteExtent` | Readers |
| Open and recovery (`NewDisk`) | — | `restoreWriteCache`, `loadLBAMap`, `rebuildFromSegments` | Object store, journals |
| `Close` | — | `CloseSegment`, `saveLBAMap`, purge the LRU | Object store |
| `ObjectCreator` (`object.go`) | Blocks, header, body, offset | `WriteExtent` (per block: empty, compressed or raw), `Flush` (header, map entries, file) | A `treemap` LBA map, local file |

**What is hard.**
* One writer, many concurrent readers and any number of overlapping flush goroutines share
  `curOC`, `prevCache`, the extent map, the registry and the object index.
  * A goroutine overlaps the next one from its `Clear` until it finishes cleanup.
* The flush retries forever.
* Cleanup deletes segments while readers may still hold resolved extents that point into them.
* The object index is rewritten whole by two unsynchronised read-modify-write operations.
* Errors on the read path can be swallowed.
* Crash recovery depends on journals, the index and a map saved only at `Close`.

**What makes each component correct.**
* Writer, creator, previous cache and flush pipeline:
  * no completed write is ever missing from the layers a read consults (read-your-writes);
  * installs happen in segment order;
  * the writer never blocks forever.
* Extent map and registry:
  * a segment is deleted only when nothing resolves to it;
  * live blocks count exactly the blocks that resolve to the segment.
* Object store index:
  * it lists exactly the live segments, each one stored, so a rebuild recovers the map.
* Read path:
  * a read returns data the block held during the read, or an error, and never a zero buffer in place of data.
* Flush goroutine:
  * it terminates, so `CloseSegment` returns.

## Modules

### `LsvdDisk.tla` (core, built first)

Writer, seal, flush goroutines, cleanup, readers, S3 index and LRU, in one module,
because they share state.

**Data abstraction.** There is one block per LBA.
* `oc[i]` is both the creator and the segment with ULID `i`: a function from LBA to a
  block value, or `NoVal`.
* `lba2pba` maps each LBA to a segment.
* `UpdateBatch` clipping becomes overwriting the map entry of each LBA in the batch, and
  debiting the old segment's `live` count.
* `BodySize` counts non-empty blocks.
* An empty block (`Zero`) adds no body and resolves to `Size == 0`.

**State and actions, against the code.**
* `WriteExtent`, `WriteExtents` and `ZeroBlocks` are the Disk entry points.
  * A write that reaches `Threshold` runs `SealCurrent`. That is the part of
    `closeSegmentAsync` before `SetWhenClear`: `segId := curSeq`, then a new creator.
* `SetPrev` is `SetWhenClear` plus the `go func`. `CloseDone` is `CloseSegment` waiting on `done`.
* Flush goroutine `s`:
  * `FlushUpload` (`WriteSegment`);
  * `FlushAppendRead` and `FlushAppendWrite` (`AppendToObjects` = `ListSegments` + upload);
  * `FlushRetry` (the `for` loop);
  * `Install` (`Create` + `UpdateBatch`);
  * `ClearPrev`;
  * `FindDeleted`;
  * per dead segment: `RemoveRead` and `RemoveWrite` (`RemoveSegmentFromVolume`, with the
    `DeleteFunc` result dropped), then `RemoveSegment`;
  * `CleanupFail` (early return on error).
* Reader `r`:
  * `ReadStart` (`curOC.FillExtent`), `ReadPrev` (`prevCache.Load` and `FillExtent`),
    `ReadResolve` (`Resolve`; an empty or unmapped block is left as zeros);
  * `ReadCacheHit`, `ReadOpen` (LRU `Get`, or `OpenSegment` + `Add`), `ReadOpenFail`;
  * `ReadAtOk`, `ReadAtErr` (error swallowed, zeros returned), `ReadReturn`.
* `EvictExtent` is the bounded extent cache.
* `logical`, and each reader's `seen`, are ghost state: the abstract disk, and the values a
  read may legitimately return.

**Contexts.**
* Three constants select the environment.
  * `CtxCancel`: a caller may cancel the ctx it passed once its call returns.
  * `StoreErrors`: a store call may fail transiently.
  * `LocalFiles`: segments are read through `LocalFileAccess`, the backend `NewDisk`
    uses when none is given, instead of `S3Access`.
* Flush goroutine `s` keeps the ctx of the call that sealed it, `fl[s].ctx`.
  * `CancelCtx(s)` cancels it. A `CloseSegment` waiting on that flush returns `ctx.Err()`.
  * Once the ctx is cancelled, every store call of the goroutine fails.
  * `FlushUploadLost` is `bgWriter.Close` returning nil before the upload goroutine has
    stored its error.
* Each LRU entry is an `S3ObjectReader` with the ctx of the `ReadExtent` call that opened
  it.
  * That ctx is a reader's call still running, `"dead"` (cancelled on return) or `"bg"`
    (never cancelled).
  * `ReadReturn` decides which. A `ReadAt` through a `"dead"` reader fails.
* With `LocalFiles`, each LRU entry is a `LocalFile` (`HandleCtx`: it keeps no ctx).
  * An open file still reads a segment removed since.
  * `CloseEvicted`: when an `Add` at capacity evicts a segment, the eviction callback
    closes its file. Every other reader that took that `LocalFile` from `Get` and has not
    yet called `ReadAt` now holds a `"closed"` reader, and its `ReadAt` fails.
  * `LocalFileAccess` is not under `src/`. The model assumes its `OpenSegment` returns
    `OpenLocalFile` of the segment file and its `Close` closes it (`object.go`).

**Properties.**
* `NoWriteLost` (invariant). The newest layer holding each LBA, in the order reads consult
  them, holds the last write. The layers are `curOC`, the creator being sealed,
  `prevCache`, then the map.
* `MapRefsStored`. No segment the map resolves to has been deleted.
* `FlushCompletes` and `WriterProgress` (liveness).
* `SegmentsInstalled`: `LsvdDisk` implements the fair `LsvdSegments` specification (below)
  under the refinement mapping
  `content <- oc, open <- curSeq, installed <- registered, map <- lba2pba`.
* `ReadYourWrites`, `ReadReturnsResolvedData`, `IndexCoversMap` and `DeadSegmentsPurged`
  state what the spec says of reads, of the index and of dead segments. `FlushCompletes`
  is also checked with cancellable contexts. TLC finds all five violated, and
  `ReadReturnsResolvedData` twice: once per backend. See Findings.

`MCLsvdDisk.tla` gives the constants their values:
* LBA sets `{0}` and `{0, 1}`;
* model values for block contents and readers;
* symmetry over block contents.

### `LsvdRecovery.tla` (Close, crash and NewDisk)

`LsvdRecovery` extends `LsvdDisk` with the process around the Disk.

**Persistent and volatile state.**
* What survives a process: the object store and index (`store`, `objIndex`), the segment
  contents `oc` (a creator's journal, or its segment object), the extent cache, the
  `writecache.<ULID>` journals (`journals`), and the LBA map blob (`mapBlob`).
* Everything else of `LsvdDisk` is volatile and rebuilt by `Restart`.
* `phase` is `"up"`, `"broken"` (`curOC` is nil), `"down"` or `"failed"` (`NewDisk`
  returned an error; it may be retried).
* `clean` is ghost state: every process so far ended with a successful `Close`.

**Actions, against the code.**
* `DiskStep` is any step of `LsvdDisk` while the process is up. While a `Close` is in
  progress, the writer only makes the calls of `CloseSegment`. In the `"broken"` phase,
  only the flush goroutines still run.
  * `JournalsAfter` gives each step's effect on the journals. `newSegmentCreator` opens the
    new creator's journal. `oc.Flush` deletes a creator's journal once `AppendToObjects`
    has succeeded (spec 4.3 step 5).
* `SealFail`: `newSegmentCreator` fails in `closeSegmentAsync` (`disk.go:649`). `curOC` is
  left nil, and the sealed creator is neither in `prevCache` nor flushed.
* `DiskClose` then `CloseReturns` are `Disk.Close`. If `CloseSegment` returned an error
  (its ctx was cancelled), `Close` returns at once without saving. Otherwise `saveLBAMap`
  is one `PutObject` (`mdWriter` buffers and uploads at `Close`), so the store keeps the
  old blob or the new one.
* `Crash`: the process dies at any step (`Crashes`).
* `Restart` is `NewDisk`.
  * `restoreWriteCache` keeps the newest journal as `curOC`. Each older journal is
    uploaded, appended to the index and installed.
  * The base map comes from `loadLBAMap` when a blob is present (`RegistryOf` counts
    live blocks from it). Otherwise `rebuildFromSegments` folds `UpdateBatch` over the
    index, and fails on an id with no object (`RebuildOpens`).

  These three functions are not under `src/`. The model reads spec 4.3 and 4.8 in the way
  most favourable to the code.

**Properties.**
* `Durable`: the newest record of every LBA is in a journal or a stored segment, so a
  crash at any step keeps every completed write.
* `CleanRestartRecovers`: a volume whose every process ended with a successful `Close`
  reopens with all its writes (`NoWriteLost`), and with a map whose segments all exist
  (`MapRefsStored`).
* `RestartRecovers`: the same after any crash, and `NewDisk` never fails. TLC finds it
  violated; see Findings.

`MCLsvdRecovery.tla`: one LBA, two values under symmetry, no reader.

`NoWriteLost` and `MapRefsStored` are checked in the restart run, as part of
`CleanRestartRecovers`. They hold in the first process, which is clean until it crashes
or fails, and in every later process while all earlier ones closed cleanly.

### `LsvdSegments.tla` (abstract)

What spec sections 4 and 5 promise about segments, with no goroutines, caches or store:
* `Write` changes only the open segment, and may seal it in the same step.
* `Seal` opens the next segment.
* `Install(s)` takes the oldest sealed segment not yet installed, and points each LBA it
  holds at it.
* `FairSpec` adds weak fairness of `Install`.

The refinement is what makes `SetWhenClear` matter. Without its wait (mutant
`SetPrevNoWait`), two goroutines install out of order and TLC reports the abstract action
violated.

### `ObjectCreator.tla` (object.go)

The legacy writer and the `LocalFile` reader.

**Bytes are cells.** A body cell carries the block's content `v`, its position `i`, and
the stored length `n`. A read decodes a block only when it starts at a block's first cell
and spans exactly its stored bytes; anything else is `Garbage`, or `Err` for a
decompression.
* lz4 is the constant function `Lz4Size` from content to `CompressBlock`'s result.
* Fixed-width fields are reduced modulo `2^OffsetBits`, standing for `uint32`.

**Actions and operators.**
* `WriteExtent(first, vals)` runs the loop body `PutBlock` over the extent:
  * an empty block gets flags 2 and no body;
  * a compressible block (`0 < sz < BlockSize`) gets flags 1;
  * anything else gets flags 0 and `BlockSize` raw bytes.

  The loop's error returns cannot happen: the scratch buffer is `2*BlockSize` and
  `bytes.Buffer.Write` does not fail.
* `Flush` works in this order:
  * header length: each record is a varint LBA, one flags byte, a varint size and a
    varint offset, with `UvarintLen` the length of a varint;
  * `dataBegin = uint32(header + 8)`;
  * `m.Set` of every record, the last one per LBA winning;
  * then one outcome of `os.Create` and the writes: nothing, a prefix, or the whole file,
    the first two only when `Faults`;
  * finally the deferred `Reset`.
* `ReadAt`, `ReadAtCompressed` and `ReadPBA` are `LocalFile`'s reads of an `objPBA`.

**Property.**
* `ReadBack`: every LBA not still buffered reads back, through the map and the file, as
  the content last written to it.

`MCObjectCreator.tla`:
* `LBAs = {127, 128}`: the varint of the LBA takes one byte and two bytes;
* `v1` compresses to half a block and `v2` does not compress;
* `BlockSize = 4`.

### Planned modules, in order

1. **`Extents.tla`**.
   * `Cover`, `Clamp`, `Sub` and `SubMany` as operators over LBA intervals (`SubMany` is
     RECURSIVE), checked against set-difference and intersection references over bounded
     intervals, and against the cases in `extent_test.go` (spec_modelled).
   * `ExtentMap.tla` follows: `Update` with clipping at extent granularity, refining the
     block-level map used in `LsvdDisk`.

## Runs

| Run | Config | Expect | Shows |
|---|---|---|---|
| `disk_restart` | `LsvdRecovery_restart.cfg` | pass | `TypeOK`, `RecoveryTypeOK`, `Durable` and `CleanRestartRecovers`. No reader, 1 LBA, 2 values, `MaxSeg=3` (2 sealed segments, overlapping goroutines), `Threshold=2`, cancellable contexts, transient store errors, crashes, failed seals and failed saves. About 57k states. |
| `disk_liveness` | `LsvdDisk_live.cfg` | pass | `FlushCompletes`, `WriterProgress` and `SegmentsInstalled` (the refinement) under `LiveCtxSpec`: `FairSpec` without the steps of a cancelled ctx (`CtxStep`), which `CtxCancel = FALSE` disables anyway. 1 reader, 1 value, no symmetry, contexts never cancelled. About 60k states. |
| `object_layout` | `ObjectCreator_layout.cfg` | pass | `TypeOK` and `ReadBack`. Two segments of up to two blocks, extents of up to two blocks, all three block kinds, `OffsetBits=8`, no I/O faults. About 56k states. |
| `read_your_writes` | `LsvdDisk_ReadYourWrites.cfg` | violation | A read after a completed write returns zeros in the seal window. |
| `read_stale_ctx` | `LsvdDisk_StaleReaderCtx.cfg` | violation | With no store errors, a cached reader whose ctx was cancelled makes later reads return zeros. |
| `reader_evicted_file` | `LsvdDisk_EvictedReader.cfg` | violation | With `LocalFileAccess`, two readers and `LruCap=1`, one read's `Add` closes the file the other took from `Get`, and that read returns zeros. |
| `crash_recovery` | `LsvdRecovery_RestartRecovers.cfg` | violation | Closing one empty segment leaves a zero ULID in the index. After a crash, the rebuild opens it and `NewDisk` fails. |
| `index_lost_append` | `LsvdDisk_IndexCoversMap.cfg` | violation | A cleanup's index upload erases the next segment's append (`MaxSeg=4`). |
| `dead_segment_leak` | `LsvdDisk_DeadSegmentsPurged.cfg` | violation | One failed cleanup call leaves a dead segment in the store forever. |
| `flush_cancelled_ctx` | `LsvdDisk_FlushCompletes.cfg` | violation | A cancelled caller ctx makes the flush goroutine retry forever. |
| `object_create_fails` | `ObjectCreator_faults.cfg` | violation | A failed `os.Create` in `Flush` loses the buffered blocks, and the map points at a missing file. |
| `object_offset_wrap` | `ObjectCreator_wrap.cfg` | violation | With `uint32` scaled to 4 bits, `dataBegin` wraps and a block reads back as other bytes. |

**Bounds.**
* `MaxSeg` bounds segment ULIDs. A write that would need a seal beyond it is disabled;
  `ZeroBlocks` stays enabled, so there is no artificial deadlock.
* `Threshold=2` lets one completed write stay in `curOC` before a later write seals it.
  That is the shape of the seal-window race.
* One LBA suffices for every `LsvdDisk` property: they quantify per LBA, and blocks of
  different LBAs never interact in this data model. The two-LBA set is kept for
  `WriteExtents`; with readers it is beyond five minutes.
* `MaxSeg=3` in `disk_restart` lets a session seal, crash, restart on a later journal and
  seal again. With `MaxSeg=4` it is beyond five minutes.
* `disk_restart` has no reader. Readers change only `rd`, `lru` and `extCache`, which none
  of its properties reads, and one reader multiplies the state space by about 80.
  The reader actions are exercised by `disk_liveness` and the violation runs.
* `LsvdDisk_EvictedReader.cfg` turns store errors and cancellation off, so the zeros come
  only from the evicted file. It needs two readers and two segments that resolve the same
  LBA in turn (`MaxSeg=3`).
* `LsvdDisk_StaleReaderCtx.cfg` turns store errors off. The zeros it finds then come only
  from the cached reader's ctx.
* `ObjectCreator` runs to a fixed point: `MaxSegs=2`, `MaxBlocks` and `MaxExtent=2` end
  every behaviour, so they do not check deadlock.
  * `BlockSize=4` is enough for a half-size compressed block, a raw block and an empty
    one.
  * LBAs 127 and 128 give one-byte and two-byte varints, so header lengths differ between
    records.
  * `OffsetBits=8` holds every offset the layout run reaches. With `OffsetBits=4`, a
    three-block creator's `dataBegin` is at least 8 + 3*4 = 20, so it wraps.

**Fairness.**
* Each flush goroutine is weakly fair: the Go scheduler runs it.
* The successful outcome of the retried store steps is strongly fair. This is the
  assumption that the object store eventually accepts a request; the code retries
  forever.
  * The liveness run keeps contexts uncancelled. With a cancelled context no attempt can
    succeed: run `flush_cancelled_ctx`.
* `SetWhenClear` and the wait on `done` are weakly fair.
* Readers and the writer's own calls are not fair: callers may stop.
* `SegmentsInstalled` checks the abstract `Install` fairness against these same
  assumptions.

## Findings

1. **Seal window** (`disk.go:649`).
   * A new `curOC` is installed before the sealed creator reaches `prevCache` (line 656),
     and `SetWhenClear` may block for a whole earlier flush.
   * A read in that window misses a completed write.
   * Run `read_your_writes`.
2. **Swallowed `ReadAt` error** (`disk.go:411`). A failed read (transient, deleted
   segment or cancelled ctx) returns zeros as data. Run `read_stale_ctx`.
3. **Reader keeps a request's ctx** (`disk.go:856`).
   * `OpenSegment` stores the ctx of the `ReadExtent` call in the cached
     `S3ObjectReader`.
   * After that call's ctx is cancelled, every later read of the segment through the LRU
     fails. With finding 2, the read returns zeros without any store fault.
   * Run `read_stale_ctx`.
4. **`DeleteFunc` result dropped** (`disk.go:1009`).
   * The index keeps its length, with a zero ULID or the removed id.
   * After a crash with no saved map, `rebuildFromSegments` opens that id and `NewDisk`
     fails, so the volume cannot be reopened.
   * Run `crash_recovery`.
5. **Index lost update** (`disk.go:1004` against `1028`). Goroutine `k`'s cleanup and
   goroutine `k+1`'s append rewrite the index concurrently. Run `index_lost_append`.
6. **Cleanup leak** (`disk.go:732`).
   * `cleanupDeletedSegments` stops at the first error.
   * The segments `FindDeleted` handed out are never offered again, so they stay in the
     store.
   * Run `dead_segment_leak`.
7. **Flush bound to the caller's ctx** (`disk.go:674`).
   * The goroutine uses the ctx of the write that sealed its creator, and never checks
     it.
   * Spec section 5 says in-flight flushes ignore cancellation and complete. Here they
     retry forever once that ctx is cancelled, and the next seal blocks the writer.
   * Run `flush_cancelled_ctx`.
8. **Map set before the file exists** (`object.go:128`). `ObjectCreator.Flush` updates the
   map, then `os.Create` fails, and the deferred `Reset` discards the blocks. Run
   `object_create_fails`.
9. **`uint32` offsets** (`object.go:126,132`).
   * `dataBegin` and `dataBegin + offset` are truncated, with no bound on the creator's
     size.
   * Past 4 GiB, the map points at the wrong bytes.
   * Run `object_offset_wrap`.
10. **Evicted `LocalFile` closed under a reader** (`disk.go:112`).
    * The eviction callback closes the evicted reader (line 114).
    * `readPartialExtent` takes a reader from `Get` (line 397) and reads it later
      (line 410), holding no reference against eviction.
    * With `LocalFileAccess`, a concurrent read's `Add` (line 406) closes the file in
      between. The `ReadAt` fails, and with finding 2 the read returns zeros.
    * Run `reader_evicted_file`.

## Not modelled (yet)

* `SyncWriteCache`. The crash is a process crash, and the journal's page cache survives
  it.
* A crash inside `NewDisk`: `Restart` is one step.
* A crash between `AppendToObjects` and the deletion of the journal: they are one step.
* A stale LBA map blob. `RestartRecovers` is first violated by the zero index id. With
  that path removed, TLC also finds a lost write:
  * `Close` saves the map;
  * the next process writes, then crashes;
  * the restart flushes that journal;
  * a second crash, after which the old blob is loaded again.

  Spec 4.8 does not say when a blob is consistent, so no run checks this.
* `LocalFileAccess` as a store for the flush goroutines: only its reads are modelled. Its
  writes and index are taken to behave like `S3Access`'s.
* Concurrent misses on the same segment: `Get`, `OpenSegment` and `Add` are one step, so
  the second `Add` replacing a value (which golang-lru does without calling the eviction
  callback, leaking a file) is not modelled.
* `ListVolumes`, and volume info.
* Metrics and logging, which have no effect on state.
* In `LsvdDisk`: byte-level data, compression, varint headers and copying. The
  block-per-LBA abstraction keeps which segment serves which block, and that is what
  every property there is about. `ObjectCreator.tla` keeps the byte layout of the legacy
  format.
