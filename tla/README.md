# Verification of the SPDK key-value engine

The engine (`src/src/engine.cpp` and the headers under `src/include/spdk_kv/`)
is a Bitcask-like key-value store on SPDK blobs. Records are appended to data
files (one blob each), an index in memory says where the newest record of each
key is, and a superblock, an AllocLog and the files themselves are what a
restart has to work with. One polling thread runs everything: a handler runs to
its end before the next one starts, and what interleaves is the order in which
the device completes operations, which callbacks run inside which polling loop,
and where a crash comes.

This directory holds TLA+ modules of the parts where that order matters, TLC
configurations that check them on small instances, and proofs that TLAPS checks
for every value of the constants. `PROJECT.json` lists the runs, the theorems,
the mutants that show that each property can fail, the source lines behind every
definition, and the hazards the properties are aimed at.

## 1. Inventory

| component | state | operations | what makes it correct |
|---|---|---|---|
| Asynchronous path (`engine.cpp` 709-868, 1181-1519, 3005-3044) | `files_`, `active_file_id_`, `allocating_new_file_`, `pending_write_queue_`, writes in flight, `mem_index_` | `put_async`, `delete_async`, `get_async`, their completions, `allocate_new_file_async`, `process_pending_write_queue` | no place is given out twice; the index and the reads in flight find the record of their key; the newest write wins in whatever order completions come; each request is answered once |
| Append buffers (`append_buffer.h`, `engine.cpp` 2356-2661) | active buffer, submit and complete rings, backpressure flag, wait queue, resume callbacks | `reserve_with_backpressure`, `flush`, `return_buffer`, `put_buffered`, steps 3-6 of `poll`, `submit_buffer_io`, `close` | no buffer is lost or used twice; no put waits while a buffer is free; relief reaches who waits |
| Synchronous calls (`engine.cpp` 923-1179) | as the asynchronous path | `put`, `get`, `del`: each polls until its IO is done | what was answered with success can be read |
| File allocation and AllocLog (`engine.cpp` 654-732, 3074-3102, `alloc_log.cpp`) | `files_`, `next_file_id_`, the log page, its tail and sequence | blob, log entry, open, header; roll back on failure | ids stay distinct; a crash between two steps leaves no wrong file |
| Superblock (`engine.cpp` 372-516, 2091-2197) | two copies on the device, one in memory | `write_superblock`, `load_superblock`, `update_superblock_file_mapping` | one of the copies is always valid |
| Recovery (`engine.cpp` 278-370, 518-643, 2701-2934, `recovery.cpp`) | files, index, sequence counter, rebuilt from the device | AllocLog entries, opening of files, release of dangling blobs, scan of files | what was acknowledged is found; no blob that is needed is deleted; new sequences are above old ones |
| Checkpoint (`checkpoint.cpp`) | dirty bitmap, state machine, the two index areas | `start_checkpoint`, segment writes, superblock update | a failure loses no dirty segment; the superblock names the finished area |
| Compaction (`compaction.cpp`) | task queue, migration list, retry and rate state | scan, read, copy, index update, delete of the file | a newer write of a migrated key wins; no entry points into a deleted file; a failed copy is undone |
| Memory index (`mem_index.h`) | the Robin Hood table | `find`, `upsert`, `remove` | it behaves as a map, also at the distance limit of 128 |
| RDMA slots (`engine.cpp` 2203-2355) | reserved slots of buffers | reserve, commit, cancel | no buffer is submitted with a slot that is being written |
| IO submitter, flush trigger, SPDK environment, pools, CRC, callback queue, C API | | | thin layers or pure functions |

How they interact. The asynchronous path, the buffers, the synchronous calls and
compaction share `files_`, the active file, the sequence counter and the index.
Buffered puts that find no room go through the wait queue to direct writes, the
same as those of the asynchronous path. `poll` runs completions, allocation,
buffers, the wait queue, the checkpoint and compaction in that order; the
synchronous calls and `allocate_new_file` poll the device themselves, so user
callbacks run inside them. `close` writes the superblock and is all that a
later `open` knows, apart from the AllocLog page and the files.

Hard behaviours: completions in any order; entries built at submission and
stored at completion; failed steps of an allocation while writes wait for it;
rings whose callers ignore a full ring; a flag that only the next put updates; a
crash between the record, the file, the log and the superblock; two allocation
paths that may be active at once; callbacks that call the engine again.

## 2. Modules

| module | models | used by |
|---|---|---|
| `KVStore` | abstract: a store with requests that take effect once, in any order of completion | `WritePath` |
| `WritePath` | the asynchronous write and read path; implements `KVStore` | `FileAllocation`, `WritePathProofs`, `KVStoreProofs` |
| `FileAllocation` | `allocate_new_file` next to `allocate_new_file_async`, extends `WritePath` | `SyncPath`, `Compaction` |
| `SyncPath` | `put`, `get` and `del` with what runs inside their polling loops, extends `FileAllocation` | `SyncPathProofs` |
| `Compaction` | tasks and scheduler of the compaction, extends `FileAllocation` | `CompactionProofs` |
| `BufferPool` | the append buffers, the buffered put, flushing, `close` | `BufferPoolProofs` |
| `Restart` | sessions of synchronous calls, `close`, crash and `open` | `MCRestart`, `RestartProofs` |
| `IndexMap` | abstract: a map that keeps the newest entry of each key | `MemIndex` |
| `MemIndex` | the Robin Hood table; implements `IndexMap` | `MCMemIndex`, `MemIndexProofs` |
| `Checkpoint` | the incremental checkpoint with the writes around it and the superblock | `CheckpointProofs` |

`MCRestart` adds the symmetry of the keys, `MCMemIndex` the hash function of an
instance; the other modules are checked as they are. All variables carry the name
of the member they stand for; the comment at each declaration gives it. Sizes
are counted in pages (4 KB in the code), and page 0 of a file is its header.

### WritePath

One action per handler: `PutAsync`, `DeleteAsync`, `GetAsync` are the calls,
`WriteComplete`, `WriteFailed`, `GetComplete` the completions, `BlobOpened`,
`NewFileAllocated`, `NewFileFailed` the callbacks of the allocation. The drain
of the queue after an allocation (`process_pending_write_queue`) is one handler
in the code, but a submission in it that fails at once runs the callback of its
write; it is modelled one write at a time by `SubmitQueuedWrite`, and
`BetweenHandlers` keeps every other action out until `draining` is empty, so it
is as atomic as it is in the code.

`disk` is the set of durable records, `inflight` the writes submitted. A write
that fails may leave any of its pages; that only matters to a restart, and is in
`Restart`. The device completes writes in any order. The AllocLog is a
nondeterministic answer of `is_near_full` (`NearFull`); when it is near full the
checkpoint that `put_async` starts ends inside the call without reclaiming
anything, because no index segment is ever dirty, and the requests that wait
fail with `kInternalError`.

`ImplementsStore` is the refinement of `KVStore`, which knows neither files nor
queues: a request is open until it is answered, a write takes effect when its
completion runs, with or without success, and a read answers with the value its
key had at some moment while it ran. The mapping takes the open requests from
the writes in flight, waiting and draining, and the value of a key from its index
entry. A put takes effect only if no newer one has; a delete removes its key
whatever it holds, as the code does, so the abstract store says so too.

### FileAllocation and SyncPath

Both ways to a new file push a `FileInfo` and hold a pointer to it; only the
asynchronous one remembers it by position (`files_.back()`), which is right as
long as nothing was pushed after it. `FileAllocation` has its callbacks again with
the `FileInfo` they hold (`alloc_file`) and the step with which a caller of
`allocate_new_file` pushes its own. `SyncPath` has `put`, `get` and `del`: the
variable `sync` is their locals (file, offset, sequence) and which of their loops
they are in (`stage`). While `sync` is not `NoCall` the thread is in that call;
`SpdkEnv::poll` inside it completes any IO and blob operation, so every completion
of `WritePath` and every step of an asynchronous allocation is enabled, but no new
call is, unless callbacks make some (`CallbackCalls`). The write offset is read
before the loop and advanced behind it, `written` and the return are two steps,
since a poll may complete several operations, and the index is updated at the
return.

`SerialAllocation` and `CallbackCalls` are conditions on the application that
nothing in the code enforces; the passing run has the favourable value of both,
`sync_path_race` shows what happens without the first. A FileInfo that a failed
allocation pops while another one owns it leaves a dangling pointer; both
`SyncNoFile` and `LastFileDropped` stop there.

### MemIndex

One iteration of the loop of `upsert` is a step; `find` and `remove` are one step
each, since the table has one thread. `psl` is what the code stores: a swap
stores the distance without the 1 and lets the displaced entry continue two ahead
of its stored value, so `psl` is not the distance, and `EveryLiveEntryIsFound`,
that `find` nevertheless stops nowhere too early, is not obvious. `hand` is
`entry_to_insert`; the key that the loop compares is the parameter `key`
throughout. `AllocateSequence` and `pending` give the upserts their sequence
numbers: with `MaxPending = 1` they arrive in order.

`IndexMap` is a map with `Upsert` (newer entries only), `Remove` and `Refuse`, the
upsert that returns false and may lose one entry. `ImplementsMap` takes the
newest of the copies of a key, in the table or in hand, for its entry. The other
modules use the index as such a map; that the table is one is what this module
adds, with the exception of `mem_index_reorder` below.

Left out: the tag (a function of the key), the vectorised and batched finds,
which have no callers, `rebuild_psl_array`, which recovery reaches only with an
index blob, and a failed allocation of the table.

### Checkpoint

The dirty bitmap, the walk over the dirty segments, the sync, and the superblock
with the log position, next to the writes that go on meanwhile. The data files
are one log, of a record only its segment counts; `index` is the set of records
the index holds. `image` is what the device has of each segment, `segment_buffer`
the segment being written. Two ghost variables, `unfinished` (the writes in flight
when the checkpoint started) and `lost` (segments whose dirty bit a failed write
forgot), serve the statement of the properties only.

The engine of this revision calls neither `mark_dirty` nor `set_spdk_resources`,
so its checkpoints are over inside the call and write nothing; the module checks
the class as its header describes its use ("called when index is modified").
`positions` is set by `Engine::start_checkpoint`, before the class can refuse.

### BufferPool

`manager` is `AppendBufferManager`, a record; each of its methods is an operator
that gives the new record, and the actions are the calls of `Engine`:
`PutIntoBuffer`, `PutToWaitQueue`, `PollBegin` (steps 1-3), `SubmitBufferIo` and
`SubmitBufferIoNoSpace` (one per buffer of the batch, since the file allocation
in it polls the device and completions run in between), `ProcessWaitQueue`,
`PollEnd`, the completions, and `CloseBegin`, `CloseFlushed`, `CloseEnd`.

Left out or abstracted: which file a buffer goes to (that is `WritePath`; a
direct write of the wait queue is `direct` here); statistics;
`pending_foreground_count_`; the queue of buffers to be reset, which nothing
uses because `can_reset` is always true; a failed memory allocation; the RDMA
slots. A put made inside a completion acts as one made just before it. The ring
of resume callbacks has 255 slots in the code and one here, since only the
presence of a callback matters. `append_buffer_count` is taken to be at most
`kMaxBufferCount`, which the code does not check.

### Restart

The device (`disk`, the two superblock copies, `log_page`) and the memory of the
engine, which a crash empties (`Forget`). put, del, close and open poll until
each IO is done, so an action is what the code does between two IOs, and `call`
and `state` say which IO is awaited. A put or del is `Begin`, then if the active
file is full `BlobAllocated`, `LogWritten`, `FileOpened`, then `Written`, each
with its failing twin. `close` is `CloseBegin`, `WriteBackup`, `WritePrimary`.
`open` is `OpenFromPrimary` or `OpenFromBackup`, `DeleteLogged`,
`RebuildFileInfo`, `ReleaseDangling`, `Recover`. get is the operator `Value`.

The recovery of the index is computed as the code does it: `ScanFile` reads a
file in chunks from its start to the recorded size, or to the end of the blob if
that is 0, and `ScanChunk` parses a chunk: a page without the magic is passed
over, a record that does not end in the chunk or whose checksum is wrong ends
the chunk, and a chunk without a record ends the file. `LoadedEntries` is
`load_entries` with its head at slot 0, which nothing moves.

The checksum of a `DataFileHeader` is computed while its own field is zero and
compared with one computed over the stored value (the field lies before the
padding, `entry.h:41`), so it never matches, and `DeleteLogged` deletes the blob
of every entry that `load_entries` returns. The possible accidental match of a
32-bit checksum is ignored.

Assumed of the device: a page is written whole or not at all; blob ids that were
freed are used again, lowest first; a new blob reads as zeros. Left out: read
errors, failed deletions of blobs, `kMaxFileCount`, failed memory allocations,
and records of `put_async`, whose header is not at the start of a page, so that
the scan never recognises them.

Ghost variables of `Restart`: `may[k]` is the set of values a get of `k` may return: that of
the last call answered with success, and of every call after it that was not.
`crashes`, `cuts` and `faults` count crashes, superblock writes that were cut
short, and failed record writes that left part of the record on the device.

### Compaction

`Compaction` extends `FileAllocation`: the requests go on as there (`RequestPath`),
and one task at a time copies the live records of a file. The variable `task` is
`CompactionTask`; its `state` and `io_pending` are the members of those names,
with the `kWait...` states, which nothing ever enters, left out, and with
`closing` and `deleting` for the two operations of `compaction_remove_file`. An
action is one `step`, or one completion: `step` runs to its end, and it runs only
inside `CompactionScheduler::poll`, so what interleaves with a task is what comes
between two of its IOs. The CPU budget and the rate limit may end a poll after
any step, which is why `Runs` is a condition on every step.

`InitTask` begins `allocate_new_file`, which polls the device until the
destination has its blob, its log entry and its header: while `InAllocation`
holds, completions run and calls and polls do not, and `DestAllocated` or
`DestNotAllocated` ends it. A read of a chunk may or may not see a write that is
in flight to the same file. What it recognises is what `validate_entry` does: a
record with its header at the start of a page, whole in the chunk. `put_async`
writes its header at byte 256 of its first page, so the keys in `SegmentKeys` are
copied by nobody; the other keys stand for the direct writes of `put_buffered`,
whose header is at the start.

The destination may be the last file when an asynchronous allocation completes
(see `FileAllocation`). `SerialAllocation` starts a task only while no such
allocation is in progress, and `SealedOnly` schedules sealed files only; both are
conditions on the caller that nothing in the code enforces, so the run has
`SealedOnly` off; section 3 says what happens without `SerialAllocation`.

Left out: the page bitmap and the byte counts of `FileMetadata`, and with them
`select_files_for_compaction`, since nothing ever creates the bitmap, counts a
byte or sets the state of an entry of `file_metadata_` to `kSealed` before a
compaction has, so that no file is ever selected; the headers on the device, the
retry delay, and what happens once `on_new_file_allocated(false)` has dropped a
destination, whose task then holds a dangling pointer. Two things a reader should
know although no property is about them: a destination that no chunk was
committed to is not deleted by the rollback and stays in `files_`
(`compaction.cpp:606`); and the `FileInfo` and the superblock mapping of a
destination that was deleted stay, so that the next `open` finds no blob for the
mapping and fails.

## 3. Runs

| run | result | what it shows |
|---|---|---|
| `write_path` | pass | `TypeOK`, `NoOverlap`, `IndexPointsAtRecord`, `ReadsFindTheirRecord`, `OneReplyEach`, `NewestPutWins`, the refinement `ImplementsStore`, and `EveryRequestAnswered` under `FairSpec` |
| `write_path_reload` | violated | `IndexAgreesWithReload`: a late delete hides a newer put |
| `sync_path` | pass | `SyncNoOverlap`, `IndexPointsAtRecord`, `SyncReadFindsItsRecord`, `EachAnsweredOnce`, and `SyncCallReturns` under `SyncFairSpec` |
| `sync_path_race` | violated | `QueueFindsOpenFile`: the waiting writes are sent to a file without a blob |
| `buffer_pool` | pass | `TypeOK`, `BuffersConserved`, `NoIdleBuffer`, `OneReplyEach`, `AnsweredIsIndexed`, and `OnlyStaleFlagStrands` under `FairSpec`, in a pool that meets its limit |
| `buffer_pool_live` | pass | `EveryPutAnswered` in the default proportions |
| `restart` | pass | `TypeOK`, `AcksSurviveClose`, `OneCutIsSurvived`, `MappedBlobsExist`, `FilesDistinct`, `RecordedPutsFound`, `RecordedDataStays`, with records of one and two pages, a crash at any step and two cut writes of the superblock |
| `restart_straddle` | violated | `AckedPutsFound` after a clean close |
| `compaction` | pass | `IndexPointsAtRecord`, `NoEntryInRemovedFile`, `ReadsMissOnlyRemoved`, and `CompactionEnds` under `CompactionFairSpec` |
| `mem_index` | pass | `TypeOK`, `EveryLiveEntryIsFound`, `OneEntryPerKey`, the refinement `ImplementsMap`, and `UpsertReturns` under `FairSpec` |
| `mem_index_reorder` | violated | `ImplementsMap` with upserts out of order: an entry is lost or replaced by an older one |
| `checkpoint` | pass | `TypeOK`, `NoChangeForgotten`, `RecoveryFindsIndex`, and `CheckpointEnds` under `FairSpec` |

The violated runs each check one statement that a comment or a document of the
repository makes; `findings` in `PROJECT.json` quotes it.

**What the four violations say.** (1) The completion of a delete removes its key
without comparing sequences, so a delete that completes after a newer put hides
the put until the next restart. (2) `on_new_file_allocated` takes the last
`FileInfo` for its own; a `put` that is allocating a file has pushed one behind
it, so the writes that waited are failed although their file is there. (3) A
record that crosses a 1 MB scan boundary is not found by recovery, even after a
clean close. (4) In `upsert`, once an entry has been displaced, the loop goes on
comparing with the key of the call while it holds another key's entry: at the old
copy of its own key it compares the sequences of two different keys. In order, the
old copy is always the older one and is overwritten, which is right; out of order
an entry is lost.

**What the modules show when their favourable conditions are lifted.** Each can be
reproduced by a change of one configuration.

* `SyncPath_safety` with `SerialAllocation = FALSE`: `SyncNoOverlap` fails. The
  callback of the asynchronous allocation finds the file of `put` open, drains the
  queue into it, and `put` writes at the offset it read before.
* `SyncPath_safety` with `CallbackCalls = TRUE`: `SyncNoOverlap` fails in three
  steps, since `put_async` in a callback gets the offset `put` is writing to.
* `SyncPath` also shows that a file for a synchronous call is allocated when the
  AllocLog is near full, where the asynchronous path fails its requests.
* `Checkpoint_safety` with `StartsOverlap = TRUE`: `RecoveryFindsIndex` fails. The
  refused call has already replaced the positions of the running checkpoint
  (`engine.cpp:1609`), whose superblock then names a place ahead of its segments.
  `checkpoint.cpp:231` calls it critical that the snapshot is used.
* `Compaction_safety` with `SerialAllocation = FALSE`: the destination becomes the
  active file of the users, who then write into the pages the compaction writes to
  (`IndexPointsAtRecord` fails).
* `BufferPool_safety` with `EveryPutAnswered` for a property, or `BufferPool_live`
  with a pool at its limit (`BufferCount = MaxBufferCount = HighWater = 2`, puts of
  two pages): it fails, because `backpressure_active_` is evaluated only by a put,
  so a put that waits behind a flag that the ring no longer bears out stays there
  when no later one comes. `EveryPutAnswered` is checked in the default proportions
  only, where the flag is never set, so that run says nothing of this; what the code
  does keep at its limit is `OnlyStaleFlagStrands`: nothing else strands a put.
* `MemIndex_map` with `MaxPending = 2`: `OneEntryPerKey` fails too, so a `remove`
  brings the other entry of the key back.
* `MemIndex_map` with four keys that have the four slots for homes and a fifth one:
  `ImplementsMap` fails. The table is full, the upsert of the fifth key goes round
  it, comes to the entry it has just stored with the entry of another key in hand,
  and drops that there with the result `true` (`mem_index.h:347-352`). The
  table is sized for `max_entries` and nothing counts up to that.
* `Restart_straddle` with `MaxCrashes = 1` and records of one page (`FilePages = 3`,
  `ChunkPages = 2`, `PutPages = {1}`): `AckedPutsFound` fails after a crash. The
  scan ends at the recorded size, and a newer file is deleted. With a second
  session a put may also be written over a record that recovery did find
  (`AcksSurvive` fails), since the session begins at the write offset of the last
  superblock. `restart_straddle` itself has no crash and shows nothing of this. What
  `RecordedPutsFound` and `RecordedDataStays` say is where the loss ends: it lies
  behind the sizes that the last superblock recorded.
* `close` (`CloseBegin`, `CloseFlushed`, `CloseEnd` of `BufferPool`) returns with
  buffer writes in flight and their callbacks dropped.
* A compaction marks its source deleted although records of `put_async`, which it
  does not recognise, or records that were in flight when it read their pages, are
  live there (`MarkDeleted` of `Compaction`). The blob stays, so they can be read
  until something takes the mark at its word.

**Three things about the checkpoint a reader should know although no property is
about them.** A segment write that fails has destroyed the old copy of its segment,
as segments are overwritten in place: `active_mem_index_area` is toggled but no
offset depends on it. The records in flight when the checkpoint starts are before
its position, and if they complete after their segment was read they are only
covered by the next checkpoint; the properties exclude them by name
(`unfinished`). And the buckets past `80 * (capacity / 80)` belong to no segment.

`WritePath` also has a behaviour that `types.h:87` excludes ("read-only"): the
active file is sealed before its successor exists (`engine.cpp:1268`), and when
that allocation fails it stays active, so that small records are still appended
to it. Nothing else in this revision reads the state of a file, so no property
is about it.

**Bounds, and why they are enough.**

* `WritePath_safety`: two keys, four requests, records of one or two pages, three
  data pages a file. The third or fourth record needs a new file, so writes
  wait, fail with the allocation, and meet writes still in flight to the sealed
  file; four requests allow two writes of one key with a read between and a
  neighbour. The keys are symmetric, but a liveness property is checked in the
  same run, for which the reduction would be unsound.
* `BufferPool_safety`: four puts over two buffers that may become three, marks at
  1 and 0: the pool fills, grows, refuses, and is relieved by a put while others
  wait. The invariants were also checked with five puts and marks at 2 and 1
  (470 739 states), where it refuses a second time. One key is the hardest case
  of the order of index updates. The live run has the
  proportions of the code's defaults (4 buffers, marks 12 and 6): fewer buffers
  than the high-water mark.
* `Restart_safety`: three writes of records of one and two pages, two data pages a
  file: three records of two pages make three files over three blobs, and a log of
  two slots fills. One crash in any step and two cut superblock writes, in or
  outside it, cover a stale backup next to a torn primary. Files are full, partly
  filled and empty when they are recovered. With chunks of two pages, a two-page
  record crosses the start of a chunk in file 0, whose scan starts at the header
  (the case that `AcksSurviveClose` and `RecordedPutsFound` exclude), and lies
  within one in a later file, whose scan starts after it. `RecordedPutsFound` and
  `RecordedDataStays` were also checked with two crashes, three cut superblock writes
  and one failed write that leaves part of its record. `AcksSurviveClose` is about behaviours with no crash
  and no cut, so it was also checked on a larger instance without them: four
  writes, four data pages a file, chunks of three pages (253 533 states).
  `Restart_straddle` has two-page records and chunks of three pages, so
  that a record can lie across a chunk's end as a record can across 1 MB.

* `Compaction_safety`: two keys, one that a scan recognises and one that it does
  not, three requests, files of two data pages read in chunks of one. A file
  takes two chunks, so a task fails with one chunk committed and one pending;
  three requests are a record to migrate, a newer write of its key at any moment
  of the task, and a third. Two attempts (`MaxRetryCount`) make one retry. `MaxFiles`
  = 2 lets tasks be scheduled until there is a second file, so a behaviour has
  one destination, and more than one task only if an allocation failed. The same
  instance without the liveness property and with `MaxFiles` = 3, where a file is
  compacted again after a rollback, and a destination after it was filled, has
  7.0 million states and takes five minutes; it finds no violation either. The
  pause threshold of two operations is reached and left.

* `SyncPath_safety`: two keys, three requests, two data pages a file: a synchronous
  write that fills the file meets writes in flight to it, a queue that waits for
  the next one, and reads. The same instance with four requests and a log that is
  never near full has 1.1 million states and finds no violation either.
* `MemIndex_map`: five keys in a table of four slots, four of them with the last
  slot for home: their chain wraps around the end of the table, displaces the fifth
  key, fills the table, and an upsert gives up at the limit. The five sequence
  numbers wrap around a modulus of ten, as far as numbers in use may lie apart. The
  limit of the code is 128 (4 here); what matters is that it does not
  exceed the number of slots (`TableAssumption`) and is met.
* `Checkpoint_safety`: two segments are the least for one to be written while the
  other waits; four records let one be complete before, one during, one after the
  reading of its segment, and one be in flight over all of it.

Deadlock is not checked in these runs because the number of requests is bounded:
once they are spent and answered nothing is left to do.

**Fairness.** The application polls while it has requests out, and the device
answers every operation. `WritePath` needs weak fairness of the allocation, of
the drain and of each completion. In `BufferPool` a completion is possible only
at some moments of a poll, so completions have strong fairness, justified by
every poll starting with the processing of completions. It is asked of the writes
of buffers as a whole and of the direct writes as a whole, which is less than the
device gives and enough, since the puts of a behaviour are finitely many. So has
the flush by time, since `last_flush_ns_` moves only when a flush is made. No fairness is
assumed of the calls: nothing makes the application put. In `SyncPath` the call that
holds the thread goes on, and the drain inside it; nothing is assumed of other
completions, so the call returns whatever they do. The loop of `upsert` goes on
until it returns. In `Checkpoint` the IO it waits for is answered; the writes
around it need not go on. In `Compaction` the polls
(priority control and steps), the IOs of the task, and an allocation with the
drain it ends in are weakly fair; `CompactionEnds` is about loads that stay at or
below the resume threshold, since a load above it pauses a task for as long as it
lasts, by design.

**Two limits the passing properties state.** `OneCutIsSurvived` is about one cut.
After a torn primary `open` takes the backup and does not repair the primary,
and the next `close` writes the backup first; a second cut there leaves no valid
copy. `AcksSurviveClose` excludes failed writes that left their record behind:
when such a record is the only one of its file, the next `open` finds it (the
recorded size is 0, so the whole blob is scanned), and the first put of that
session is written over it while the index points there; `Restart` with
`MaxFaults = 1` and no crash violates `AcksSurvive`. `close` also answers
`kSuccess` when its superblock was not written, hence `cuts = 0` in the same
property. And it excludes a record that continues where a chunk of the scan starts
(`Unbroken`), since such a record is not found (`restart_straddle`).

## 4. Proofs

All theorems hold for every value of the constants that the `ASSUME` of the
module allows.

* `WritePathProofs`: `TypeCorrect`, `WritesNeverOverlap`, `IndexCorrect`,
  `ReadsCorrect`, `LastPutWins`. None of the properties but the type is
  inductive. The invariant `IInv` adds that files are in order of their ids
  (so `files_.back()` is the file being allocated), that every record lies below
  the write offset of its file (so a new place is free), that a sequence in
  flight or waiting is not yet durable, that an index entry is the entry of a
  durable record, and that the index holds at least the newest durable put of a
  key without deletes.
* `KVStoreProofs`: `AnsweredOnce` and `EngineIsAStore`. The second is the
  refinement: initial states map to initial states, and every action of
  `WritePath` maps to an action of `KVStore` or to a stutter, given `IInv` and the
  invariant of the first, that the sequences in flight, waiting and draining are
  distinct and unanswered.
* `MemIndexProofs`: `TypeCorrect`, `EntriesAreFound`, `EveryKeyOnce` and the
  refinement `TableIsAMap`. Since `psl` is not the distance, the invariant of the
  second states what the stored value is good for: on the way from the home slot of
  a stored entry to the entry every slot has a `psl` at least its distance from
  there (`WayOpen`), and while an upsert runs the same holds for the entry in hand up
  to where it is. It holds for any hash, any order of sequences and any limit, in a
  table that keeps a free slot (`[]Roomy`); the code relies on the load factor for
  that.

  The other two are about upserts in the order of their sequences (`MaxPending = 1`;
  with two pending TLC finds both properties violated). `Chain` is the distance at
  which an upsert from a home comes to each slot as long as it meets no `psl` below
  its distance. Every stored entry is on such a chain (`EntriesOnWay`): up to it no
  slot is empty or has a `psl` below the chain, and where the two are equal, which is
  where an upsert exchanges entries, the entry there is newer. So an upsert of a key
  comes to the old entry of that key although it exchanged entries on the way, and
  what it has in hand then, its own entry or another one, is newer and overwrites it
  (`HandNewer`, `OldAndNew`). `EveryKeyOnce` needs no free slot: also an upsert that
  gives up leaves no key with two entries. `TableIsAMap` needs one, or the upsert
  could come round to the entry it stored (`StoredBehind`; section 3 has what
  happens then).
* `CheckpointProofs`: `TypeCorrect`, `ChangesAreTracked` and, for `StartsOverlap =
  FALSE`, `RecoveryIsComplete`. The invariant follows a record from the index over
  the dirty bitmap, the pending segments and the buffer to the image, and says of
  the positions that every record before them was complete or in flight at the
  start of the checkpoint.
* `BufferPoolProofs`: `TypeCorrect`, `NoBufferLost`, `FreeBufferIsUsed`,
  `DefaultPoolNeverGrows`, `AnsweredExactlyOnce` and `AnsweredStaysIndexed`. The
  invariant `Pool` says that the active buffer, the two rings, the batch and the
  buffers in flight partition the buffers that exist; since there are at most
  `MaxBufferCount` of them, no `enqueue` meets a full ring. `Idle` says that there is
  an active buffer whenever one is free, up to the first use. For the last two, the
  puts in buffers, in the wait queue and in direct writes are distinct and none of
  them is answered, and the index entry of a key is never older than an answered put.
* `RestartProofs`: `RestartTypeCorrect`, `OneCutIsSurvivedAlways`,
  `MappedBlobsAlwaysExist`, `FilesAlwaysDistinct`, `AcksAlwaysSurviveClose`,
  `OnePageAcksAlwaysSurvive` and `RecordedDataAlwaysStays`. The invariant of the second counts: a torn copy has cost a cut
  of its own, because the two copies are written one after the other and a failed
  first write ends the attempt; and what is written is never itself invalid. The
  next two rest on `BInv`: the id of a file is its place in `files_`, so that the
  number of mappings is a fresh id also after allocations were rolled back; the
  entries of the log page that follow upon the sequence in the copy that `open` would
  load name blobs this copy does not map (`Follow`, `Spares`), so that the recovery,
  which deletes every blob of the log, deletes none that is needed; and `close` writes
  a sequence that no entry on the device follows upon (`LogOnDevice`).

  `AcksAlwaysSurviveClose` is the one about the whole of a restart: as long as every
  session was closed, its superblock written, no failed write left a record behind and
  no record continues where a chunk starts, a get returns what was acknowledged, in
  any later session. Its invariant `KInv` says that the index in memory is always the
  index that a recovery would make from the files as they are (`Kept`), whether these
  are in `files_`, in the superblock that `close` is writing or in the copy that `open`
  will load (`InForce`). Two things make it inductive. A file is filled with whole
  records, end to end, from page 1 to its write offset, and nothing lies behind
  (`Filled`); from that the lemmas derive what `parse_and_rebuild_entries` finds, chunk
  after chunk: each chunk starts at a record or at the end of the data
  (`ChunkStartsRecord`), the last record of a chunk ends in it, and all of them
  together are the records of the file (`ScanFileIs`). And a record that is written is
  the last of the scan, because the active file is always the last file (`AInv`; a
  rollback drops only files that are empty, `NewIsEmpty`), and has the highest sequence,
  so that what `Written` does to the index in memory is what a recovery does when it
  comes to the record (`RecordIsEntered`). The hypothesis about chunks goes away when
  every record fits a page (`OnePageAcksAlwaysSurvive`). `RestartTypeCorrect` needs the
  types of what a scan returns. Recursive functions and folds (`ScanChunk`, `ScanFile`,
  `FlattenSeq`, `FoldLeft`, `UpdateMappings`) are `CHOOSE` expressions to the prover:
  for each there is a lemma that a function with its equations exists.

  `RecordedDataAlwaysStays` is about crashes. Its invariant `WInv` says that in every
  copy of the superblock, and in `files_`, the write offset of a file is not below
  its size (`OffsetsCover`), and that the files of a session begin with those of the
  copy on the device that `open` would load, at write offsets not below the sizes
  recorded there (`BehindRecorded`). So a record, whole or in part, comes behind what
  was recorded (`StoreStays`); and by `BInv` a recovery deletes no blob that the copy
  maps (`DeletionStays`).
* `SyncPathProofs`: `SyncTypeCorrect`, `SyncWritesNeverOverlap`, `SyncIndexCorrect`,
  `SyncReadsCorrect` and `SyncAnsweredOnce`. A state of `SyncPath` is one of
  `WritePath` once the record that the running call has written and not returned for
  is left out of `disk` and the call counts as answered (`Path`). Every step that is
  an action of `WritePath` is one of that instance, so the lemmas of
  `WritePathProofs` and `KVStoreProofs` are used for it, and only the steps of the
  calls themselves are new. The theorems have the hypotheses `SerialAllocation` and
  `~CallbackCalls`; without either TLC finds `SyncNoOverlap` violated (section 3),
  so they are not conveniences of the proof.

* `CompactionProofs`: `CompactionTypeCorrect`, `CopiesNeverOverlap`,
  `CompactionKeepsIndex`, `RollbackLeavesNoEntry` and `CompactionKeepsReads`. Requests
  and the allocation of files go on around a task, so the invariant `CInv` has the
  parts of `IInv` about files and records, weakened where a compaction weakens them
  (a destination that was removed holds nothing; a chunk that is written lies past the
  write offset of its file until `update_indices`, `Frontier`), and parts of its own:
  what the read buffer holds is where it was and nothing lies over it
  (`ChunkInSource`); every record with a copy is still in the source, which is open
  (`SourceStays`); the copies lie one behind another and those that were committed are
  on the disk (`CopiesInPlace`); a live entry in the destination is there by a committed
  migration (`DestEntries`); a read whose record is gone was sent to a file the
  scheduler has forgotten (`ReadsAccountedFor`). Two records at one place would
  overlap, so there is one; that is why an entry that `update_indices` moves has the
  sequence of the copy it moves to, although the code compares places only, and why
  `revert_index_update` finds for each entry in the destination exactly the migration
  that brought it there. The write buffer is measured in pages (`PagesOf`): the copies
  in it are apart and lie between `dest_offset_` and its end, so they take no more
  pages than there are (`PagesFit`). The theorems have the hypothesis
  `SerialAllocation`; without it TLC finds violations (section 3).

Three theorems are about definitions that no run lists, as they say little that a run
would find: `SyncTypeCorrect`, `CompactionTypeCorrect` and `DefaultPoolNeverGrows`.

The argument is the same in each: `Init => IInv`, every action preserves `IInv`,
`IInv` implies the property, and a last temporal step.

Only model-checked: the liveness properties, since liveness under fairness is out of
reach of the proof system, and `RecordedPutsFound`, which needs what a scan finds in
a file that a crash has left with old records behind its new ones (`KInv` is about
files without such a rest). Every other invariant, every action property and every
refinement that a passing run checks is a theorem. Where a proof needs an induction (what the scan of a file and the
folds over its records compute, `UpdateMappings`, `Chain`), it is an induction over
numbers, done with the least element of a set of counterexamples (`CountUp`,
`CountDown`); the induction theorems of the library take an operator and cannot be used.

## 5. Not modelled

* **RDMA slots.** `get_buffer_rkey` returns 0 "until RDMA subsystem is integrated"
  and `AppendBuffer::alloc_rdma_slot` has no caller. What one sees by reading:
  `commit_rdma_slot` and `put_rdma` use the buffer that is active now, not the one
  the slot was reserved in, and a global slot id where a buffer-local one is
  meant; `poll` submits buffers without `can_submit`.
* **Calls from callbacks inside a loop over a vector** (`engine.cpp:743`): what is
  appended under the range-for is undefined behaviour, and what survives is
  cleared without an answer. `SyncPath` lets callbacks call, but behind the loop.
* **`Compaction` with a restart**: headers, the mapping of a deleted destination
  (the next `open` finds no blob for it and fails), a crash between two steps.
* **Loading an index from its segments**: `recover_mem_index` passes no index
  blobs, so `deserialize_segment` and `rebuild_psl_array` are not reached.
* **The dangling `FileInfo`** that a failed allocation leaves behind when it pops
  the one of another: undefined behaviour from there on.
* The SPDK environment and the IO submitter (the device in the modules stands for
  them), memory pools, CRC, the callback task queue (nothing enqueues into it),
  the C API and the examples.
