----------------------------- MODULE Compaction -----------------------------
(***************************************************************************)
(* Compaction of a data file (src/src/compaction.cpp) while requests go on *)
(* (WritePath). CompactionScheduler runs one CompactionTask at a time from *)
(* Engine::poll; a task copies the live records of its source file to a    *)
(* new destination file, moves their index entries there and marks the     *)
(* source deleted; after an error it retries or takes everything back.     *)
(*                                                                         *)
(* A task stops in front of each of its IOs: between submission and        *)
(* completion, and between two steps, any handler of the engine may run.   *)
(***************************************************************************)
EXTENDS FileAllocation

CONSTANTS
  ChunkPages,       (* kChunkSize, in pages: both buffers of a task          *)
  MaxRetryCount,    (* kMaxRetryCount                                        *)
  PauseThreshold,   (* kPauseThreshold                                       *)
  ResumeThreshold,  (* kResumeThreshold                                      *)
  MaxFiles,         (* bound: no task is scheduled once this many file ids   *)
                    (* are taken                                             *)
  SegmentKeys,      (* the keys that are written by put_async; the others    *)
                    (* are written by put_buffered, through the wait queue   *)
  MaxReads,         (* bound on the reads in flight                          *)
  SealedOnly,       (* TRUE: the application schedules sealed files only     *)
  SerialAllocation, (* TRUE: no task starts while a file is being allocated  *)
                    (* for waiting writes                                    *)
  NoTask            (* no task is active                                     *)

ASSUME CompactionAssumption ==
  /\ ChunkPages \in Nat \ {0}
  /\ MaxRetryCount \in Nat \ {0}
  /\ PauseThreshold \in Nat
  /\ ResumeThreshold \in Nat
  /\ MaxFiles \in Nat
  /\ SegmentKeys \subseteq Keys
  /\ MaxReads \in Nat
  /\ SealedOnly \in BOOLEAN
  /\ SerialAllocation \in BOOLEAN

VARIABLES
  task,              (* active_task_                                        *)
  pending_tasks,     (* pending_tasks_: the source files of waiting tasks   *)
  compaction_paused, (* compaction_paused_                                  *)
  file_metadata      (* file_metadata_: the states of the known files       *)

compactionVars == <<task, pending_tasks, compaction_paused, file_metadata>>
allVars == <<vars, compactionVars, alloc_file>>

(* What a step of a task leaves alone unless it says so.                    *)
requestVars == <<next_file_id, active_file_id, allocVars, queueVars, inflight,
                 global_sequence, reads, replies, pending_tasks,
                 compaction_paused, alloc_file>>

-----------------------------------------------------------------------------
(* Types *)

(* The states in which a step submits an IO; io_pending_ is set until the   *)
(* completion. "closing" and "deleting" are delete_garbage_file, in state   *)
(* kRollback, waiting for its two blob operations.                          *)
IoStates == {"mark_compacting", "read_chunk", "write_chunk", "mark_deleted",
             "rollback_mark_sealed", "closing", "deleting"}

TaskStates == IoStates \cup
  {"init", "process_entries", "update_indices", "finalize", "retry_wait",
   "rollback", "failed", "done"}

(* MigratedEntry: a record moves from an offset of the source to an offset  *)
(* of the destination.                                                      *)
Migration == [key : Keys, seq : Sequence, pages : Nat \ {0}, from : Nat,
              to : Nat]

(* CompactionTask. `chunk' are the records of the read buffer, `migrated'   *)
(* those of the write buffer.                                               *)
Task == [src : Nat, dest : Nat, state : TaskStates, io_pending : BOOLEAN,
         current_offset : Nat, bytes_read : Nat, chunk : SUBSET Write,
         dest_offset : Nat, migrated : SUBSET Migration,
         committed : SUBSET Migration, retry_count : Nat,
         retry_target : IoStates]

ASSUME NoTaskAssumption == NoTask \notin Task

NewTask(src, dest) ==
  [src |-> src, dest |-> dest, state |-> "init",
   io_pending |-> FALSE, current_offset |-> 1, bytes_read |-> 0,
   chunk |-> {}, dest_offset |-> 1, migrated |-> {}, committed |-> {},
   retry_count |-> 0, retry_target |-> "mark_compacting"]

Src  == IndexOfFile(task.src)
Dest == IndexOfFile(task.dest)

(* How many pages the records or the copies of S take together.             *)
PagesOf(S) == Cardinality(UNION { {m} \X (1 .. m.pages) : m \in S })

(* write_buffer_used_                                                       *)
Used == PagesOf(task.migrated)

(* file_metadata_ with the state of file f, known or not.                   *)
WithState(f, state) ==
  [g \in DOMAIN file_metadata \cup {f} |->
     IF g = f THEN state ELSE file_metadata[g]]

-----------------------------------------------------------------------------
CompactionInit ==
  /\ Init
  /\ task = NoTask
  /\ pending_tasks = <<>>
  /\ compaction_paused = FALSE
  /\ file_metadata = [f \in {0} |-> "active"]
  /\ alloc_file = 0

(* The thread is in the loop of allocate_new_file that polls the device for *)
(* the destination: completions run, requests and polls do not.             *)
InAllocation == task # NoTask /\ task.state = "init"

(* schedule_compaction takes any file, in any state and more than once.     *)
(* Bounds: one task waits at a time, and MaxFiles.                          *)
ScheduleCompaction(f) ==
  /\ BetweenHandlers
  /\ ~InAllocation
  /\ pending_tasks = <<>>
  /\ next_file_id < MaxFiles
  /\ SealedOnly => files[IndexOfFile(f)].state = "sealed"
  /\ pending_tasks' = <<f>>
  /\ UNCHANGED <<vars, task, compaction_paused, file_metadata, alloc_file>>

-----------------------------------------------------------------------------
(* CompactionScheduler::poll *)

(* pending_foreground_count_                                                *)
Foreground == Cardinality(inflight) + Cardinality(reads)

(* The priority control of a poll, which ends in a pause or lifts it.       *)
PriorityControl ==
  /\ BetweenHandlers
  /\ ~InAllocation
  /\ \/ /\ compaction_paused
        /\ Foreground <= ResumeThreshold
        /\ compaction_paused' = FALSE
     \/ /\ ~compaction_paused
        /\ Foreground >= PauseThreshold
        /\ compaction_paused' = TRUE
  /\ UNCHANGED <<vars, task, pending_tasks, file_metadata, alloc_file>>

(* The poll goes on to the task. The rate limit and the CPU budget end a    *)
(* poll after any number of steps.                                          *)
Runs ==
  /\ BetweenHandlers
  /\ ~compaction_paused
  /\ Foreground < PauseThreshold

(* The next step of the task: it is in this state and has no IO pending.    *)
StepIn(state) ==
  /\ Runs
  /\ task # NoTask
  /\ task.state = state
  /\ ~task.io_pending

Goto(state) == task' = [task EXCEPT !.state = state]

SubmitIo == task' = [task EXCEPT !.io_pending = TRUE]

(* init, run on the task just taken from the queue: it fails, or calls      *)
(* allocate_new_file for its destination.                                   *)
InitTask ==
  /\ Runs
  /\ task = NoTask
  /\ pending_tasks # <<>>
  /\ SerialAllocation => ~allocating_new_file
  /\ pending_tasks' = Tail(pending_tasks)
  /\ LET src == Head(pending_tasks) IN
     \/ /\ src \in DOMAIN file_metadata
        /\ task' = NewTask(src, next_file_id)
        /\ PushFile(files)
     \/ /\ task' = [NewTask(src, 0) EXCEPT !.state = "failed"]
        /\ UNCHANGED <<files, next_file_id>>
  /\ UNCHANGED <<active_file_id, allocVars, queueVars, inflight, dataVars,
                 global_sequence, reads, replies, compaction_paused,
                 file_metadata, alloc_file>>

(* The destination has its blob and its header.                             *)
DestAllocated ==
  /\ InAllocation
  /\ BetweenHandlers
  /\ task' = [task EXCEPT !.state = "mark_compacting"]
  /\ BlobOpenedFor(task.dest)
  /\ file_metadata' = WithState(task.dest, "active")
  /\ UNCHANGED <<dataVars, requestVars>>

(* files_.pop_back(); next_file_id_--.                                      *)
DestNotAllocated ==
  /\ InAllocation
  /\ BetweenHandlers
  /\ task' = [task EXCEPT !.state = "failed"]
  /\ DropLastFile
  /\ UNCHANGED <<pathVars, pending_tasks, compaction_paused, file_metadata,
                 alloc_file>>

(* The end of a poll that finds the task complete.                          *)
TaskOver ==
  /\ Runs
  /\ task # NoTask
  /\ task.state \in {"done", "failed"}
  /\ task' = NoTask
  /\ UNCHANGED <<vars, pending_tasks, compaction_paused, file_metadata,
                 alloc_file>>

-----------------------------------------------------------------------------
(* Steps of the task *)

MarkCompacting ==
  /\ StepIn("mark_compacting")
  /\ SubmitIo
  /\ files' = [files EXCEPT ![Src].state = "compacting"]
  /\ file_metadata' = [file_metadata EXCEPT ![task.src] = "compacting"]
  /\ UNCHANGED <<dataVars, requestVars>>

(* read_next_chunk. The end of the file is its write offset at this moment. *)
(* No page is skipped: the bitmap that would say so is never created.       *)
ReadNextChunk ==
  /\ StepIn("read_chunk")
  /\ LET left == files[Src].write_offset - task.current_offset IN
     \/ /\ left <= 0
        /\ Goto(IF task.migrated # {} THEN "write_chunk" ELSE "finalize")
     \/ /\ left > 0
        /\ task' = [task EXCEPT
                      !.io_pending = TRUE,
                      !.bytes_read = IF left < ChunkPages THEN left
                                     ELSE ChunkPages]
  /\ UNCHANGED <<files, file_metadata, dataVars, requestVars>>

(* A put record that the index still points to.                             *)
ShouldMigrate(d) ==
  /\ d.kind = "put"
  /\ Find(d.key)
  /\ mem_index[d.key].file = task.src
  /\ mem_index[d.key].offset = d.offset

(* The copies of the records of S behind what the write buffer holds.       *)
Copies(S) ==
  { [key |-> d.key, seq |-> d.seq, pages |-> d.pages, from |-> d.offset,
     to |-> task.dest_offset + Used
              + PagesOf({e \in S : e.offset < d.offset})] : d \in S }

(* A copy that fits the write buffer.                                       *)
Fits(m) == m.to + m.pages <= task.dest_offset + ChunkPages

(* process_entries: the live records of the chunk go to the write buffer in *)
(* order. When one does not fit, the buffer is written first and the chunk  *)
(* is read again.                                                           *)
ProcessEntries ==
  /\ StepIn("process_entries")
  /\ LET copies == Copies({ d \in task.chunk : ShouldMigrate(d) })
         taken  == { m \in copies : Fits(m) }
         next   == [task EXCEPT !.migrated = @ \cup taken, !.chunk = {},
                                !.bytes_read = 0] IN
     \/ /\ taken = copies
        /\ task' = [next EXCEPT !.state = "read_chunk",
                                !.current_offset = @ + task.bytes_read]
     \/ /\ taken # copies
        /\ task' = [next EXCEPT !.state = "write_chunk"]
  /\ UNCHANGED <<files, file_metadata, dataVars, requestVars>>

WriteChunk ==
  /\ StepIn("write_chunk")
  /\ SubmitIo
  /\ UNCHANGED <<files, file_metadata, dataVars, requestVars>>

(* An index entry of the key as it is after its record has moved.           *)
MovedTo(k, f, offset, pages) ==
  [mem_index[k] EXCEPT !.file = f, !.offset = offset, !.pages = pages]

(* The entries of M move without a look at where they point now.            *)
MovedIndexUnchecked(M) ==
  [k \in Keys |->
     IF Find(k) /\ \E m \in M : m.key = k
     THEN LET m == CHOOSE m \in M : m.key = k
          IN  MovedTo(k, task.dest, m.to, m.pages)
     ELSE mem_index[k]]

(* mem_index_ with the entries of M that still point at the old place moved *)
(* to the new one.                                                          *)
MovedIndex(M) ==
  LET At(k) == { m \in M : /\ m.key = k
                           /\ mem_index[k].file = task.src
                           /\ mem_index[k].offset = m.from }
  IN  [k \in Keys |->
         IF Find(k) /\ At(k) # {}
         THEN LET m == CHOOSE m \in At(k) : TRUE
              IN  MovedTo(k, task.dest, m.to, m.pages)
         ELSE mem_index[k]]

(* The task after update_indices, had it left dest_offset_ alone.           *)
CommittedInPlace == [task EXCEPT !.committed = @ \cup task.migrated,
                                 !.migrated = {}, !.state = "read_chunk"]

Committed == [task EXCEPT !.committed = @ \cup task.migrated,
                          !.migrated = {}, !.state = "read_chunk",
                          !.dest_offset = @ + Used]

UpdateIndices ==
  /\ StepIn("update_indices")
  /\ mem_index' = MovedIndex(task.migrated)
  /\ task' = Committed
  /\ files' = [files EXCEPT ![Dest].write_offset = task'.dest_offset]
  /\ UNCHANGED <<file_metadata, disk, requestVars>>

Finalize ==
  /\ StepIn("finalize")
  /\ Goto("mark_deleted")
  /\ UNCHANGED <<files, file_metadata, dataVars, requestVars>>

(* The FileInfo of the source stays kCompacting, and its blob stays.        *)
MarkDeleted ==
  /\ StepIn("mark_deleted")
  /\ SubmitIo
  /\ file_metadata' = [file_metadata EXCEPT ![task.src] = "deleted"]
  /\ UNCHANGED <<files, dataVars, requestVars>>

(* check_retry_timeout, once the delay is over.                             *)
CheckRetryTimeout ==
  /\ StepIn("retry_wait")
  /\ Goto(task.retry_target)
  /\ UNCHANGED <<files, file_metadata, dataVars, requestVars>>

-----------------------------------------------------------------------------
(* Rollback *)

(* revert_index_update only of what is not committed yet.                   *)
RevertedPending ==
  LET At(k) == { m \in task.migrated : /\ m.key = k
                                       /\ mem_index[k].file = task.dest
                                       /\ mem_index[k].offset = m.to }
  IN  [k \in Keys |->
         IF Find(k) /\ At(k) # {}
         THEN LET m == CHOOSE m \in At(k) : TRUE
              IN  MovedTo(k, task.src, m.from, m.pages)
         ELSE mem_index[k]]

(* revert_index_update of every migration: the entries that still point at  *)
(* the new place go back to the old one.                                    *)
RevertedIndex ==
  LET At(k) == { m \in task.committed \cup task.migrated :
                   /\ m.key = k
                   /\ mem_index[k].file = task.dest
                   /\ mem_index[k].offset = m.to }
  IN  [k \in Keys |->
         IF Find(k) /\ At(k) # {}
         THEN LET m == CHOOSE m \in At(k) : TRUE
              IN  MovedTo(k, task.src, m.from, m.pages)
         ELSE mem_index[k]]

(* start_rollback and delete_garbage_file. A destination that no chunk was  *)
(* committed to is left as it is.                                           *)
StartRollback ==
  /\ StepIn("rollback")
  /\ mem_index' = RevertedIndex
  /\ LET next == [task EXCEPT !.committed = {}, !.migrated = {}] IN
     \/ /\ task.dest_offset > 1
        /\ task' = [next EXCEPT !.state = "closing", !.io_pending = TRUE]
        /\ files' = [files EXCEPT ![Dest].state = "deleted"]
        /\ file_metadata' = [file_metadata EXCEPT ![task.dest] = "deleted"]
     \/ /\ task.dest_offset = 1
        /\ task' = [next EXCEPT !.state = "rollback_mark_sealed"]
        /\ UNCHANGED <<files, file_metadata>>
  /\ UNCHANGED <<disk, requestVars>>

RollbackMarkSealed ==
  /\ StepIn("rollback_mark_sealed")
  /\ SubmitIo
  /\ files' = [files EXCEPT ![Src].state = "sealed"]
  /\ file_metadata' = [file_metadata EXCEPT ![task.src] = "sealed"]
  /\ UNCHANGED <<dataVars, requestVars>>

-----------------------------------------------------------------------------
(* Completions of the IOs of the task *)

IoPendingIn(state) ==
  /\ BetweenHandlers
  /\ task # NoTask
  /\ task.state = state
  /\ task.io_pending

CompleteTo(state) ==
  task' = [task EXCEPT !.io_pending = FALSE, !.state = state]

(* The new state of the source is in its header. IOs to a file whose blob   *)
(* is closed fail at once.                                                  *)
HeaderWritten ==
  /\ \/ /\ IoPendingIn("mark_compacting")
        /\ files[Src].blob_opened
        /\ CompleteTo("read_chunk")
     \/ /\ IoPendingIn("mark_deleted")
        /\ task' = [task EXCEPT !.io_pending = FALSE, !.state = "done",
                                !.migrated = {}, !.committed = {}]
  /\ UNCHANGED <<files, file_metadata, dataVars, requestVars>>

(* The last write of a rollback; its status is not looked at.               *)
SealedWritten ==
  /\ IoPendingIn("rollback_mark_sealed")
  /\ CompleteTo("failed")
  /\ UNCHANGED <<files, file_metadata, dataVars, requestVars>>

(* validate_entry: a record that lies in the chunk from end to end and has  *)
(* its header at the start of a page. put_async has it at byte 256.         *)
InChunk(d) ==
  /\ d.kind = "delete" \/ d.key \notin SegmentKeys
  /\ d.file = task.src
  /\ task.current_offset <= d.offset
  /\ d.offset + d.pages <= task.current_offset + task.bytes_read

(* The read buffer has the durable records, and those of any of the writes  *)
(* in flight that the device has got to.                                    *)
ChunkRead ==
  /\ IoPendingIn("read_chunk")
  /\ files[Src].blob_opened
  /\ task.current_offset + task.bytes_read <= FilePages
  /\ \E landed \in SUBSET { w \in inflight : InChunk(w) } :
       task' = [task EXCEPT
                  !.io_pending = FALSE, !.state = "process_entries",
                  !.chunk = landed \cup { d \in disk : InChunk(d) }]
  /\ UNCHANGED <<files, file_metadata, dataVars, requestVars>>

Copy(m) == [seq |-> m.seq, key |-> m.key, kind |-> "put", pages |-> m.pages,
            file |-> task.dest, offset |-> m.to]

ChunkWritten ==
  /\ IoPendingIn("write_chunk")
  /\ task.dest_offset + Used <= FilePages
  /\ LET copies == { Copy(m) : m \in task.migrated } IN
       disk' = { d \in disk : \A w \in copies : ~Overlap(d, w) } \cup copies
  /\ task' = [task EXCEPT !.io_pending = FALSE, !.state = "update_indices",
                          !.retry_count = 0]
  /\ UNCHANGED <<files, file_metadata, mem_index, requestVars>>

(* handle_io_error without the count of the attempts.                       *)
HandleIoErrorForever(retryable) ==
  task' = IF retryable
          THEN [task EXCEPT !.io_pending = FALSE, !.state = "retry_wait",
                            !.retry_target = task.state]
          ELSE [task EXCEPT !.io_pending = FALSE, !.state = "rollback"]

(* handle_io_error. -EAGAIN, -EBUSY and -ENOMEM are retryable.              *)
HandleIoError(retryable) ==
  LET counted == [task EXCEPT !.io_pending = FALSE, !.retry_count = @ + 1] IN
  task' = IF retryable /\ counted.retry_count < MaxRetryCount
          THEN [counted EXCEPT !.state = "retry_wait",
                               !.retry_target = task.state]
          ELSE [counted EXCEPT !.state = "rollback"]

IoFailed ==
  /\ \E state \in {"mark_compacting", "read_chunk", "write_chunk",
                   "mark_deleted"} : IoPendingIn(state)
  /\ \E retryable \in BOOLEAN : HandleIoError(retryable)
  /\ UNCHANGED <<files, file_metadata, dataVars, requestVars>>

(* The callback of close_blob_for_file: the blob counts as closed whatever  *)
(* the status; with an error it is not deleted.                             *)
DestClosed ==
  /\ IoPendingIn("closing")
  /\ files' = [files EXCEPT ![Dest].blob_opened = FALSE]
  /\ \/ Goto("deleting")
     \/ CompleteTo("rollback_mark_sealed")
  /\ UNCHANGED <<file_metadata, dataVars, requestVars>>

(* The callback of delete_blob in on_compaction_blob_closed. The FileInfo   *)
(* stays in files_; its metadata goes even when the blob is still there.    *)
DestDeleted ==
  /\ IoPendingIn("deleting")
  /\ CompleteTo("rollback_mark_sealed")
  /\ file_metadata' = [f \in DOMAIN file_metadata \ {task.dest} |->
                         file_metadata[f]]
  /\ \/ disk' = { d \in disk : d.file # task.dest }
     \/ UNCHANGED disk
  /\ UNCHANGED <<files, mem_index, requestVars>>

-----------------------------------------------------------------------------
(* The request path next to a compaction *)

(* The actions of WritePath. A put stands for a put_async or for a write of *)
(* the wait queue of put_buffered, which takes the same path                *)
(* (process_wait_queue).                                                    *)
RequestPath ==
  /\ \/ ~InAllocation /\ Calls
     \/ SubmitQueuedWrite
     \/ Completion
  /\ Cardinality(reads') <= MaxReads
  /\ HandsOver
  /\ UNCHANGED compactionVars

(* on_new_file_allocated(true) enters its file in file_metadata_.           *)
AllocatedForWrites ==
  /\ LastFileAllocated
  /\ file_metadata' = WithState(LastFile.file_id, LastFile.state)
  /\ UNCHANGED <<task, pending_tasks, compaction_paused>>

AllocationGoesOn ==
  /\ OwnBlobOpened \/ LastFileDropped
  /\ UNCHANGED compactionVars

-----------------------------------------------------------------------------
TaskStep == \/ InitTask \/ MarkCompacting \/ ReadNextChunk \/ ProcessEntries
            \/ WriteChunk \/ UpdateIndices \/ Finalize \/ MarkDeleted
            \/ CheckRetryTimeout \/ StartRollback \/ RollbackMarkSealed
            \/ TaskOver

TaskIo == \/ DestAllocated \/ DestNotAllocated
          \/ HeaderWritten \/ SealedWritten \/ ChunkRead \/ ChunkWritten
          \/ IoFailed \/ DestClosed \/ DestDeleted

CompactionNext ==
  \/ RequestPath
  \/ AllocationGoesOn \/ AllocatedForWrites
  \/ \E i \in DOMAIN files : ScheduleCompaction(files[i].file_id)
  \/ PriorityControl \/ TaskStep \/ TaskIo

CompactionSpec == CompactionInit /\ [][CompactionNext]_allVars

(* The application polls and the device answers: the polls, the IOs of the  *)
(* task, and the allocation with the queue it drains all go on.             *)
CompactionFairness ==
  /\ WF_allVars(PriorityControl \/ TaskStep)
  /\ WF_allVars(TaskIo)
  /\ WF_allVars(\/ AllocationGoesOn \/ AllocatedForWrites
                \/ SubmitQueuedWrite /\ RequestPath)

CompactionFairSpec == CompactionSpec /\ CompactionFairness

-----------------------------------------------------------------------------
(* Properties *)

(* Types: the task, its lists and buffers, and the states of files.         *)
CompactionTypeOK ==
  /\ TypeOK
  /\ task \in Task \cup {NoTask}
  /\ task # NoTask => /\ Used <= ChunkPages
                      /\ task.retry_count <= MaxRetryCount
  /\ pending_tasks \in Seq(Nat)
  /\ compaction_paused \in BOOLEAN
  /\ DOMAIN file_metadata \subseteq Nat
  /\ \A f \in DOMAIN file_metadata : file_metadata[f] \in FileStates
  /\ alloc_file \in Nat

(* No live entry points into a destination that a rollback has given up:    *)
(* start_rollback takes every migration back before the blob goes, also     *)
(* those of chunks committed long ago and of keys put or deleted since.     *)
NoEntryInRemovedFile ==
  \A k \in Keys : Find(k) =>
    files[IndexOfFile(mem_index[k].file)].state # "deleted"

(* A read in flight finds its record where the index said it was, unless    *)
(* that was in the destination of a compaction that has failed since: a     *)
(* compaction that succeeds never takes a file away from a reader.          *)
ReadsMissOnlyRemoved ==
  \A r \in reads :
    \/ \E d \in disk :
         /\ d.kind = "put"
         /\ <<d.key, d.seq, d.file, d.offset, d.pages>>
              = <<r.key, r.seq, r.file, r.offset, r.pages>>
    \/ files[IndexOfFile(r.file)].state = "deleted"

(* With a load that stays low every task ends, however the device fails:    *)
(* retries run out and rollbacks finish.                                    *)
CompactionEnds ==
  <>[](Foreground <= ResumeThreshold) => []<>(task = NoTask)
=============================================================================
