------------------------------ MODULE WritePath ------------------------------
(***************************************************************************)
(* The asynchronous write and read path of Engine (src/src/engine.cpp):    *)
(* put_async, delete_async, get_async, the completion handlers of their    *)
(* IOs, and allocate_new_file_async, which gives the engine its next       *)
(* active data file while writes wait in pending_write_queue_.             *)
(*                                                                         *)
(* The engine runs on one polling thread: a handler runs to its end before *)
(* another starts, so a handler is one action. What interleaves is the     *)
(* order in which the device completes IOs and blob operations.            *)
(*                                                                         *)
(* Sizes and offsets are counted in pages; page 0 of a file holds its      *)
(* DataFileHeader. A record is identified by its sequence number, which    *)
(* stands for its value.                                                   *)
(***************************************************************************)
EXTENDS Integers, Sequences, FiniteSets

CONSTANTS
  Keys,          (* user keys                                               *)
  PutPages,      (* possible sizes of a put record, in pages                *)
  FilePages,     (* config_.data_file_size, in pages: the size of a blob    *)
  MaxSequence,   (* bound on global_sequence_: the requests of a behaviour  *)
  NearFull,      (* the answers AllocLogManager::is_near_full() may give    *)
  NoEntry        (* a slot of the index that holds no entry for the key     *)

ASSUME PathAssumption ==
  /\ PutPages \subseteq Nat \ {0}
  /\ FilePages \in Nat \ {0}
  /\ MaxSequence \in Nat
  /\ NearFull \subseteq BOOLEAN

VARIABLES
  files,               (* files_: the FileInfo vector, in order of creation *)
  next_file_id,        (* next_file_id_                                     *)
  active_file_id,      (* active_file_id_                                   *)
  allocating_new_file, (* allocating_new_file_                              *)
  alloc_stage,         (* what the allocation in progress waits for         *)
  pending_write_queue, (* pending_write_queue_: writes waiting for a file   *)
  draining,            (* the local `queue' of process_pending_write_queue  *)
  inflight,            (* writes submitted to a blob and not completed      *)
  disk,                (* records that are durable in a blob                *)
  mem_index,           (* mem_index_, as a map                              *)
  global_sequence,     (* MemIndex::global_sequence_                        *)
  reads,               (* get_async reads in flight                         *)
  replies              (* the callbacks each request has received           *)

vars == <<files, next_file_id, active_file_id, allocating_new_file,
          alloc_stage, pending_write_queue, draining, inflight, disk,
          mem_index, global_sequence, reads, replies>>

fileVars  == <<files, next_file_id, active_file_id>>
allocVars == <<allocating_new_file, alloc_stage>>
queueVars == <<pending_write_queue, draining>>
dataVars  == <<disk, mem_index>>

-----------------------------------------------------------------------------
(* Types *)

Kinds == {"put", "delete"}

(* 32-bit in the code; a behaviour stays below MaxSequence < 2^31, where    *)
(* sequence_newer is the order of the integers.                             *)
Sequence == 1 .. MaxSequence

Statuses == {"ok", "io_error", "no_space", "internal_error"}

FileStates == {"active", "sealed", "compacting", "deleted"}

(* FileInfo. `blob' is set and `blob_opened' true from opening on.          *)
FileInfo == [file_id : Nat, state : FileStates,
             write_offset : Nat, blob_opened : BOOLEAN]

(* PendingWriteRequest *)
Request == [seq : Sequence, key : Keys, kind : Kinds, pages : Nat \ {0}]

(* A write and the place it was submitted to.                               *)
Write == [seq : Sequence, key : Keys, kind : Kinds, pages : Nat \ {0},
          file : Nat, offset : Nat]

(* MemIndexEntry *)
Entry == [file : Nat, offset : Nat, pages : Nat \ {0}, seq : Sequence,
          deleted : BOOLEAN]

ASSUME NoEntryAssumption == NoEntry \notin Entry

(* GetReadCompletionCtx: what get_async read from the index at submission.  *)
Read == [key : Keys, file : Nat, offset : Nat, pages : Nat \ {0},
         seq : Sequence]

-----------------------------------------------------------------------------
(* Files *)

NewFile(id) == [file_id |-> id, state |-> "active", write_offset |-> 1,
                blob_opened |-> FALSE]

HasFile(id) == \E i \in DOMAIN files : files[i].file_id = id

(* get_file: the first FileInfo with this id.                               *)
IndexOfFile(id) ==
  CHOOSE i \in DOMAIN files :
    /\ files[i].file_id = id
    /\ \A j \in 1 .. i - 1 : files[j].file_id # id

Active == IndexOfFile(active_file_id)

(* The condition under which put_async and delete_async seal the active     *)
(* file and ask for a new one.                                              *)
NeedNewFile(pages) ==
  HasFile(active_file_id) => \/ ~files[Active].blob_opened
                             \/ files[Active].write_offset + pages > FilePages

(* files_ after `if (file) file->state = kSealed'.                          *)
SealActive == IF HasFile(active_file_id)
              THEN [files EXCEPT ![Active].state = "sealed"]
              ELSE files

(* files_ after a write of this many pages has been given its place.        *)
Advance(pages) == [files EXCEPT ![Active].write_offset = @ + pages]

Overlap(w, v) == /\ w.file = v.file
                 /\ w.offset < v.offset + v.pages
                 /\ v.offset < w.offset + w.pages

-----------------------------------------------------------------------------
(* Index: MemIndex as the map it implements *)

Find(k) == /\ mem_index[k] # NoEntry
           /\ ~mem_index[k].deleted

(* The entry built after write_offset was advanced.                         *)
EntryAfterAdvance(w) ==
  [file |-> w.file, offset |-> w.offset + w.pages, pages |-> w.pages,
   seq |-> w.seq, deleted |-> FALSE]

EntryOf(w) == [file |-> w.file, offset |-> w.offset, pages |-> w.pages,
               seq |-> w.seq, deleted |-> FALSE]

(* upsert without its sequence comparison: the last completion wins.        *)
UpsertAlways(w) == [mem_index EXCEPT ![w.key] = EntryOf(w)]

(* upsert: an entry, deleted or not, is only replaced by a newer sequence.  *)
Upsert(w) ==
  IF mem_index[w.key] # NoEntry /\ w.seq <= mem_index[w.key].seq
  THEN mem_index
  ELSE [mem_index EXCEPT ![w.key] = EntryOf(w)]

(* remove that forgets the entry and with it the sequence.                  *)
RemoveEntry(k) == [mem_index EXCEPT ![k] = NoEntry]

(* remove: mark the live entry deleted; its sequence stays.                 *)
Remove(k) ==
  IF Find(k) THEN [mem_index EXCEPT ![k].deleted = TRUE] ELSE mem_index

-----------------------------------------------------------------------------
(* Callbacks *)

Reply(s, status) == [replies EXCEPT ![s] = Append(@, status)]

SequencesOf(queue) == { queue[i].seq : i \in DOMAIN queue }

(* The waiting writes are forgotten without a callback.                     *)
ReplyNone(queue, status) == replies

(* The callback of every request of the queue runs with status.             *)
ReplyAll(queue, status) ==
  [s \in Sequence |-> IF s \in SequencesOf(queue)
                      THEN Append(replies[s], status) ELSE replies[s]]

-----------------------------------------------------------------------------
Init ==
  /\ files = <<[NewFile(0) EXCEPT !.blob_opened = TRUE]>>
  /\ next_file_id = 1
  /\ active_file_id = 0
  /\ allocating_new_file = FALSE
  /\ alloc_stage = "none"
  /\ pending_write_queue = <<>>
  /\ draining = <<>>
  /\ inflight = {}
  /\ disk = {}
  /\ mem_index = [k \in Keys |-> NoEntry]
  /\ global_sequence = 0
  /\ reads = {}
  /\ replies = [s \in Sequence |-> <<>>]

(* The thread is not inside the loop of process_pending_write_queue.        *)
BetweenHandlers == draining = <<>>

-----------------------------------------------------------------------------
(* Allocation of a data file *)

(* The end of an allocation that leaves allocating_new_file_ set.           *)
AllocationOverStillSet ==
  /\ alloc_stage' = "none"
  /\ UNCHANGED allocating_new_file

AllocationOver ==
  /\ alloc_stage' = "none"
  /\ allocating_new_file' = FALSE

(* The rollback of a failed allocation, made once too often.                *)
DropLastFileTwice ==
  /\ files' = SubSeq(files, 1, Len(files) - 1)
  /\ next_file_id' = next_file_id - 2

(* files_.pop_back(); next_file_id_--.                                      *)
DropLastFile ==
  /\ files' = SubSeq(files, 1, Len(files) - 1)
  /\ next_file_id' = next_file_id - 1

(* allocate_new_file_async, called with the vector fs and the queue of the  *)
(* waiting writes. The FileInfo is pushed at once; its blob is allocated,   *)
(* logged, opened and given its header later.                               *)
(* A near-full AllocLog starts a checkpoint first. No index segment is ever *)
(* marked dirty, so the checkpoint completes inside the call and without    *)
(* the superblock update that reclaims the log. When                        *)
(* resume_allocation_after_checkpoint(0) comes here again the log is still  *)
(* near full, the second checkpoint is refused because the first one is not *)
(* back in kIdle, and resume_allocation_after_checkpoint(-1) fails every    *)
(* waiting write.                                                           *)
AllocateNewFileAsync(fs, queue) ==
  \/ /\ FALSE \in NearFull
     /\ allocating_new_file' = TRUE
     /\ alloc_stage' = "blob"
     /\ files' = Append(fs, NewFile(next_file_id))
     /\ next_file_id' = next_file_id + 1
     /\ pending_write_queue' = queue
     /\ UNCHANGED replies
  \/ /\ TRUE \in NearFull
     /\ files' = fs
     /\ pending_write_queue' = <<>>
     /\ replies' = ReplyAll(queue, "internal_error")
     /\ UNCHANGED <<next_file_id, allocVars>>

(* handle_blob_opened_for_file: blob_opened is set before the header write. *)
BlobOpened ==
  /\ BetweenHandlers
  /\ alloc_stage = "blob"
  /\ alloc_stage' = "header"
  /\ files' = [files EXCEPT ![Len(files)].blob_opened = TRUE]
  /\ UNCHANGED <<next_file_id, active_file_id, allocating_new_file, queueVars,
                 inflight, dataVars, global_sequence, reads, replies>>

(* on_new_file_allocated(true): the last file becomes the active one and    *)
(* process_pending_write_queue starts on the queue.                         *)
NewFileAllocated ==
  /\ BetweenHandlers
  /\ alloc_stage = "header"
  /\ AllocationOver
  /\ active_file_id' = files[Len(files)].file_id
  /\ draining' = pending_write_queue
  /\ pending_write_queue' = <<>>
  /\ UNCHANGED <<files, next_file_id, inflight, dataVars, global_sequence,
                 reads, replies>>

(* on_new_file_allocated(false): creation, AllocLog write, opening or the   *)
(* header write failed. The last file is dropped and every waiting write    *)
(* fails. The active file keeps the state kSealed it was given.             *)
NewFileFailed ==
  /\ BetweenHandlers
  /\ alloc_stage \in {"blob", "header"}
  /\ AllocationOver
  /\ DropLastFile
  /\ replies' = ReplyAll(pending_write_queue, "no_space")
  /\ pending_write_queue' = <<>>
  /\ UNCHANGED <<active_file_id, draining, inflight, dataVars,
                 global_sequence, reads>>

-----------------------------------------------------------------------------
(* Submission of writes *)

(* A write placed at the end of the active file.                            *)
Placed(r) == [seq |-> r.seq, key |-> r.key, kind |-> r.kind,
              pages |-> r.pages, file |-> active_file_id,
              offset |-> files[Active].write_offset]

(* Submission that leaves the write offset to the completion handler.       *)
SubmitWithoutAdvance(r) ==
  /\ inflight' = inflight \cup {Placed(r)}
  /\ UNCHANGED <<files, replies>>

(* The offset is advanced at submission. SPDK refuses a write past the end  *)
(* of the blob at once; its callback then runs inside the submission.       *)
Submit(r) ==
  LET w == Placed(r) IN
  /\ files' = Advance(r.pages)
  /\ \/ /\ w.offset + w.pages <= FilePages
        /\ inflight' = inflight \cup {w}
        /\ UNCHANGED replies
     \/ /\ w.offset + w.pages > FilePages
        /\ replies' = Reply(w.seq, "io_error")
        /\ UNCHANGED inflight

(* The common part of put_async and delete_async, from the allocation of    *)
(* the sequence number on.                                                  *)
Accept(r) ==
  /\ global_sequence' = r.seq
  /\ \/ /\ ~NeedNewFile(r.pages)
        /\ ~allocating_new_file
        /\ Submit(r)
        /\ UNCHANGED <<next_file_id, allocVars, pending_write_queue>>
     \/ /\ allocating_new_file
        /\ pending_write_queue' = Append(pending_write_queue, r)
        /\ UNCHANGED <<files, next_file_id, allocVars, inflight, replies>>
     \/ /\ NeedNewFile(r.pages)
        /\ ~allocating_new_file
        /\ AllocateNewFileAsync(SealActive, Append(pending_write_queue, r))
        /\ UNCHANGED inflight
  /\ UNCHANGED <<active_file_id, draining, dataVars, reads>>

PutAsync(k, pages) ==
  /\ BetweenHandlers
  /\ global_sequence < MaxSequence
  /\ Accept([seq |-> global_sequence + 1, key |-> k, kind |-> "put",
             pages |-> pages])

(* delete_async answers kKeyNotFound without a step when Find(k) is false.  *)
DeleteAsync(k) ==
  /\ BetweenHandlers
  /\ global_sequence < MaxSequence
  /\ Find(k)
  /\ Accept([seq |-> global_sequence + 1, key |-> k, kind |-> "delete",
             pages |-> 1])

(* One iteration of the loop of process_pending_write_queue:                *)
(* submit_queued_write, with no test that the record still fits the file.   *)
(* The loop runs inside on_new_file_allocated: while draining is not empty  *)
(* no other action is enabled.                                              *)
SubmitQueuedWrite ==
  /\ draining # <<>>
  /\ draining' = Tail(draining)
  /\ Submit(Head(draining))
  /\ UNCHANGED <<next_file_id, active_file_id, allocVars, pending_write_queue,
                 dataVars, global_sequence, reads>>

-----------------------------------------------------------------------------
(* Completions *)

(* on_put_async_write_complete, the completion of delete_async and          *)
(* on_queued_write_complete, with status 0.                                 *)
WriteComplete(w) ==
  /\ BetweenHandlers
  /\ w \in inflight
  /\ inflight' = inflight \ {w}
  /\ disk' = { d \in disk : ~Overlap(d, w) } \cup {w}
  /\ mem_index' = IF w.kind = "put" THEN Upsert(w) ELSE Remove(w.key)
  /\ replies' = Reply(w.seq, "ok")
  /\ UNCHANGED <<fileVars, allocVars, queueVars, global_sequence, reads>>

(* The same handlers with an error status: the index is left alone. What    *)
(* was in the pages of the write is gone.                                   *)
WriteFailed(w) ==
  /\ BetweenHandlers
  /\ w \in inflight
  /\ inflight' = inflight \ {w}
  /\ disk' = { d \in disk : ~Overlap(d, w) }
  /\ replies' = Reply(w.seq, "io_error")
  /\ UNCHANGED <<fileVars, allocVars, queueVars, mem_index, global_sequence,
                 reads>>

-----------------------------------------------------------------------------
(* Reads *)

(* get_async: the place is read from the index now and used when the device *)
(* gets to it. The other exits of get_async change no state.                *)
GetAsync(k) ==
  /\ BetweenHandlers
  /\ Find(k)
  /\ HasFile(mem_index[k].file)
  /\ files[IndexOfFile(mem_index[k].file)].blob_opened
  /\ reads' = reads \cup
       {[key |-> k, file |-> mem_index[k].file, pages |-> mem_index[k].pages,
         offset |-> mem_index[k].offset, seq |-> mem_index[k].seq]}
  /\ UNCHANGED <<fileVars, allocVars, queueVars, inflight, dataVars,
                 global_sequence, replies>>

(* handle_get_read_completion.                                              *)
GetComplete(r) ==
  /\ BetweenHandlers
  /\ r \in reads
  /\ reads' = reads \ {r}
  /\ UNCHANGED <<fileVars, allocVars, queueVars, inflight, dataVars,
                 global_sequence, replies>>

-----------------------------------------------------------------------------
Allocation == \/ BlobOpened
              \/ NewFileAllocated
              \/ NewFileFailed

Completion == \/ \E w \in inflight : WriteComplete(w) \/ WriteFailed(w)
              \/ \E r \in reads : GetComplete(r)

Calls == \E k \in Keys : \/ \E n \in PutPages : PutAsync(k, n)
                         \/ DeleteAsync(k)
                         \/ GetAsync(k)

Next == Allocation \/ SubmitQueuedWrite \/ Completion \/ Calls

Spec == Init /\ [][Next]_vars

(* The application calls poll() for as long as it has requests out, and the *)
(* device answers every IO: completions and the loop keep going. Nothing    *)
(* makes the application issue a request.                                   *)
Fairness == /\ WF_vars(Allocation)
            /\ WF_vars(SubmitQueuedWrite)
            /\ \A s \in Sequence :
                 WF_vars(\E w \in inflight :
                           w.seq = s /\ (WriteComplete(w) \/ WriteFailed(w)))

FairSpec == Spec /\ Fairness

-----------------------------------------------------------------------------
(* Properties *)

TypeOK ==
  /\ files \in Seq(FileInfo)
  /\ next_file_id \in Nat
  /\ active_file_id \in Nat
  /\ allocating_new_file \in BOOLEAN
  /\ alloc_stage \in {"none", "blob", "header"}
  /\ pending_write_queue \in Seq(Request)
  /\ draining \in Seq(Request)
  /\ inflight \subseteq Write
  /\ disk \subseteq Write
  /\ mem_index \in [Keys -> Entry \cup {NoEntry}]
  /\ global_sequence \in 0 .. MaxSequence
  /\ reads \subseteq Read
  /\ replies \in [Sequence -> Seq(Statuses)]

(* No write is ever placed over another one, durable or in flight: put_async, *)
(* delete_async and submit_queued_write take disjoint pages whatever the      *)
(* order in which their IOs complete and new files come and go.               *)
NoOverlap ==
  \A w, v \in inflight \cup disk : w # v => ~Overlap(w, v)

(* An index entry that find returns points at the durable put record it was *)
(* made from, in a file get_file finds and get_async can read.              *)
IndexPointsAtRecord ==
  \A k \in Keys : Find(k) =>
    /\ \E d \in disk :
         /\ d.kind = "put"
         /\ d.key = k
         /\ <<d.seq, d.file, d.offset, d.pages>>
              = <<mem_index[k].seq, mem_index[k].file, mem_index[k].offset,
                  mem_index[k].pages>>
    /\ HasFile(mem_index[k].file)
    /\ files[IndexOfFile(mem_index[k].file)].blob_opened

(* A read in flight finds the record of its key where the index said it was, *)
(* although writes, deletes and file allocations go on under it.             *)
ReadsFindTheirRecord ==
  \A r \in reads : \E d \in disk :
    /\ d.kind = "put"
    /\ <<d.key, d.seq, d.file, d.offset, d.pages>>
         = <<r.key, r.seq, r.file, r.offset, r.pages>>

(* Where a request is while its callback has not run.                       *)
Outstanding(s) ==
  \/ s \in SequencesOf(pending_write_queue)
  \/ s \in SequencesOf(draining)
  \/ \E w \in inflight : w.seq = s

(* Every accepted request is either still held by exactly one of the        *)
(* engine's queues or has had its callback called exactly once: none is     *)
(* dropped or answered twice when an allocation fails or is refused, or the *)
(* queue moves to a new file.                                               *)
OneReplyEach ==
  \A s \in Sequence :
    Len(replies[s]) = IF s <= global_sequence /\ ~Outstanding(s) THEN 1 ELSE 0

(* For a key no delete has touched, the index holds the newest durable put, *)
(* although completions arrive in any order (docs/part5.md, 5.4).           *)
NewestPutWins ==
  \A k \in Keys :
    (\A d \in disk : d.key = k => d.kind = "put")
      => \A d \in disk : d.key = k =>
           mem_index[k] # NoEntry /\ mem_index[k].seq >= d.seq

(* The index agrees with what a restart that reads the records of the data  *)
(* files back in the order of their sequence numbers would build: the       *)
(* requirement document asks that the order in which callbacks run make no  *)
(* difference to a reload.                                                  *)
IndexAgreesWithReload ==
  \A d \in disk :
    (\A e \in disk : e.key = d.key => e.seq <= d.seq) =>
      IF d.kind = "delete"
      THEN ~Find(d.key)
      ELSE Find(d.key) /\ mem_index[d.key].seq = d.seq

(* The sequence number of the record the device holds at a place.           *)
ValueAt(e) == (CHOOSE d \in disk : d.file = e.file /\ d.offset = e.offset).seq

Bare(r) == [seq |-> r.seq, key |-> r.key, kind |-> r.kind]

Bares(queue) == { Bare(queue[i]) : i \in DOMAIN queue }

OpenRequests == Bares(pending_write_queue) \cup Bares(draining)
                \cup { Bare(w) : w \in inflight }

StoredValues == [k \in Keys |-> IF mem_index[k] = NoEntry THEN 0
                               ELSE ValueAt(mem_index[k])]

LiveKeys == { k \in Keys : Find(k) }

ReadsUnderWay == { [key |-> r.key, value |-> ValueAt(r)] : r \in reads }

Answers ==
  [s \in Sequence |-> IF replies[s] = <<>> THEN "none"
                      ELSE IF Len(replies[s]) > 1 THEN "twice"
                      ELSE IF replies[s][1] = "ok" THEN "ok" ELSE "failed"]

Store == INSTANCE KVStore
           WITH issued <- global_sequence,
                open <- OpenRequests,
                newest <- StoredValues,
                live <- LiveKeys,
                reads <- ReadsUnderWay,
                answers <- Answers

(* Seen from the application the engine is a store of key-value pairs: the  *)
(* values are what the device holds where the index and the reads in flight *)
(* point, and files, queues and allocations only show as failed requests    *)
(* (put_async, delete_async, get_async and their completions).              *)
ImplementsStore == Store!Spec

(* Every request that was given a sequence number is answered.              *)
EveryRequestAnswered ==
  \A s \in Sequence : global_sequence >= s ~> replies[s] # <<>>
=============================================================================
