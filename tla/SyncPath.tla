------------------------------ MODULE SyncPath ------------------------------
(***************************************************************************)
(* The synchronous requests of Engine (src/src/engine.cpp), put, get and   *)
(* del, next to the asynchronous ones of WritePath. A synchronous request  *)
(* holds the thread from its call to its return, but it waits by polling   *)
(* the device: completions of every other IO, of blob operations and of an *)
(* asynchronous allocation, with the callbacks of the application, run     *)
(* inside it. It keeps a pointer to its file and the offset it read before.*)
(***************************************************************************)
EXTENDS FileAllocation

CONSTANTS
  NoCall,           (* the thread is in no synchronous request              *)
  SerialAllocation, (* TRUE: the application makes no synchronous request   *)
                    (* that needs a file while one is allocated for waiting *)
                    (* writes                                               *)
  CallbackCalls     (* TRUE: the callbacks of the application issue further *)
                    (* asynchronous requests                                *)

ASSUME SyncAssumption ==
  /\ SerialAllocation \in BOOLEAN
  /\ CallbackCalls \in BOOLEAN

VARIABLE
  sync   (* the locals of the synchronous request the thread is in          *)

syncVars == <<vars, alloc_file, sync>>

(* What the request waits for, or has been told when its loop ends.         *)
Stages == {"blob", "header", "allocated", "no_file",
           "write", "written", "unwritten", "read"}

Call == [kind : Kinds \cup {"get"}, key : Keys, pages : Nat \ {0},
         stage : Stages, file : Nat, offset : Nat, seq : 0 .. MaxSequence]

ASSUME NoCallAssumption == NoCall \notin Call

SyncInit ==
  /\ Init
  /\ alloc_file = 0
  /\ sync = NoCall

In(stage) == /\ BetweenHandlers
             /\ sync # NoCall
             /\ sync.stage = stage

Goto(stage) == sync' = [sync EXCEPT !.stage = stage]

-----------------------------------------------------------------------------
(* The call, up to its first loop *)

(* The sequence number is taken and the record goes to the end of the file  *)
(* call.file; write_offset stays behind until the write is done.            *)
SubmitSync(call) ==
  /\ global_sequence' = global_sequence + 1
  /\ sync' = [call EXCEPT !.stage = "write", !.seq = global_sequence + 1,
                          !.offset = files[IndexOfFile(call.file)].write_offset]

CallOf(kind, k, pages, stage, file) ==
  [kind |-> kind, key |-> k, pages |-> pages, stage |-> stage, file |-> file,
   offset |-> 0, seq |-> 0]

(* put, or del of a key that is there. allocating_new_file_ is not looked   *)
(* at: waiting writes are overtaken.                                        *)
CallWrite(kind, k, pages) ==
  /\ BetweenHandlers
  /\ sync = NoCall
  /\ global_sequence < MaxSequence
  /\ kind = "delete" => Find(k)
  /\ \/ /\ ~NeedNewFile(pages)
        /\ SubmitSync(CallOf(kind, k, pages, "write", active_file_id))
        /\ UNCHANGED fileVars
     \/ /\ NeedNewFile(pages)
        /\ SerialAllocation => ~allocating_new_file
        /\ PushFile(SealActive)
        /\ sync' = CallOf(kind, k, pages, "blob", next_file_id)
        /\ UNCHANGED <<active_file_id, global_sequence>>
  /\ UNCHANGED <<allocVars, queueVars, inflight, dataVars, reads, replies,
                 alloc_file>>

(* get: the place is read from the index and used when the device gets to   *)
(* it.                                                                      *)
CallGet(k) ==
  /\ BetweenHandlers
  /\ sync = NoCall
  /\ Find(k)
  /\ HasFile(mem_index[k].file)
  /\ files[IndexOfFile(mem_index[k].file)].blob_opened
  /\ sync' = [kind |-> "get", key |-> k, pages |-> mem_index[k].pages,
              stage |-> "read", file |-> mem_index[k].file,
              offset |-> mem_index[k].offset, seq |-> mem_index[k].seq]
  /\ UNCHANGED <<vars, alloc_file>>

-----------------------------------------------------------------------------
(* The loop of allocate_new_file *)

SyncBlobOpened ==
  /\ In("blob")
  /\ Goto("header")
  /\ BlobOpenedFor(sync.file)
  /\ UNCHANGED <<next_file_id, pathVars, alloc_file>>

SyncHeaderWritten ==
  /\ In("header")
  /\ Goto("allocated")
  /\ UNCHANGED <<vars, alloc_file>>

(* A failed allocation that is simply started again.                        *)
SyncAllocationRetried ==
  /\ In("blob") \/ In("header")
  /\ Goto("blob")
  /\ UNCHANGED <<vars, alloc_file>>

(* Creation, AllocLog write, opening or the header write failed.            *)
SyncAllocationFailed ==
  /\ In("blob") \/ In("header")
  /\ Goto("no_file")
  /\ UNCHANGED <<vars, alloc_file>>

(* put and del go on with the file they were given.                         *)
SyncGoesOn ==
  /\ In("allocated")
  /\ global_sequence < MaxSequence
  /\ active_file_id' = sync.file
  /\ SubmitSync(sync)
  /\ UNCHANGED <<files, next_file_id, allocVars, queueVars, inflight, dataVars,
                 reads, replies, alloc_file>>

(* put and del return kNoSpace. When the last FileInfo is the one of an     *)
(* asynchronous allocation that one dangles; not modelled further.          *)
SyncNoFile ==
  /\ In("no_file")
  /\ LastFile.file_id = sync.file
  /\ DropLastFile
  /\ sync' = NoCall
  /\ UNCHANGED <<pathVars, alloc_file>>

-----------------------------------------------------------------------------
(* The loop around the IO *)

SyncWrite == [seq |-> sync.seq, key |-> sync.key, kind |-> sync.kind,
              pages |-> sync.pages, file |-> sync.file, offset |-> sync.offset]

(* The write is durable; other completions of the same poll may run before  *)
(* the loop of put or del ends.                                             *)
SyncWritten ==
  /\ In("write")
  /\ sync.offset + sync.pages <= FilePages
  /\ Goto("written")
  /\ disk' = { d \in disk : ~Overlap(d, SyncWrite) } \cup {SyncWrite}
  /\ UNCHANGED <<fileVars, allocVars, queueVars, inflight, mem_index,
                 global_sequence, reads, replies, alloc_file>>

(* The write failed, or was refused as it goes past the end of the blob.    *)
SyncUnwritten ==
  /\ In("write")
  /\ Goto("unwritten")
  /\ disk' = { d \in disk : ~Overlap(d, SyncWrite) }
  /\ UNCHANGED <<fileVars, allocVars, queueVars, inflight, mem_index,
                 global_sequence, reads, replies, alloc_file>>

(* write_offset is never moved on.                                          *)
KeepOffset == UNCHANGED files

(* file->write_offset += aligned_size.                                      *)
AdvanceOwn ==
  files' = [files EXCEPT ![IndexOfFile(sync.file)].write_offset =
                           @ + sync.pages]

(* put and del return kSuccess. del removes its key from the index whatever *)
(* has become of it since the call.                                         *)
SyncReturns ==
  /\ In("written")
  /\ mem_index' = IF sync.kind = "put" THEN Upsert(SyncWrite)
                  ELSE Remove(sync.key)
  /\ AdvanceOwn
  /\ replies' = Reply(sync.seq, "ok")
  /\ sync' = NoCall
  /\ UNCHANGED <<next_file_id, active_file_id, allocVars, queueVars, inflight,
                 disk, global_sequence, reads, alloc_file>>

(* put and del return kIoError; the place is taken by the next write.       *)
SyncReturnsError ==
  /\ In("unwritten")
  /\ replies' = Reply(sync.seq, "io_error")
  /\ sync' = NoCall
  /\ UNCHANGED <<fileVars, allocVars, queueVars, inflight, dataVars,
                 global_sequence, reads, alloc_file>>

(* get returns, with the value or with kIoError.                            *)
SyncGetReturns ==
  /\ In("read")
  /\ sync' = NoCall
  /\ UNCHANGED <<vars, alloc_file>>

-----------------------------------------------------------------------------
(* The asynchronous requests, and their completions inside a loop *)

RequestPath ==
  /\ \/ Calls /\ (sync = NoCall \/ CallbackCalls)
     \/ SubmitQueuedWrite
     \/ Completion
  /\ HandsOver
  /\ UNCHANGED sync

AsyncAllocation ==
  /\ OwnBlobOpened \/ LastFileAllocated \/ LastFileDropped
  /\ UNCHANGED sync

SyncCalls == \E k \in Keys : \/ \E n \in PutPages : CallWrite("put", k, n)
                             \/ CallWrite("delete", k, 1)
                             \/ CallGet(k)

SyncProgress == \/ SyncBlobOpened \/ SyncHeaderWritten \/ SyncAllocationFailed
                \/ SyncGoesOn \/ SyncNoFile
                \/ SyncWritten \/ SyncUnwritten
                \/ SyncReturns \/ SyncReturnsError \/ SyncGetReturns

SyncNext == RequestPath \/ AsyncAllocation \/ SyncCalls \/ SyncProgress

SyncSpec == SyncInit /\ [][SyncNext]_syncVars

(* The request polls until it returns, and the device answers every IO.     *)
SyncFairness ==
  /\ WF_syncVars(SyncProgress)
  /\ WF_syncVars(SubmitQueuedWrite /\ RequestPath)

SyncFairSpec == SyncSpec /\ SyncFairness

-----------------------------------------------------------------------------
(* Properties *)

(* Types: what a synchronous call keeps while it polls.                      *)
SyncTypeOK ==
  /\ TypeOK
  /\ alloc_file \in Nat
  /\ sync \in Call \cup {NoCall}

SyncWrites == IF sync # NoCall /\ sync.stage = "write" THEN {SyncWrite} ELSE {}

(* No write is placed over another one although put and del leave the write *)
(* offset where it is until their IO is done, with asynchronous writes      *)
(* before, behind and in another file of the same poll.                     *)
SyncNoOverlap ==
  \A w, v \in inflight \cup disk \cup SyncWrites : w # v => ~Overlap(w, v)

(* get reads the record of its key, whatever completed inside its loop.     *)
SyncReadFindsItsRecord ==
  sync # NoCall /\ sync.stage = "read" =>
    \E d \in disk :
      /\ d.kind = "put"
      /\ <<d.key, d.seq, d.file, d.offset, d.pages>>
           = <<sync.key, sync.seq, sync.file, sync.offset, sync.pages>>

HeldBySync(s) == /\ sync # NoCall
                 /\ sync.stage \in {"write", "written", "unwritten"}
                 /\ sync.seq = s

(* Every request is answered once, by its callback or its return, also when *)
(* the failed allocation of a put or del and the callbacks of a failed      *)
(* asynchronous allocation fall into one poll.                              *)
EachAnsweredOnce ==
  \A s \in Sequence :
    Len(replies[s]) =
      IF s <= global_sequence /\ ~Outstanding(s) /\ ~HeldBySync(s)
      THEN 1 ELSE 0

(* The new file has an open blob when the waiting writes are sent to it:    *)
(* the other branch of process_pending_write_queue "should not happen".     *)
QueueFindsOpenFile ==
  [][(alloc_stage = "header" /\ alloc_stage' = "none"
        /\ active_file_id' # active_file_id)
       => files'[IndexOfFile(active_file_id)'].blob_opened]_syncVars

(* Every synchronous request returns, however the device fails and whatever *)
(* its callbacks do meanwhile: each of the loops of put, get and del ends.  *)
SyncCallReturns == []<>(sync = NoCall)
=============================================================================
