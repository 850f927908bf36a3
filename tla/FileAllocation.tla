--------------------------- MODULE FileAllocation ---------------------------
(***************************************************************************)
(* Two ways to a new data file in Engine (src/src/engine.cpp), and what    *)
(* they do to each other. allocate_new_file_async (WritePath) pushes a     *)
(* FileInfo and goes on when its blob is there; allocate_new_file pushes a *)
(* FileInfo and polls the device until its blob is there, so that the      *)
(* callbacks of the other one run inside. Both hold their FileInfo by      *)
(* pointer, and on_new_file_allocated takes the last one for its own.      *)
(*                                                                         *)
(* SyncPath and Compaction, the callers of allocate_new_file, extend this  *)
(* module.                                                                 *)
(***************************************************************************)
EXTENDS WritePath

VARIABLE
  alloc_file   (* the FileInfo the callbacks of the asynchronous allocation *)
               (* in progress hold, by its id                               *)

(* What an allocation leaves alone unless it says so.                       *)
pathVars == <<active_file_id, allocVars, queueVars, inflight, dataVars,
              global_sequence, reads, replies>>

LastFile == files[Len(files)]

(* The entry of allocate_new_file, called with the vector fs. A near-full   *)
(* AllocLog does not hold it up: the checkpoint it starts is over at once.  *)
PushFile(fs) ==
  /\ files' = Append(fs, NewFile(next_file_id))
  /\ next_file_id' = next_file_id + 1

BlobOpenedFor(id) == files' = [files EXCEPT ![IndexOfFile(id)].blob_opened = TRUE]

(* A call that starts an asynchronous allocation hands it its FileInfo.     *)
HandsOver ==
  alloc_file' = IF allocating_new_file' /\ ~allocating_new_file
                THEN next_file_id ELSE alloc_file

(* handle_blob_opened_for_file, with the FileInfo of the allocation.        *)
OwnBlobOpened ==
  /\ BetweenHandlers
  /\ alloc_stage = "blob"
  /\ alloc_stage' = "header"
  /\ BlobOpenedFor(alloc_file)
  /\ UNCHANGED <<next_file_id, active_file_id, allocating_new_file, queueVars,
                 inflight, dataVars, global_sequence, reads, replies,
                 alloc_file>>

(* on_new_file_allocated(true), and process_pending_write_queue, which      *)
(* fails the queue when the active file has no open blob.                   *)
LastFileAllocated ==
  /\ BetweenHandlers
  /\ alloc_stage = "header"
  /\ AllocationOver
  /\ active_file_id' = LastFile.file_id
  /\ draining' = IF LastFile.blob_opened THEN pending_write_queue ELSE <<>>
  /\ replies' = IF LastFile.blob_opened THEN replies
                ELSE ReplyAll(pending_write_queue, "internal_error")
  /\ pending_write_queue' = <<>>
  /\ UNCHANGED <<files, next_file_id, inflight, dataVars, global_sequence,
                 reads, alloc_file>>

(* on_new_file_allocated(false). When the last FileInfo is one that         *)
(* allocate_new_file pushed, its owner is left with a dangling pointer;     *)
(* what follows is not modelled.                                            *)
LastFileDropped ==
  /\ LastFile.file_id = alloc_file
  /\ NewFileFailed
  /\ UNCHANGED alloc_file

=============================================================================
