----------------------------- MODULE Checkpoint -----------------------------
(***************************************************************************)
(* IncrementalCheckpoint (src/src/checkpoint.cpp), as Engine drives it     *)
(* (Engine::start_checkpoint, poll, on_superblock_update in engine.cpp):   *)
(* the dirty segments of the index are written to its blob one by one,     *)
(* while writes complete and change the index, and a superblock then names *)
(* the place in the data files from which a recovery has to read on.       *)
(*                                                                         *)
(* The class is modelled as its header describes its use: mark_dirty is    *)
(* "called when index is modified", and set_spdk_resources has given it a  *)
(* blob. The engine at this commit does neither: its checkpoints find      *)
(* nothing dirty and are over inside the call.                             *)
(*                                                                         *)
(* The data files are one log of records, numbered in the order in which   *)
(* they were given their place; of a record the segment of its key counts. *)
(* Left out: the buckets past the last whole segment (the capacity is a    *)
(* power of two and kMemIndexSegmentCount is 80), which mark_dirty and     *)
(* serialize_segment both pass over.                                       *)
(***************************************************************************)
EXTENDS Integers, Sequences, FiniteSets

CONSTANTS
  SegmentCount,      (* kMemIndexSegmentCount                               *)
  MaxRecords,        (* bound on the records of a behaviour                 *)
  StartsOverlap      (* TRUE: a checkpoint may be asked for at any time     *)
                     (* while one runs; FALSE: only by the callbacks that   *)
                     (* run while the superblock is written                 *)

ASSUME CheckpointAssumption ==
  /\ SegmentCount \in Nat \ {0}
  /\ MaxRecords \in Nat
  /\ StartsOverlap \in BOOLEAN

VARIABLES
  log,                  (* the segment of each record in the data files     *)
  inflight,             (* records whose write is not completed             *)
  index,                (* records the index has an entry for               *)
  state,                (* state_                                           *)
  dirty_segments,       (* dirty_segments_                                  *)
  pending_segments,     (* pending_segments_, from current_segment_idx_ on  *)
  segment_buffer,       (* what the segment write in flight carries         *)
  positions,            (* active_buffer_positions_: a place in the log     *)
  unfinished,           (* the records in flight when the checkpoint began  *)
  image,                (* the segments on the device                       *)
  lost,                 (* the segments whose dirty bits went with a failed *)
                        (* checkpoint before they were written              *)
  new_superblock,       (* superblock_, in memory                           *)
  superblock            (* the superblock on the device                     *)

vars == <<log, inflight, index, state, dirty_segments, pending_segments,
          segment_buffer, positions, unfinished, image, lost, new_superblock,
          superblock>>

logVars  == <<log, inflight, index>>
walkVars == <<pending_segments, segment_buffer>>
snapVars == <<positions, unfinished>>
sbVars   == <<new_superblock, superblock>>

-----------------------------------------------------------------------------
Segment == 0 .. SegmentCount - 1

Record == 1 .. MaxRecords

(* kSnapshoting, kComplete and kFailed do not outlive a handler.            *)
States == {"idle", "writing_segments", "syncing_data", "updating_superblock"}

(* The records of a segment in the index, at this moment.                   *)
SerializeSegment(seg) == { i \in index : log[i] = seg }

(* The dirty segments without the first one.                                *)
CollectDirtyFromOne == dirty_segments \ {0}

(* for (i = 0; i < kMemIndexSegmentCount; i++)                              *)
CollectDirty == dirty_segments

(* pending_segments_ is in ascending order: the segment at                  *)
(* current_segment_idx_.                                                    *)
IsCurrent(seg, pending) == /\ seg \in pending
                           /\ \A t \in pending : seg <= t

Init ==
  /\ log = <<>>
  /\ inflight = {}
  /\ index = {}
  /\ state = "idle"
  /\ dirty_segments = {}
  /\ pending_segments = {}
  /\ segment_buffer = {}
  /\ positions = 0
  /\ unfinished = {}
  /\ image = [seg \in Segment |-> {}]
  /\ lost = {}
  /\ new_superblock = [position |-> 0, unfinished |-> {}]
  /\ superblock = new_superblock

-----------------------------------------------------------------------------
(* The engine: writes and their completions *)

(* A record takes its place in the active file.                             *)
SubmitWrite(seg) ==
  /\ Len(log) < MaxRecords
  /\ log' = Append(log, seg)
  /\ inflight' = inflight \cup {Len(log) + 1}
  /\ UNCHANGED <<index, state, dirty_segments, walkVars, snapVars, image, lost,
                 sbVars>>

(* The completion updates the index, which marks the segment dirty.         *)
WriteComplete(i) ==
  /\ i \in inflight
  /\ inflight' = inflight \ {i}
  /\ index' = index \cup {i}
  /\ dirty_segments' = dirty_segments \cup {log[i]}
  /\ UNCHANGED <<log, state, walkVars, snapVars, image, lost, sbVars>>

WriteFailed(i) ==
  /\ i \in inflight
  /\ inflight' = inflight \ {i}
  /\ UNCHANGED <<log, index, state, dirty_segments, walkVars, snapVars, image, lost,
                 sbVars>>

-----------------------------------------------------------------------------
(* The checkpoint *)

(* current_segment_idx_ + 1 >= pending_segments_.size()                     *)
AllButOneWritten(pending) == Cardinality(pending) <= 1

(* current_segment_idx_ >= pending_segments_.size()                         *)
AllWritten(pending) == pending = {}

(* process_next_segment, with the image as the last write left it: the next *)
(* segment is read from the index now and written over the one on the       *)
(* device, which is lost until that is done; or all are written and the     *)
(* blob is synchronised.                                                    *)
ProcessNextSegment(pending, written) ==
  /\ pending_segments' = pending
  /\ \/ /\ ~AllWritten(pending)
        /\ state' = "writing_segments"
        /\ \E seg \in Segment :
             /\ IsCurrent(seg, pending)
             /\ segment_buffer' = SerializeSegment(seg)
             /\ image' = [written EXCEPT ![seg] = {}]
     \/ /\ AllWritten(pending)
        /\ state' = "syncing_data"
        /\ segment_buffer' = {}
        /\ image' = written

(* Engine::start_checkpoint and IncrementalCheckpoint::start_checkpoint.    *)
(* With nothing dirty the checkpoint is over at once, and nothing changes   *)
(* that a later one would not set again.                                    *)
StartCheckpoint ==
  /\ state = "idle"
  /\ dirty_segments # {}
  /\ positions' = Len(log)
  /\ unfinished' = inflight
  /\ dirty_segments' = {}
  /\ ProcessNextSegment(CollectDirty, image)
  /\ UNCHANGED <<logVars, lost, sbVars>>

(* The same call while a checkpoint is running: it is refused, but Engine   *)
(* has already set the positions.                                           *)
RefuseCheckpoint ==
  /\ state # "idle"
  /\ ~StartsOverlap => state = "updating_superblock"
  /\ positions' = Len(log)
  /\ UNCHANGED <<logVars, state, dirty_segments, walkVars, unfinished, image,
                 lost, sbVars>>

(* complete_checkpoint: the callback runs, and the state is kIdle again.    *)
CompleteCheckpoint == state' = "idle"

(* on_segment_written(0).                                                   *)
SegmentWritten ==
  /\ state = "writing_segments"
  /\ \E seg \in Segment :
       /\ IsCurrent(seg, pending_segments)
       /\ ProcessNextSegment(pending_segments \ {seg},
                             [image EXCEPT ![seg] = segment_buffer])
       /\ lost' = lost \ {seg}
  /\ UNCHANGED <<logVars, dirty_segments, snapVars, sbVars>>

(* on_segment_written with an error. The snapshot of the dirty bits goes    *)
(* with the checkpoint: nobody knows any more that its segments are dirty.  *)
SegmentNotWritten ==
  /\ state = "writing_segments"
  /\ CompleteCheckpoint
  /\ lost' = lost \cup pending_segments
  /\ pending_segments' = {}
  /\ segment_buffer' = {}
  /\ UNCHANGED <<logVars, dirty_segments, snapVars, image, sbVars>>

(* The place the log has reached by now.                                    *)
PositionNow == [position |-> Len(log), unfinished |-> unfinished]

(* on_superblock_update: positions and active_buffer_positions_ are one     *)
(* array.                                                                   *)
SnapshotPosition == [position |-> positions, unfinished |-> unfinished]

(* on_sync_complete(0). The update of the superblock polls the device.      *)
Synced ==
  /\ state = "syncing_data"
  /\ state' = "updating_superblock"
  /\ new_superblock' = SnapshotPosition
  /\ UNCHANGED <<logVars, dirty_segments, walkVars, snapVars, image, lost,
                 superblock>>

(* A failed sync that writes the segments again, with no bound.             *)
SyncRetried ==
  /\ state = "syncing_data"
  /\ ProcessNextSegment(Segment, image)
  /\ UNCHANGED <<logVars, dirty_segments, snapVars, lost, sbVars>>

NotSynced ==
  /\ state = "syncing_data"
  /\ CompleteCheckpoint
  /\ UNCHANGED <<logVars, dirty_segments, walkVars, snapVars, image, lost,
                 sbVars>>

SuperblockUpdated ==
  /\ state = "updating_superblock"
  /\ CompleteCheckpoint
  /\ superblock' = new_superblock
  /\ UNCHANGED <<logVars, dirty_segments, walkVars, snapVars, image, lost,
                 new_superblock>>

(* One of the copies may have been written.                                 *)
SuperblockNotUpdated ==
  /\ state = "updating_superblock"
  /\ CompleteCheckpoint
  /\ superblock' \in {superblock, new_superblock}
  /\ UNCHANGED <<logVars, dirty_segments, walkVars, snapVars, image, lost,
                 new_superblock>>

-----------------------------------------------------------------------------
Engine == \/ \E seg \in Segment : SubmitWrite(seg)
          \/ \E i \in inflight : WriteComplete(i) \/ WriteFailed(i)

CheckpointIo == \/ SegmentWritten \/ SegmentNotWritten
                \/ Synced \/ NotSynced
                \/ SuperblockUpdated \/ SuperblockNotUpdated

Next == Engine \/ StartCheckpoint \/ RefuseCheckpoint \/ CheckpointIo

Spec == Init /\ [][Next]_vars

(* poll polls the device while a checkpoint waits for an IO, and the device *)
(* answers.                                                                 *)
FairSpec == Spec /\ WF_vars(CheckpointIo)

-----------------------------------------------------------------------------
(* Properties *)

TypeOK ==
  /\ log \in Seq(Segment)
  /\ Len(log) <= MaxRecords
  /\ inflight \subseteq DOMAIN log
  /\ index \subseteq DOMAIN log
  /\ state \in States
  /\ dirty_segments \subseteq Segment
  /\ pending_segments \subseteq Segment
  /\ pending_segments # {} <=> state = "writing_segments"
  /\ segment_buffer \subseteq Record
  /\ positions \in 0 .. Len(log)
  /\ unfinished \subseteq Record
  /\ image \in [Segment -> SUBSET Record]
  /\ lost \subseteq Segment
  /\ {new_superblock, superblock}
       \subseteq [position : 0 .. Len(log), unfinished : SUBSET Record]

(* The segments the checkpoint has still to read from the index.            *)
ToSerialize == { seg \in pending_segments : ~IsCurrent(seg, pending_segments) }

(* No change of the index is forgotten, but by a checkpoint that failed to  *)
(* write its segment: it is on the device, on its way, or its segment is    *)
(* dirty or still to be read by the running checkpoint, whichever side of   *)
(* start_checkpoint's copy of the bitmap, and of the reading of its         *)
(* segment, the change fell on.                                             *)
NoChangeForgotten ==
  \A i \in index :
    \/ i \in image[log[i]]
    \/ i \in segment_buffer
    \/ log[i] \in dirty_segments \cup ToSerialize \cup lost

(* Between checkpoints a recovery finds every record of the index, in the   *)
(* image or from the place the superblock names on, except those whose      *)
(* write was in flight when that checkpoint began, and those of the         *)
(* segments a failed checkpoint left unwritten: the superblock never names  *)
(* a place the rest of the image has not caught up with, also when a        *)
(* checkpoint failed after its segments were written.                       *)
RecoveryFindsIndex ==
  state = "idle" =>
    \A i \in index :
      \/ i \in image[log[i]]
      \/ i > superblock.position
      \/ i \in superblock.unfinished
      \/ log[i] \in lost

(* A checkpoint that was started ends, with success or failure: the next    *)
(* one is not refused for ever.                                             *)
CheckpointEnds == state # "idle" ~> state = "idle"
=============================================================================
