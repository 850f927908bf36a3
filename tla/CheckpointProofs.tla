-------------------------- MODULE CheckpointProofs --------------------------
(***************************************************************************)
(* Proofs about Checkpoint, for any number of segments and records.        *)
(***************************************************************************)
EXTENDS Checkpoint, TLAPS

(* One segment at a time is current.                                        *)
LEMMA CurrentIsUnique ==
  ASSUME NEW pending \in SUBSET Segment, NEW s \in Segment, NEW t \in Segment,
         IsCurrent(s, pending), IsCurrent(t, pending)
  PROVE  s = t
  BY DEF IsCurrent, Segment

(* The six steps that the IOs of a checkpoint end in, and the rest.         *)
LEMMA Steps ==
  ASSUME Next
  PROVE  \/ \E seg \in Segment : SubmitWrite(seg)
         \/ \E i \in inflight : WriteComplete(i)
         \/ \E i \in inflight : WriteFailed(i)
         \/ StartCheckpoint
         \/ RefuseCheckpoint
         \/ SegmentWritten
         \/ SegmentNotWritten
         \/ Synced
         \/ NotSynced
         \/ SuperblockUpdated
         \/ SuperblockNotUpdated
  BY DEF Next, Engine, CheckpointIo

-----------------------------------------------------------------------------
(* Types *)

LEMMA TypeInit == Init => TypeOK
  <1> SUFFICES ASSUME Init PROVE TypeOK
    OBVIOUS
  <1>1. log = << >> /\ Len(log) = 0 /\ log \in Seq(Segment)
    BY DEF Init
  <1>2. MaxRecords \in Nat
    BY CheckpointAssumption
  <1> QED
    BY <1>1, <1>2 DEF Init, TypeOK, States, Segment, Record

(* What a step of process_next_segment leaves behind.                       *)
LEMMA ProcessTyped ==
  ASSUME NEW pending \in SUBSET Segment,
         NEW written \in [Segment -> SUBSET Record],
         index \subseteq DOMAIN log, DOMAIN log \subseteq Record,
         ProcessNextSegment(pending, written)
  PROVE  /\ pending_segments' \subseteq Segment
         /\ state' \in States
         /\ pending_segments' # {} <=> state' = "writing_segments"
         /\ segment_buffer' \subseteq Record
         /\ image' \in [Segment -> SUBSET Record]
  <1>1. CASE AllWritten(pending)
    BY <1>1 DEF ProcessNextSegment, AllWritten, States
  <1>2. CASE ~AllWritten(pending)
    <2>1. PICK seg \in Segment :
             /\ segment_buffer' = SerializeSegment(seg)
             /\ image' = [written EXCEPT ![seg] = {}]
      BY <1>2 DEF ProcessNextSegment
    <2>2. segment_buffer' \subseteq Record
      BY <2>1 DEF SerializeSegment
    <2>3. image' \in [Segment -> SUBSET Record]
      BY <2>1
    <2> QED
      BY <1>2, <2>2, <2>3 DEF ProcessNextSegment, AllWritten, States
  <1> QED
    BY <1>1, <1>2

LEMMA DomainIsRecord ==
  ASSUME TypeOK
  PROVE  DOMAIN log \subseteq Record
  BY CheckpointAssumption DEF TypeOK, Record

LEMMA TypeNext == TypeOK /\ [Next]_vars => TypeOK'
  <1> SUFFICES ASSUME TypeOK, [Next]_vars PROVE TypeOK'
    OBVIOUS
  <1>d. DOMAIN log \subseteq Record
    BY DomainIsRecord
  <1>n. MaxRecords \in Nat
    BY CheckpointAssumption
  <1>0. CASE UNCHANGED vars
    BY <1>0 DEF TypeOK, vars
  <1>1. ASSUME NEW seg \in Segment, SubmitWrite(seg) PROVE TypeOK'
    <2>1. /\ log' \in Seq(Segment)
          /\ Len(log') = Len(log) + 1
          /\ DOMAIN log \subseteq DOMAIN log'
          /\ Len(log) + 1 \in DOMAIN log'
      BY <1>1 DEF SubmitWrite, TypeOK
    <2>2. inflight' \subseteq DOMAIN log'
      BY <1>1, <2>1 DEF SubmitWrite, TypeOK
    <2>3. index' \subseteq DOMAIN log'
      BY <1>1, <2>1 DEF SubmitWrite, TypeOK
    <2>4. Len(log') <= MaxRecords
      BY <1>1, <1>n, <2>1 DEF SubmitWrite, TypeOK
    <2>5. 0 .. Len(log) \subseteq 0 .. Len(log')
      BY <2>1 DEF TypeOK
    <2>6. [position : 0 .. Len(log), unfinished : SUBSET Record]
            \subseteq [position : 0 .. Len(log'), unfinished : SUBSET Record]
      BY <2>5
    <2> QED
      BY <1>1, <2>1, <2>2, <2>3, <2>4, <2>5, <2>6
      DEF SubmitWrite, TypeOK, walkVars, snapVars, sbVars
  <1>2. ASSUME NEW i \in inflight, WriteComplete(i) PROVE TypeOK'
    <2>1. log[i] \in Segment
      BY DEF TypeOK
    <2> QED
      BY <1>2, <2>1 DEF WriteComplete, TypeOK, walkVars, snapVars, sbVars
  <1>3. ASSUME NEW i \in inflight, WriteFailed(i) PROVE TypeOK'
    BY <1>3 DEF WriteFailed, TypeOK, walkVars, snapVars, sbVars
  <1>4. CASE StartCheckpoint
    <2>1. ProcessNextSegment(dirty_segments, image)
      BY <1>4 DEF StartCheckpoint, CollectDirty
    <2>2. /\ dirty_segments \in SUBSET Segment
          /\ image \in [Segment -> SUBSET Record]
          /\ index \subseteq DOMAIN log
      BY DEF TypeOK
    <2>3. /\ pending_segments' \subseteq Segment
          /\ state' \in States
          /\ pending_segments' # {} <=> state' = "writing_segments"
          /\ segment_buffer' \subseteq Record
          /\ image' \in [Segment -> SUBSET Record]
      BY <1>d, <2>1, <2>2, ProcessTyped
    <2>4. positions' \in 0 .. Len(log) /\ unfinished' \subseteq Record
      BY <1>4, <1>d DEF StartCheckpoint, TypeOK
    <2> QED
      BY <1>4, <2>3, <2>4 DEF StartCheckpoint, TypeOK, logVars, sbVars
  <1>5. CASE RefuseCheckpoint
    BY <1>5 DEF RefuseCheckpoint, TypeOK, logVars, walkVars, sbVars
  <1>6. CASE SegmentWritten
    <2>1. PICK seg \in Segment :
             /\ ProcessNextSegment(pending_segments \ {seg},
                                   [image EXCEPT ![seg] = segment_buffer])
             /\ lost' = lost \ {seg}
      BY <1>6 DEF SegmentWritten
    <2>2. /\ pending_segments \ {seg} \in SUBSET Segment
          /\ [image EXCEPT ![seg] = segment_buffer]
               \in [Segment -> SUBSET Record]
          /\ index \subseteq DOMAIN log
      BY DEF TypeOK
    <2>3. /\ pending_segments' \subseteq Segment
          /\ state' \in States
          /\ pending_segments' # {} <=> state' = "writing_segments"
          /\ segment_buffer' \subseteq Record
          /\ image' \in [Segment -> SUBSET Record]
      BY <1>d, <2>1, <2>2, ProcessTyped
    <2> QED
      BY <1>6, <2>1, <2>3
      DEF SegmentWritten, TypeOK, logVars, snapVars, sbVars
  <1>7. CASE SegmentNotWritten
    BY <1>7 DEF SegmentNotWritten, CompleteCheckpoint, TypeOK, States, logVars,
                snapVars, sbVars
  <1>8. CASE Synced
    BY <1>8 DEF Synced, SnapshotPosition, TypeOK, States, logVars, walkVars,
                snapVars
  <1>9. CASE NotSynced
    BY <1>9 DEF NotSynced, CompleteCheckpoint, TypeOK, States, logVars,
                walkVars, snapVars, sbVars
  <1>10. CASE SuperblockUpdated
    BY <1>10 DEF SuperblockUpdated, CompleteCheckpoint, TypeOK, States,
                 logVars, walkVars, snapVars
  <1>11. CASE SuperblockNotUpdated
    BY <1>11 DEF SuperblockNotUpdated, CompleteCheckpoint, TypeOK, States,
                 logVars, walkVars, snapVars
  <1> QED
    BY <1>0, <1>1, <1>2, <1>3, <1>4, <1>5, <1>6, <1>7, <1>8, <1>9, <1>10,
       <1>11, Steps

(* Every reachable state of a checkpoint is well typed; segments wait to be *)
(* written exactly while the state is kWritingSegments.                     *)
THEOREM TypeCorrect == Spec => []TypeOK
  BY TypeInit, TypeNext, PTL DEF Spec

-----------------------------------------------------------------------------
(* No change of the index is forgotten *)

(* The segment write in flight carries records of the current segment only. *)
BufferIsCurrent ==
  \A i \in segment_buffer : /\ i \in index
                            /\ IsCurrent(log[i], pending_segments)

(* The current segment on the device is being written over.                 *)
CurrentIsTorn ==
  \A seg \in Segment : IsCurrent(seg, pending_segments) => image[seg] = {}

(* What the write in flight does not carry came after it was made.          *)
CurrentIsRead ==
  \A i \in index : IsCurrent(log[i], pending_segments) =>
    i \in segment_buffer \/ log[i] \in dirty_segments

Inv == /\ TypeOK
       /\ BufferIsCurrent
       /\ CurrentIsTorn
       /\ CurrentIsRead
       /\ NoChangeForgotten

(* The index and the image around a step of process_next_segment.           *)
LEMMA ProcessNext ==
  ASSUME NEW pending \in SUBSET Segment,
         NEW written \in [Segment -> SUBSET Record],
         log \in Seq(Segment), index \subseteq DOMAIN log,
         ProcessNextSegment(pending, written)
  PROVE  /\ pending_segments' = pending
         /\ \A i \in segment_buffer' : i \in index /\ IsCurrent(log[i], pending)
         /\ \A i \in index : IsCurrent(log[i], pending) => i \in segment_buffer'
         /\ \A seg \in Segment : IsCurrent(seg, pending) => image'[seg] = {}
         /\ \A seg \in Segment :
              ~IsCurrent(seg, pending) => image'[seg] = written[seg]
  <1>1. CASE AllWritten(pending)
    BY <1>1 DEF ProcessNextSegment, AllWritten, IsCurrent
  <1>2. CASE ~AllWritten(pending)
    <2>1. PICK seg \in Segment :
             /\ IsCurrent(seg, pending)
             /\ segment_buffer' = SerializeSegment(seg)
             /\ image' = [written EXCEPT ![seg] = {}]
      BY <1>2 DEF ProcessNextSegment
    <2>2. \A t \in Segment : IsCurrent(t, pending) <=> t = seg
      BY <2>1, CurrentIsUnique
    <2>3. \A i \in index : log[i] \in Segment
      OBVIOUS
    <2>4. \A i \in segment_buffer' : i \in index /\ log[i] = seg
      BY <2>1 DEF SerializeSegment
    <2>5. \A i \in index : log[i] = seg => i \in segment_buffer'
      BY <2>1 DEF SerializeSegment
    <2>6. pending_segments' = pending
      BY DEF ProcessNextSegment
    <2> QED
      BY <2>1, <2>2, <2>3, <2>4, <2>5, <2>6
  <1> QED
    BY <1>1, <1>2

LEMMA InvInit == Init => Inv
  <1> SUFFICES ASSUME Init PROVE Inv
    OBVIOUS
  <1>1. TypeOK
    BY TypeInit
  <1> QED
    BY <1>1 DEF Init, Inv, BufferIsCurrent, CurrentIsTorn, CurrentIsRead,
                NoChangeForgotten, IsCurrent

LEMMA InvNext == Inv /\ [Next]_vars => Inv'
  <1> SUFFICES ASSUME Inv, [Next]_vars PROVE Inv'
    OBVIOUS
  <1> USE DEF Inv
  <1>t. TypeOK'
    BY TypeNext
  <1>s. \A i \in index : log[i] \in Segment
    BY DEF TypeOK
  <1>0. CASE UNCHANGED vars
    BY <1>0, <1>t DEF vars, BufferIsCurrent, CurrentIsTorn, CurrentIsRead,
                      NoChangeForgotten, ToSerialize, IsCurrent
  <1>1. ASSUME NEW seg \in Segment, SubmitWrite(seg) PROVE Inv'
    <2>1. \A i \in DOMAIN log : log'[i] = log[i]
      BY <1>1 DEF SubmitWrite, TypeOK
    <2>2. \A i \in index : log'[i] = log[i]
      BY <2>1 DEF TypeOK
    <2>3. UNCHANGED <<index, dirty_segments, pending_segments, segment_buffer,
                      image, lost>>
      BY <1>1 DEF SubmitWrite, walkVars
    <2> QED
      BY <1>t, <2>2, <2>3 DEF BufferIsCurrent, CurrentIsTorn, CurrentIsRead,
                              NoChangeForgotten, ToSerialize, IsCurrent
  <1>2. ASSUME NEW i \in inflight, WriteComplete(i) PROVE Inv'
    <2>1. /\ index' = index \cup {i}
          /\ dirty_segments' = dirty_segments \cup {log[i]}
          /\ UNCHANGED <<log, pending_segments, segment_buffer, image, lost>>
      BY <1>2 DEF WriteComplete, walkVars
    <2> QED
      BY <1>t, <2>1 DEF BufferIsCurrent, CurrentIsTorn, CurrentIsRead,
                        NoChangeForgotten, ToSerialize, IsCurrent
  <1>3. ASSUME NEW i \in inflight, WriteFailed(i) PROVE Inv'
    BY <1>3, <1>t DEF WriteFailed, walkVars, BufferIsCurrent, CurrentIsTorn,
                      CurrentIsRead, NoChangeForgotten, ToSerialize, IsCurrent
  <1>4. CASE StartCheckpoint
    <2>1. /\ ProcessNextSegment(dirty_segments, image)
          /\ UNCHANGED <<log, index, lost>>
      BY <1>4 DEF StartCheckpoint, CollectDirty, logVars
    <2>2. /\ pending_segments' = dirty_segments
          /\ \A i \in segment_buffer' :
               i \in index /\ IsCurrent(log[i], dirty_segments)
          /\ \A i \in index :
               IsCurrent(log[i], dirty_segments) => i \in segment_buffer'
          /\ \A seg \in Segment :
               IsCurrent(seg, dirty_segments) => image'[seg] = {}
          /\ \A seg \in Segment :
               ~IsCurrent(seg, dirty_segments) => image'[seg] = image[seg]
      BY <2>1, ProcessNext DEF TypeOK
    <2>3. pending_segments = {}
      BY <1>4 DEF StartCheckpoint, TypeOK
    <2>4. segment_buffer = {} /\ ToSerialize = {}
      BY <2>3 DEF BufferIsCurrent, IsCurrent, ToSerialize
    <2>5. BufferIsCurrent' /\ CurrentIsTorn' /\ CurrentIsRead'
      BY <2>1, <2>2 DEF BufferIsCurrent, CurrentIsTorn, CurrentIsRead, IsCurrent
    <2>6. ASSUME NEW i \in index
          PROVE  \/ i \in image'[log[i]]
                 \/ i \in segment_buffer'
                 \/ log[i] \in ToSerialize'
                 \/ log[i] \in lost
      <3>1. CASE IsCurrent(log[i], dirty_segments)
        BY <2>2, <3>1
      <3>2. CASE ~IsCurrent(log[i], dirty_segments)
        <4>1. image'[log[i]] = image[log[i]]
          BY <1>s, <2>2, <3>2
        <4>2. log[i] \in dirty_segments => log[i] \in ToSerialize'
          BY <2>2, <3>2 DEF ToSerialize, IsCurrent
        <4> QED
          BY <2>4, <4>1, <4>2 DEF NoChangeForgotten
      <3> QED
        BY <3>1, <3>2
    <2>7. NoChangeForgotten'
      BY <2>1, <2>6 DEF NoChangeForgotten
    <2> QED
      BY <1>t, <2>5, <2>7
  <1>5. CASE RefuseCheckpoint
    BY <1>5, <1>t DEF RefuseCheckpoint, logVars, walkVars, BufferIsCurrent,
                      CurrentIsTorn, CurrentIsRead, NoChangeForgotten,
                      ToSerialize, IsCurrent
  <1>6. CASE SegmentWritten
    <2> DEFINE rest(seg) == pending_segments \ {seg}
               written(seg) == [image EXCEPT ![seg] = segment_buffer]
    <2>1. PICK seg \in Segment :
             /\ IsCurrent(seg, pending_segments)
             /\ ProcessNextSegment(rest(seg), written(seg))
             /\ lost' = lost \ {seg}
      BY <1>6 DEF SegmentWritten
    <2>2. UNCHANGED <<log, index, dirty_segments>>
      BY <1>6 DEF SegmentWritten, logVars
    <2>3. rest(seg) \in SUBSET Segment
      BY DEF TypeOK
    <2>4. written(seg) \in [Segment -> SUBSET Record]
      BY DEF TypeOK
    <2>5. written(seg)[seg] = segment_buffer
      BY DEF TypeOK
    <2>6. \A t \in Segment : t # seg => written(seg)[t] = image[t]
      BY DEF TypeOK
    <2>7. log \in Seq(Segment) /\ index \subseteq DOMAIN log
      BY DEF TypeOK
    <2> HIDE DEF written, rest
    <2>8. /\ pending_segments' = rest(seg)
          /\ \A i \in segment_buffer' :
               i \in index /\ IsCurrent(log[i], rest(seg))
          /\ \A i \in index :
               IsCurrent(log[i], rest(seg)) => i \in segment_buffer'
          /\ \A t \in Segment : IsCurrent(t, rest(seg)) => image'[t] = {}
          /\ \A t \in Segment :
               ~IsCurrent(t, rest(seg)) => image'[t] = written(seg)[t]
      BY <2>1, <2>3, <2>4, <2>7, ProcessNext
    <2>9. BufferIsCurrent' /\ CurrentIsTorn' /\ CurrentIsRead'
      BY <2>2, <2>8 DEF BufferIsCurrent, CurrentIsTorn, CurrentIsRead, IsCurrent
    <2>10. \A t \in Segment : IsCurrent(t, pending_segments) => t = seg
      BY <2>1, CurrentIsUnique DEF TypeOK
    <2>11. \A i \in segment_buffer : log[i] = seg
      BY <1>s, <2>10 DEF BufferIsCurrent
    <2>12. ASSUME NEW i \in index
           PROVE  \/ i \in image'[log[i]]
                  \/ i \in segment_buffer'
                  \/ log[i] \in dirty_segments
                  \/ log[i] \in ToSerialize'
                  \/ log[i] \in lost'
      <3>1. CASE log[i] = seg
        <4>1. i \in segment_buffer \/ log[i] \in dirty_segments
          BY <2>1, <3>1 DEF CurrentIsRead
        <4>2. ~IsCurrent(log[i], rest(seg))
          BY <3>1 DEF IsCurrent, rest
        <4>3. image'[log[i]] = segment_buffer
          BY <2>5, <2>8, <3>1, <4>2
        <4> QED
          BY <4>1, <4>3
      <3>2. CASE log[i] # seg /\ IsCurrent(log[i], rest(seg))
        BY <2>8, <3>2
      <3>3. CASE log[i] # seg /\ ~IsCurrent(log[i], rest(seg))
        <4>1. image'[log[i]] = image[log[i]]
          BY <1>s, <2>6, <2>8, <3>3
        <4>2. log[i] \in ToSerialize => log[i] \in ToSerialize'
          BY <2>8, <3>3 DEF ToSerialize, rest, IsCurrent
        <4>3. i \notin segment_buffer
          BY <2>11, <3>3
        <4>4. log[i] \in lost => log[i] \in lost'
          BY <2>1, <3>3
        <4> QED
          BY <4>1, <4>2, <4>3, <4>4 DEF NoChangeForgotten
      <3> QED
        BY <3>1, <3>2, <3>3
    <2>13. NoChangeForgotten'
      BY <2>2, <2>12 DEF NoChangeForgotten
    <2> QED
      BY <1>t, <2>9, <2>13
  <1>7. CASE SegmentNotWritten
    <2>1. /\ pending_segments' = {} /\ segment_buffer' = {}
          /\ lost' = lost \cup pending_segments
          /\ UNCHANGED <<log, index, dirty_segments, image>>
      BY <1>7 DEF SegmentNotWritten, logVars
    <2>2. BufferIsCurrent' /\ CurrentIsTorn' /\ CurrentIsRead'
      BY <2>1 DEF BufferIsCurrent, CurrentIsTorn, CurrentIsRead, IsCurrent
    <2>3. \A i \in segment_buffer : log[i] \in pending_segments
      BY DEF BufferIsCurrent, IsCurrent
    <2>4. ToSerialize \subseteq pending_segments
      BY DEF ToSerialize
    <2>5. NoChangeForgotten'
      BY <2>1, <2>3, <2>4 DEF NoChangeForgotten
    <2> QED
      BY <1>t, <2>2, <2>5
  <1>8. CASE Synced
    BY <1>8, <1>t DEF Synced, logVars, walkVars, BufferIsCurrent,
                      CurrentIsTorn, CurrentIsRead, NoChangeForgotten,
                      ToSerialize, IsCurrent
  <1>9. CASE NotSynced
    BY <1>9, <1>t DEF NotSynced, logVars, walkVars, BufferIsCurrent,
                      CurrentIsTorn, CurrentIsRead, NoChangeForgotten,
                      ToSerialize, IsCurrent
  <1>10. CASE SuperblockUpdated
    BY <1>10, <1>t DEF SuperblockUpdated, logVars, walkVars, BufferIsCurrent,
                      CurrentIsTorn, CurrentIsRead, NoChangeForgotten,
                      ToSerialize, IsCurrent
  <1>11. CASE SuperblockNotUpdated
    BY <1>11, <1>t DEF SuperblockNotUpdated, logVars, walkVars,
                      BufferIsCurrent, CurrentIsTorn, CurrentIsRead,
                      NoChangeForgotten, ToSerialize, IsCurrent
  <1> QED
    BY <1>0, <1>1, <1>2, <1>3, <1>4, <1>5, <1>6, <1>7, <1>8, <1>9, <1>10,
       <1>11, Steps

(* A change of the index is on the device, on its way there, or known to be *)
(* missing there, unless a checkpoint failed to write its segment           *)
(* (mark_dirty, start_checkpoint, process_next_segment).                    *)
THEOREM ChangesAreTracked == Spec => []NoChangeForgotten
  <1>1. Inv => NoChangeForgotten
    BY DEF Inv
  <1> QED
    BY <1>1, InvInit, InvNext, PTL DEF Spec

-----------------------------------------------------------------------------
(* A recovery finds the index *)

(* A recovery that reads on from position p, knowing of the writes u, has   *)
(* the record.                                                              *)
Behind(i, p, u) == i > p \/ i \in u

(* The image has caught up with position p, or will have when the segments  *)
(* still pending are written; what completes from now on is behind p.       *)
CaughtUp(p, u) ==
  /\ \A i \in inflight : Behind(i, p, u)
  /\ \A i \in index :
       \/ Behind(i, p, u)
       \/ i \in image[log[i]]
       \/ log[i] \in lost \cup pending_segments
  /\ \A i \in index :
       IsCurrent(log[i], pending_segments)
         => Behind(i, p, u) \/ i \in segment_buffer

RecoveryInv ==
  /\ CaughtUp(superblock.position, superblock.unfinished)
  /\ state = "updating_superblock" =>
       CaughtUp(new_superblock.position, new_superblock.unfinished)
  /\ state \in {"writing_segments", "syncing_data"} =>
       CaughtUp(positions, unfinished)

LEMMA RecoveryInvInit == Init => RecoveryInv
  BY DEF Init, RecoveryInv, CaughtUp, Behind

(* Each step of the engine and of the segment writes, for any position.     *)
LEMMA SubmitKeeps ==
  ASSUME Inv, NEW seg \in Segment, SubmitWrite(seg),
         NEW p \in 0 .. Len(log), NEW u, CaughtUp(p, u)
  PROVE  CaughtUp(p, u)'
  <1>1. \A i \in index : log'[i] = log[i]
    BY DEF SubmitWrite, Inv, TypeOK
  <1>2. /\ inflight' = inflight \cup {Len(log) + 1}
        /\ UNCHANGED <<index, pending_segments, segment_buffer, image, lost>>
    BY DEF SubmitWrite, walkVars
  <1>3. Len(log) + 1 > p
    BY DEF Inv, TypeOK
  <1> QED
    BY <1>1, <1>2, <1>3 DEF CaughtUp, Behind, IsCurrent

LEMMA CompleteKeeps ==
  ASSUME NEW i \in inflight, WriteComplete(i) \/ WriteFailed(i),
         NEW p, NEW u, CaughtUp(p, u)
  PROVE  CaughtUp(p, u)'
  <1>1. inflight' \subseteq inflight /\ index' \subseteq index \cup {i}
    BY DEF WriteComplete, WriteFailed
  <1>2. UNCHANGED <<log, pending_segments, segment_buffer, image, lost>>
    BY DEF WriteComplete, WriteFailed, walkVars
  <1> QED
    BY <1>1, <1>2 DEF CaughtUp, Behind, IsCurrent

LEMMA StartKeeps ==
  ASSUME Inv, StartCheckpoint, NEW p, NEW u, CaughtUp(p, u)
  PROVE  CaughtUp(p, u)'
  <1>1. /\ ProcessNextSegment(dirty_segments, image)
        /\ UNCHANGED <<log, index, inflight, lost>>
    BY DEF StartCheckpoint, CollectDirty, logVars
  <1>2. /\ pending_segments' = dirty_segments
        /\ \A i \in index :
             IsCurrent(log[i], dirty_segments) => i \in segment_buffer'
        /\ \A seg \in Segment :
             ~IsCurrent(seg, dirty_segments) => image'[seg] = image[seg]
    BY <1>1, ProcessNext DEF Inv, TypeOK
  <1>3. pending_segments = {}
    BY DEF StartCheckpoint, Inv, TypeOK
  <1>4. \A i \in index : log[i] \in Segment
    BY DEF Inv, TypeOK
  <1>5. \A i \in index : \/ IsCurrent(log[i], dirty_segments)
                         \/ image'[log[i]] = image[log[i]]
    BY <1>2, <1>4
  <1>6. \A i \in index : IsCurrent(log[i], dirty_segments)
                           => log[i] \in dirty_segments
    BY DEF IsCurrent
  <1>7. (\A i \in index :
           \/ Behind(i, p, u)
           \/ i \in image[log[i]]
           \/ log[i] \in lost \cup pending_segments)'
    BY <1>1, <1>2, <1>3, <1>5, <1>6 DEF CaughtUp, Behind
  <1>8. (\A i \in index :
           IsCurrent(log[i], pending_segments)
             => Behind(i, p, u) \/ i \in segment_buffer)'
    BY <1>1, <1>2 DEF IsCurrent
  <1>9. (\A i \in inflight : Behind(i, p, u))'
    BY <1>1 DEF CaughtUp, Behind
  <1> QED
    BY <1>7, <1>8, <1>9 DEF CaughtUp

(* A start takes the present position, and everything the image lacks there *)
(* is dirty: the snapshot of the bitmap and of the position belong together.*)
LEMMA StartCatchesUp ==
  ASSUME Inv, StartCheckpoint
  PROVE  CaughtUp(positions, unfinished)'
  <1>1. /\ ProcessNextSegment(dirty_segments, image)
        /\ UNCHANGED <<log, index, inflight, lost>>
        /\ unfinished' = inflight
    BY DEF StartCheckpoint, CollectDirty, logVars
  <1>2. /\ pending_segments' = dirty_segments
        /\ \A i \in index :
             IsCurrent(log[i], dirty_segments) => i \in segment_buffer'
        /\ \A seg \in Segment :
             ~IsCurrent(seg, dirty_segments) => image'[seg] = image[seg]
    BY <1>1, ProcessNext DEF Inv, TypeOK
  <1>3. pending_segments = {}
    BY DEF StartCheckpoint, Inv, TypeOK
  <1>4. segment_buffer = {} /\ ToSerialize = {}
    BY <1>3 DEF Inv, BufferIsCurrent, IsCurrent, ToSerialize
  <1>5. \A i \in index : \/ IsCurrent(log[i], dirty_segments)
                         \/ image'[log[i]] = image[log[i]]
    BY <1>2 DEF Inv, TypeOK
  <1>6. \A i \in index : IsCurrent(log[i], dirty_segments)
                           => log[i] \in dirty_segments
    BY DEF IsCurrent
  <1>7. \A i \in index : \/ i \in image[log[i]]
                         \/ log[i] \in dirty_segments \cup lost
    BY <1>4 DEF Inv, NoChangeForgotten
  <1>8. (\A i \in index :
           \/ i \in image[log[i]]
           \/ log[i] \in lost \cup pending_segments)'
    BY <1>1, <1>2, <1>5, <1>6, <1>7
  <1>9. (\A i \in index :
           IsCurrent(log[i], pending_segments) => i \in segment_buffer)'
    BY <1>1, <1>2 DEF IsCurrent
  <1>10. (\A i \in inflight : Behind(i, positions, unfinished))'
    BY <1>1 DEF Behind
  <1> QED
    BY <1>8, <1>9, <1>10 DEF CaughtUp

LEMMA SegmentWrittenKeeps ==
  ASSUME Inv, SegmentWritten, NEW p, NEW u, CaughtUp(p, u)
  PROVE  CaughtUp(p, u)'
  <1> DEFINE rest(seg) == pending_segments \ {seg}
             written(seg) == [image EXCEPT ![seg] = segment_buffer]
  <1>1. PICK seg \in Segment :
           /\ IsCurrent(seg, pending_segments)
           /\ ProcessNextSegment(rest(seg), written(seg))
           /\ lost' = lost \ {seg}
    BY DEF SegmentWritten
  <1>2. UNCHANGED <<log, index, inflight>>
    BY DEF SegmentWritten, logVars
  <1>3. /\ rest(seg) \in SUBSET Segment
        /\ written(seg) \in [Segment -> SUBSET Record]
        /\ written(seg)[seg] = segment_buffer
        /\ \A t \in Segment : t # seg => written(seg)[t] = image[t]
        /\ log \in Seq(Segment)
        /\ index \subseteq DOMAIN log
        /\ \A i \in index : log[i] \in Segment
    BY DEF Inv, TypeOK
  <1> HIDE DEF written, rest
  <1>4. /\ pending_segments' = rest(seg)
        /\ \A i \in index :
             IsCurrent(log[i], rest(seg)) => i \in segment_buffer'
        /\ \A t \in Segment :
             ~IsCurrent(t, rest(seg)) => image'[t] = written(seg)[t]
    BY <1>1, <1>3, ProcessNext
  <1>5. ASSUME NEW i \in index
        PROVE  \/ Behind(i, p, u)
               \/ i \in image'[log[i]]
               \/ log[i] \in lost' \cup pending_segments'
    <2>1. CASE log[i] = seg
      <3>1. Behind(i, p, u) \/ i \in segment_buffer
        BY <1>1, <2>1 DEF CaughtUp
      <3>2. ~IsCurrent(log[i], rest(seg))
        BY <2>1 DEF IsCurrent, rest
      <3>3. image'[log[i]] = segment_buffer
        BY <1>3, <1>4, <2>1, <3>2
      <3> QED
        BY <3>1, <3>3
    <2>2. CASE log[i] # seg
      <3>1. log[i] \in lost \cup pending_segments
              => log[i] \in lost' \cup pending_segments'
        BY <1>1, <1>4, <2>2 DEF rest
      <3>2. CASE log[i] \in pending_segments'
        BY <3>2
      <3>3. CASE log[i] \notin pending_segments'
        <4>1. ~IsCurrent(log[i], rest(seg))
          BY <1>4, <3>3 DEF IsCurrent
        <4>2. image'[log[i]] = image[log[i]]
          BY <1>3, <1>4, <2>2, <4>1
        <4> QED
          BY <3>1, <4>2 DEF CaughtUp
      <3> QED
        BY <3>2, <3>3
    <2> QED
      BY <2>1, <2>2
  <1>6. \A i \in index :
          IsCurrent(log[i], pending_segments') => i \in segment_buffer'
    BY <1>4
  <1>7. \A i \in inflight : Behind(i, p, u)
    BY DEF CaughtUp
  <1> QED
    BY <1>2, <1>5, <1>6, <1>7 DEF CaughtUp, Behind, IsCurrent

LEMMA SegmentNotWrittenKeeps ==
  ASSUME SegmentNotWritten, NEW p, NEW u, CaughtUp(p, u)
  PROVE  CaughtUp(p, u)'
  <1>1. /\ pending_segments' = {}
        /\ lost' = lost \cup pending_segments
        /\ UNCHANGED <<log, index, inflight, image>>
    BY DEF SegmentNotWritten, logVars
  <1> QED
    BY <1>1 DEF CaughtUp, Behind, IsCurrent

LEMMA RecoveryInvNext ==
  ASSUME StartsOverlap = FALSE
  PROVE  Inv /\ RecoveryInv /\ [Next]_vars => RecoveryInv'
  <1> SUFFICES ASSUME Inv, RecoveryInv, [Next]_vars PROVE RecoveryInv'
    OBVIOUS
  <1> DEFINE walk == <<log, inflight, index, pending_segments, segment_buffer,
                       image, lost>>
  <1>s. ASSUME UNCHANGED walk, NEW p, NEW u, CaughtUp(p, u)
        PROVE  CaughtUp(p, u)'
    BY <1>s DEF CaughtUp, Behind, IsCurrent
  <1>p. /\ positions \in 0 .. Len(log)
        /\ superblock.position \in 0 .. Len(log)
        /\ new_superblock.position \in 0 .. Len(log)
    BY DEF Inv, TypeOK
  <1>0. CASE UNCHANGED vars
    <2>1. UNCHANGED walk
      BY <1>0 DEF vars
    <2> QED
      BY <1>0, <1>s, <2>1 DEF vars, RecoveryInv
  <1>1. ASSUME NEW seg \in Segment, SubmitWrite(seg) PROVE RecoveryInv'
    <2>1. UNCHANGED <<state, positions, unfinished, new_superblock, superblock>>
      BY <1>1 DEF SubmitWrite, snapVars, sbVars
    <2> QED
      BY <1>1, <1>p, <2>1, SubmitKeeps DEF RecoveryInv
  <1>2. ASSUME NEW i \in inflight, WriteComplete(i) \/ WriteFailed(i)
        PROVE  RecoveryInv'
    <2>1. UNCHANGED <<state, positions, unfinished, new_superblock, superblock>>
      BY <1>2 DEF WriteComplete, WriteFailed, snapVars, sbVars
    <2> QED
      BY <1>2, <2>1, CompleteKeeps DEF RecoveryInv
  <1>4. CASE StartCheckpoint
    <2>1. UNCHANGED <<new_superblock, superblock>>
      BY <1>4 DEF StartCheckpoint, sbVars
    <2>2. state' # "updating_superblock"
      BY <1>4 DEF StartCheckpoint, ProcessNextSegment
    <2>3. CaughtUp(superblock.position, superblock.unfinished)'
      BY <1>4, <2>1, StartKeeps DEF RecoveryInv
    <2> QED
      BY <1>4, <2>2, <2>3, StartCatchesUp DEF RecoveryInv
  <1>5. CASE RefuseCheckpoint
    <2>1. /\ UNCHANGED walk
          /\ UNCHANGED <<state, new_superblock, superblock>>
          /\ state = "updating_superblock"
      BY <1>5 DEF RefuseCheckpoint, logVars, walkVars, sbVars
    <2> HIDE DEF walk
    <2> QED
      BY <1>s, <2>1 DEF RecoveryInv
  <1>6. CASE SegmentWritten
    <2>1. /\ state = "writing_segments"
          /\ UNCHANGED <<positions, unfinished, superblock>>
          /\ state' # "updating_superblock"
      BY <1>6 DEF SegmentWritten, ProcessNextSegment, snapVars, sbVars
    <2> QED
      BY <1>6, <2>1, SegmentWrittenKeeps DEF RecoveryInv
  <1>7. CASE SegmentNotWritten
    <2>1. state' = "idle" /\ UNCHANGED superblock
      BY <1>7 DEF SegmentNotWritten, CompleteCheckpoint, sbVars
    <2> QED
      BY <1>7, <2>1, SegmentNotWrittenKeeps DEF RecoveryInv
  <1>8. CASE Synced
    <2>1. /\ UNCHANGED walk
          /\ state = "syncing_data"
          /\ state' = "updating_superblock"
          /\ new_superblock' = SnapshotPosition
          /\ UNCHANGED <<positions, unfinished, superblock>>
      BY <1>8 DEF Synced, logVars, walkVars, snapVars
    <2>2. /\ new_superblock'.position = positions
          /\ new_superblock'.unfinished = unfinished
      BY <2>1 DEF SnapshotPosition
    <2> HIDE DEF walk
    <2>3. CaughtUp(positions, unfinished)'
      BY <1>s, <2>1 DEF RecoveryInv
    <2>4. CaughtUp(superblock.position, superblock.unfinished)'
      BY <1>s, <2>1 DEF RecoveryInv
    <2> QED
      BY <2>1, <2>2, <2>3, <2>4 DEF RecoveryInv
  <1>9. CASE NotSynced
    <2>1. UNCHANGED walk /\ state' = "idle" /\ UNCHANGED superblock
      BY <1>9 DEF NotSynced, CompleteCheckpoint, logVars, walkVars, sbVars
    <2> HIDE DEF walk
    <2> QED
      BY <1>s, <2>1 DEF RecoveryInv
  <1>10. CASE SuperblockUpdated \/ SuperblockNotUpdated
    <2>1. /\ UNCHANGED walk
          /\ state = "updating_superblock"
          /\ state' = "idle"
          /\ superblock' \in {superblock, new_superblock}
      BY <1>10 DEF SuperblockUpdated, SuperblockNotUpdated,
                   CompleteCheckpoint, logVars, walkVars
    <2> HIDE DEF walk
    <2>2. /\ CaughtUp(superblock.position, superblock.unfinished)
          /\ CaughtUp(new_superblock.position, new_superblock.unfinished)
      BY <2>1 DEF RecoveryInv
    <2>3. CASE superblock' = superblock
      BY <1>s, <2>1, <2>2, <2>3 DEF RecoveryInv
    <2>4. CASE superblock' = new_superblock
      BY <1>s, <2>1, <2>2, <2>4 DEF RecoveryInv
    <2> QED
      BY <2>1, <2>3, <2>4
  <1> QED
    BY <1>0, <1>1, <1>2, <1>4, <1>5, <1>6, <1>7, <1>8, <1>9, <1>10, Steps

(* Between checkpoints a recovery finds every record of the index, whatever *)
(* failed before, as long as no checkpoint is asked for while one writes    *)
(* its segments (start_checkpoint, on_sync_complete, on_superblock_update). *)
THEOREM RecoveryIsComplete ==
  ASSUME StartsOverlap = FALSE
  PROVE  Spec => []RecoveryFindsIndex
  <1>1. Inv /\ RecoveryInv => RecoveryFindsIndex
    <2> SUFFICES ASSUME Inv, RecoveryInv, state = "idle", NEW i \in index
                 PROVE  \/ i \in image[log[i]]
                        \/ i > superblock.position
                        \/ i \in superblock.unfinished
                        \/ log[i] \in lost
      BY DEF RecoveryFindsIndex
    <2>1. pending_segments = {}
      BY DEF Inv, TypeOK
    <2> QED
      BY <2>1 DEF RecoveryInv, CaughtUp, Behind
  <1>2. Inv /\ RecoveryInv /\ [Next]_vars => RecoveryInv'
    BY RecoveryInvNext
  <1> QED
    BY <1>1, <1>2, InvInit, InvNext, RecoveryInvInit, PTL DEF Spec

=============================================================================
