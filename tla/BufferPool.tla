------------------------------ MODULE BufferPool ------------------------------
(***************************************************************************)
(* The append buffers (include/spdk_kv/append_buffer.h) and the buffered   *)
(* put of Engine (src/src/engine.cpp) that merges small records into them: *)
(* put_buffered, steps 3 to 6 of poll, submit_buffer_io, the completion    *)
(* of a buffer's IO, the wait queue of puts that found no room, and close. *)
(*                                                                         *)
(* A buffer is named by the order of its creation. A put that waits is     *)
(* written directly, by the path of module WritePath; here it is in        *)
(* `direct' until that path answers.                                       *)
(***************************************************************************)
EXTENDS Integers, Sequences, FiniteSets

CONSTANTS
  Keys,            (* user keys                                             *)
  PutPages,        (* possible sizes of a record, in pages                  *)
  FlushPages,      (* kFlushThreshold, in pages                             *)
  BufferCount,     (* config_.append_buffer_count                           *)
  MaxBufferCount,  (* kMaxBufferCount                                       *)
  HighWater,       (* kBackpressureHighWater                                *)
  LowWater,        (* kBackpressureLowWater                                 *)
  MaxSequence      (* bound on the requests of a behaviour                  *)

ASSUME PoolAssumption ==
  /\ PutPages \subseteq Nat \ {0}
  /\ FlushPages \in Nat \ {0}
  /\ MaxBufferCount \in Nat
  /\ BufferCount \in 1 .. MaxBufferCount
  /\ HighWater \in Nat \ {0}
  /\ LowWater \in Nat
  /\ MaxSequence \in Nat

VARIABLES
  manager,     (* buffer_manager_: the rings, the active buffer, the flag   *)
  buffer_pending_writes, (* per buffer, the writes reserved in it, in order *)
  batch,       (* the local array of buffers poll or close is submitting    *)
  io,          (* buffers whose IO is in flight                             *)
  wait_queue,  (* wait_queue_: sequences of puts that found no room         *)
  direct,      (* puts handed on from the wait queue and not yet answered   *)
  resume_callbacks, (* number of registered resume callbacks                *)
  was_backpressure_active, (* of the last process_resume_notifications      *)
  state,       (* state_, and whether the thread is inside poll             *)
  requests,    (* the key of every put that was given a sequence number     *)
  mem_index,   (* per key, the sequence of its entry; 0 for none            *)
  replies      (* the callbacks each put has received                       *)

vars == <<manager, buffer_pending_writes, batch, io, wait_queue, direct,
          resume_callbacks, was_backpressure_active, state, requests,
          mem_index, replies>>

resumeVars == <<resume_callbacks, was_backpressure_active>>

-----------------------------------------------------------------------------
(* Types *)

Buffers == 1 .. MaxBufferCount

(* active_buffer_ is nullptr.                                               *)
NoBuffer == 0

Sequence == 1 .. MaxSequence

(* Slots of resume_callbacks_ in use: registering in a full ring does       *)
(* nothing. The code has 255; only the presence of a callback matters.      *)
ResumeSlots == 1

Statuses == {"ok", "io_error", "no_space", "internal_error", "not_ready"}

Manager == [active : Buffers \cup {NoBuffer}, used : [Buffers -> Nat],
            submit_ring : Seq(Buffers), complete_ring : Seq(Buffers),
            buffer_count : Nat, backpressure_active : BOOLEAN]

(* BufferedPendingWrite *)
PendingWrite == [seq : Sequence, buffer_offset : Nat, pages : Nat \ {0}]

-----------------------------------------------------------------------------
(* AppendBufferManager: each operator gives the manager after the method.   *)

(* SimpleRing::enqueue. The ring has kMaxBufferCount + 1 cells and keeps one *)
(* of them free; what does not fit is lost, since no caller looks.          *)
Enqueue(ring, b) ==
  IF Len(ring) = MaxBufferCount THEN ring ELSE Append(ring, b)

(* complete_ring_.dequeue(&active_buffer_).                                 *)
TakeFree(m) ==
  IF m.complete_ring = <<>>
  THEN [m EXCEPT !.active = NoBuffer]
  ELSE [m EXCEPT !.active = Head(m.complete_ring),
                 !.complete_ring = Tail(m.complete_ring)]

(* The full buffer is queued but also stays the active one.                 *)
SubmitCurrentBufferAndKeepIt(m) ==
  IF m.active = NoBuffer \/ m.used[m.active] = 0
  THEN m
  ELSE [m EXCEPT !.submit_ring = Enqueue(@, m.active)]

SubmitCurrentBuffer(m) ==
  IF m.active = NoBuffer \/ m.used[m.active] = 0
  THEN m
  ELSE TakeFree([m EXCEPT !.submit_ring = Enqueue(@, m.active)])

(* A returned buffer goes to the ring even if there is no active one.       *)
ReturnBufferToRing(m, b) ==
  [m EXCEPT !.used[b] = 0, !.complete_ring = Enqueue(@, b)]

ReturnBuffer(m, b) ==
  LET m1 == [m EXCEPT !.used[b] = 0, !.complete_ring = Enqueue(@, b)]
  IN  IF m.active = NoBuffer THEN TakeFree(m1) ELSE m1

(* try_expand, below kMaxBufferCount.                                       *)
Expand(m) ==
  LET b  == m.buffer_count + 1
      m1 == [m EXCEPT !.buffer_count = b, !.complete_ring = Enqueue(@, b)]
  IN  IF m.active = NoBuffer THEN TakeFree(m1) ELSE m1

PendingCount(m) == Len(m.submit_ring)

CheckBackpressure(m) ==
  IF m.backpressure_active
  THEN [m EXCEPT !.backpressure_active = PendingCount(m) > LowWater]
  ELSE IF PendingCount(m) < HighWater
  THEN m
  ELSE IF m.buffer_count < MaxBufferCount
  THEN Expand(m)
  ELSE [m EXCEPT !.backpressure_active = TRUE]

(* reserve_with_backpressure finds room: CheckBackpressure came before.     *)
HasRoom(m, pages) ==
  /\ ~m.backpressure_active
  /\ m.active # NoBuffer
  /\ m.used[m.active] + pages <= FlushPages

(* reserve, and the submission of a buffer that is now full.                *)
Reserve(m, pages) ==
  LET m1 == [m EXCEPT !.used[m.active] = @ + pages]
  IN  IF m1.used[m.active] >= FlushPages THEN SubmitCurrentBuffer(m1) ELSE m1

-----------------------------------------------------------------------------
(* Callbacks and index *)

(* replies when the callback of every put in S runs with status.            *)
Answer(S, status) ==
  [s \in Sequence |-> IF s \in S THEN Append(replies[s], status)
                                 ELSE replies[s]]

SequencesIn(b) == { buffer_pending_writes[b][i].seq :
                      i \in DOMAIN buffer_pending_writes[b] }

Waiting == { wait_queue[i] : i \in DOMAIN wait_queue }

(* The index after a loop that stores every entry, older ones included.     *)
StoreLast(S) ==
  [k \in Keys |->
    LET own == { s \in S : requests[s] = k }
    IN  IF own = {} THEN mem_index[k]
        ELSE CHOOSE s \in own : \A t \in own : t <= s]

(* The index after upsert of the entries of the puts in S: the newest stays. *)
UpsertAll(S) ==
  [k \in Keys |->
    LET own == { s \in S : requests[s] = k } \cup {mem_index[k]}
    IN  CHOOSE s \in own : \A t \in own : t <= s]

-----------------------------------------------------------------------------
Init ==
  /\ manager = TakeFree([active |-> NoBuffer, used |-> [b \in Buffers |-> 0],
                         submit_ring |-> <<>>,
                         complete_ring |-> [b \in 1 .. BufferCount |-> b],
                         buffer_count |-> BufferCount,
                         backpressure_active |-> FALSE])
  /\ buffer_pending_writes = [b \in Buffers |-> <<>>]
  /\ batch = <<>>
  /\ io = {}
  /\ wait_queue = <<>>
  /\ direct = {}
  /\ resume_callbacks = 0
  /\ was_backpressure_active = FALSE
  /\ state = "ready"
  /\ requests = <<>>
  /\ mem_index = [k \in Keys |-> 0]
  /\ replies = [s \in Sequence |-> <<>>]

(* Registering without looking for room in the ring.                        *)
RegisterUnbounded == resume_callbacks' = resume_callbacks + 1

(* register_resume_callback *)
Register == resume_callbacks' = IF resume_callbacks < ResumeSlots
                                THEN resume_callbacks + 1
                                ELSE resume_callbacks

(* IOs complete, and their callbacks may call the engine, between two calls *)
(* of the application (step 1 of poll), inside the polling loop of          *)
(* allocate_new_file while poll or close works through its batch, and while *)
(* close waits for the blobs to close.                                      *)
Completing == \/ state \in {"ready", "blobs_closing"}
              \/ state \in {"polling", "closing"} /\ batch # <<>>

(* state_ = kReady, and the thread is where the application can call.       *)
Accepting == \/ state = "ready"
             \/ state = "polling" /\ batch # <<>>

-----------------------------------------------------------------------------
(* put_buffered, with room in the active buffer.                            *)
PutIntoBuffer(k, pages) ==
  LET m == CheckBackpressure(manager)
      s == Len(requests) + 1
      w == [seq |-> s, buffer_offset |-> m.used[m.active], pages |-> pages]
  IN
  /\ Accepting
  /\ Len(requests) < MaxSequence
  /\ HasRoom(m, pages)
  /\ requests' = Append(requests, k)
  /\ buffer_pending_writes' =
       [buffer_pending_writes EXCEPT ![m.active] = Append(@, w)]
  /\ manager' = Reserve(m, pages)
  /\ UNCHANGED <<batch, io, wait_queue, direct, resumeVars, state, mem_index,
                 replies>>

(* put_buffered, without: the put is copied and waits, with or without      *)
(* backpressure, since reserve_with_backpressure reports both in one way.   *)
PutToWaitQueue(k, pages) ==
  LET m == CheckBackpressure(manager) IN
  /\ Accepting
  /\ Len(requests) < MaxSequence
  /\ ~HasRoom(m, pages)
  /\ requests' = Append(requests, k)
  /\ wait_queue' = Append(wait_queue, Len(requests) + 1)
  /\ manager' = m
  /\ Register
  /\ UNCHANGED <<buffer_pending_writes, batch, io, direct,
                 was_backpressure_active, state, mem_index, replies>>

-----------------------------------------------------------------------------
(* poll *)

(* Steps 3 and 4 up to the loop: the flush trigger may submit the active    *)
(* buffer, then the submitted buffers move to the local array. The time and *)
(* the number of entries decide on the flush.                               *)
PollBegin(flush) ==
  LET m == IF flush THEN SubmitCurrentBuffer(manager) ELSE manager IN
  /\ state = "ready"
  /\ state' = "polling"
  /\ batch' = m.submit_ring
  /\ manager' = [m EXCEPT !.submit_ring = <<>>]
  /\ UNCHANGED <<buffer_pending_writes, io, wait_queue, direct, resumeVars,
                 requests, mem_index, replies>>

(* submit_buffer_io: the buffer gets its place in the active file, or in a  *)
(* new one, and its write is submitted.                                     *)
SubmitBufferIo ==
  /\ batch # <<>>
  /\ batch' = Tail(batch)
  /\ io' = io \cup {Head(batch)}
  /\ UNCHANGED <<manager, buffer_pending_writes, wait_queue, direct,
                 resumeVars, state, requests, mem_index, replies>>

(* submit_buffer_io, when allocate_new_file gives no file.                  *)
SubmitBufferIoNoSpace ==
  LET b == Head(batch) IN
  /\ batch # <<>>
  /\ batch' = Tail(batch)
  /\ replies' = Answer(SequencesIn(b), "no_space")
  /\ buffer_pending_writes' = [buffer_pending_writes EXCEPT ![b] = <<>>]
  /\ manager' = ReturnBuffer(manager, b)
  /\ UNCHANGED <<io, wait_queue, direct, resumeVars, state, requests,
                 mem_index>>

(* process_wait_queue without its loop: only the first put is taken.        *)
ProcessOneWaiting ==
  /\ direct' = direct \cup (IF wait_queue = <<>> THEN {} ELSE {Head(wait_queue)})
  /\ wait_queue' = <<>>

(* process_wait_queue on the transition out of backpressure only.           *)
ProcessWaitQueueOnRelief ==
  IF was_backpressure_active
  THEN direct' = direct \cup Waiting /\ wait_queue' = <<>>
  ELSE UNCHANGED <<direct, wait_queue>>

(* process_wait_queue: every waiting put is written directly, or queued     *)
(* behind the allocation of a file.                                         *)
ProcessWaitQueue ==
  /\ direct' = direct \cup Waiting
  /\ wait_queue' = <<>>

(* Steps 5 and 6. The resume callbacks run on the transition out of         *)
(* backpressure; each of them is process_wait_queue, which step 6 calls     *)
(* too.                                                                     *)
PollEnd ==
  /\ state = "polling"
  /\ batch = <<>>
  /\ state' = "ready"
  /\ was_backpressure_active' = manager.backpressure_active
  /\ resume_callbacks' =
       IF was_backpressure_active /\ ~manager.backpressure_active
       THEN 0 ELSE resume_callbacks
  /\ \/ /\ ~manager.backpressure_active
        /\ ProcessWaitQueue
     \/ /\ manager.backpressure_active
        /\ UNCHANGED <<wait_queue, direct>>
  /\ UNCHANGED <<manager, buffer_pending_writes, batch, io, requests,
                 mem_index, replies>>

-----------------------------------------------------------------------------
(* Completions *)

(* on_buffer_io_complete with status 0: all writes of the buffer enter the  *)
(* index and are answered; the buffer returns.                              *)
BufferIoComplete(b) ==
  /\ Completing
  /\ b \in io
  /\ io' = io \ {b}
  /\ mem_index' = UpsertAll(SequencesIn(b))
  /\ replies' = Answer(SequencesIn(b), "ok")
  /\ buffer_pending_writes' = [buffer_pending_writes EXCEPT ![b] = <<>>]
  /\ manager' = ReturnBuffer(manager, b)
  /\ UNCHANGED <<batch, wait_queue, direct, resumeVars, state, requests>>

(* The same with an error.                                                  *)
BufferIoFailed(b) ==
  /\ Completing
  /\ b \in io
  /\ io' = io \ {b}
  /\ replies' = Answer(SequencesIn(b), "io_error")
  /\ buffer_pending_writes' = [buffer_pending_writes EXCEPT ![b] = <<>>]
  /\ manager' = ReturnBuffer(manager, b)
  /\ UNCHANGED <<batch, wait_queue, direct, resumeVars, state, requests,
                 mem_index>>

(* The direct write of a put that had waited ends.                          *)
DirectComplete(s) ==
  /\ Completing
  /\ s \in direct
  /\ direct' = direct \ {s}
  /\ mem_index' = UpsertAll({s})
  /\ replies' = Answer({s}, "ok")
  /\ UNCHANGED <<manager, buffer_pending_writes, batch, io, wait_queue,
                 resumeVars, state, requests>>

(* Its write, or the allocation it waited for, fails.                       *)
DirectFailed(s) ==
  /\ Completing
  /\ s \in direct
  /\ direct' = direct \ {s}
  /\ \E status \in {"io_error", "no_space", "internal_error"} :
       replies' = Answer({s}, status)
  /\ UNCHANGED <<manager, buffer_pending_writes, batch, io, wait_queue,
                 resumeVars, state, requests, mem_index>>

-----------------------------------------------------------------------------
(* close *)

(* From the call to the loop that submits the pending buffers.              *)
CloseBegin ==
  LET m == SubmitCurrentBuffer(manager) IN
  /\ state = "ready"
  /\ state' = "closing"
  /\ batch' = m.submit_ring
  /\ manager' = [m EXCEPT !.submit_ring = <<>>]
  /\ UNCHANGED <<buffer_pending_writes, io, wait_queue, direct, resumeVars,
                 requests, mem_index, replies>>

(* The puts that wait are refused, the writes in flight forgotten.          *)
CloseFlushed ==
  /\ state = "closing"
  /\ batch = <<>>
  /\ state' = "blobs_closing"
  /\ replies' = Answer(Waiting, "not_ready")
  /\ wait_queue' = <<>>
  /\ buffer_pending_writes' = [b \in Buffers |-> <<>>]
  /\ UNCHANGED <<manager, batch, io, direct, resumeVars, requests, mem_index>>

(* close waits for blob operations, not for writes, and tears down.         *)
CloseEnd ==
  /\ state = "blobs_closing"
  /\ state' = "closed"
  /\ UNCHANGED <<manager, buffer_pending_writes, batch, io, wait_queue,
                 direct, resumeVars, requests, mem_index, replies>>

-----------------------------------------------------------------------------
Put == \E k \in Keys, pages \in PutPages :
         PutIntoBuffer(k, pages) \/ PutToWaitQueue(k, pages)

Poll == \/ \E flush \in BOOLEAN : PollBegin(flush)
        \/ PollEnd

Submission == SubmitBufferIo \/ SubmitBufferIoNoSpace

BufferCompletion(b) == BufferIoComplete(b) \/ BufferIoFailed(b)
DirectCompletion(s) == DirectComplete(s) \/ DirectFailed(s)

Completion == \/ \E b \in io : BufferCompletion(b)
              \/ \E s \in direct : DirectCompletion(s)

Close == CloseBegin \/ CloseFlushed \/ CloseEnd

Next == Put \/ Poll \/ Submission \/ Completion \/ Close

Spec == Init /\ [][Next]_vars

(* The application keeps calling poll, which always returns. Time passes:   *)
(* last_flush_ns_ only moves when a flush is made, so a poll flushes again  *)
(* and again. The device answers every IO, and every poll begins by         *)
(* processing completions; a completion is not possible at every moment of  *)
(* a poll, hence strong fairness. It is asked of the writes of buffers and  *)
(* of the direct ones as a whole, which is less than the device gives: the  *)
(* puts of a behaviour are finitely many. Nothing makes the application put.*)
Fairness ==
  /\ WF_vars(Poll)
  /\ WF_vars(Submission)
  /\ SF_vars(PollBegin(TRUE))
  /\ SF_vars(\E b \in io : BufferCompletion(b))
  /\ SF_vars(\E s \in direct : DirectCompletion(s))

FairSpec == Spec /\ Fairness

-----------------------------------------------------------------------------
(* Properties *)

TypeOK ==
  /\ manager \in Manager
  /\ buffer_pending_writes \in [Buffers -> Seq(PendingWrite)]
  /\ batch \in Seq(Buffers)
  /\ io \subseteq Buffers
  /\ wait_queue \in Seq(Sequence)
  /\ direct \subseteq Sequence
  /\ resume_callbacks \in 0 .. ResumeSlots
  /\ was_backpressure_active \in BOOLEAN
  /\ state \in {"ready", "polling", "closing", "blobs_closing", "closed"}
  /\ requests \in Seq(Keys) /\ Len(requests) <= MaxSequence
  /\ mem_index \in [Keys -> 0 .. MaxSequence]
  /\ replies \in [Sequence -> Seq(Statuses)]

InRing(ring) == { ring[i] : i \in DOMAIN ring }

NoRepeat(ring) ==
  \A i, j \in DOMAIN ring : ring[i] = ring[j] => i = j

(* Every buffer of the pool is in exactly one place: it is the active one,  *)
(* submitted, free, in the array poll works through, or in flight. None is  *)
(* lost by a full ring and none is handed out while its data is being       *)
(* written, when buffers return, are added, or fail to get a file.          *)
BuffersConserved ==
  LET places == << InRing(manager.submit_ring), InRing(manager.complete_ring),
                   InRing(batch), io, {manager.active} \ {NoBuffer} >>
  IN  /\ UNION { places[i] : i \in 1 .. 5 } = 1 .. manager.buffer_count
      /\ \A i, j \in 1 .. 5 : i # j => places[i] \cap places[j] = {}
      /\ NoRepeat(manager.submit_ring)
      /\ NoRepeat(manager.complete_ring)
      /\ NoRepeat(batch)

(* No put is refused room while a free buffer lies in the ring: reserve     *)
(* looks at the active buffer only.                                         *)
NoIdleBuffer == manager.active = NoBuffer => manager.complete_ring = <<>>

(* Where a put is while its callback has not run.                           *)
Holders(s) == { b \in Buffers : s \in SequencesIn(b) }

(* While the engine is open, every put is held by exactly one buffer, or by *)
(* the wait queue, or by the direct path, or it has had its callback called *)
(* exactly once.                                                            *)
OneReplyEach ==
  state \in {"ready", "polling"} =>
    \A s \in 1 .. Len(requests) :
      Cardinality(Holders(s)) + Cardinality(Waiting \cap {s})
        + Cardinality(direct \cap {s}) + Len(replies[s]) = 1

(* A put that was answered with success is in the index, or a newer one of  *)
(* its key is, although buffers and direct writes complete in any order and *)
(* a buffer holds several puts of a key.                                    *)
AnsweredIsIndexed ==
  \A s \in 1 .. Len(requests) :
    "ok" \in InRing(replies[s]) => mem_index[requests[s]] >= s

(* A pool that starts below the high-water mark (4 buffers and 12 by        *)
(* default) never sees backpressure and never grows: the submitted buffers  *)
(* are what pending_count counts, and there are never enough of them.       *)
NoBackpressureBelowHighWater ==
  BufferCount < HighWater => /\ ~manager.backpressure_active
                             /\ manager.buffer_count = BufferCount

(* Every put is answered, also the ones that had to wait, unless the engine *)
(* is closed first.                                                         *)
EveryPutAnswered ==
  \A s \in Sequence :
    Len(requests) >= s ~> replies[s] # <<>> \/ state \notin {"ready", "polling"}

(* The flag is up although the submit ring has drained.                     *)
FlagIsStale ==
  manager.backpressure_active /\ PendingCount(manager) <= LowWater

(* Every put of a pool at its limit is answered, unless the engine is       *)
(* closed, or the put is left in the wait queue for good behind a flag that *)
(* the ring no longer bears out: only a put evaluates the flag, so no poll  *)
(* takes it back. Nothing else strands a put: not an IO or an allocation    *)
(* that fails, a buffer that returns late, nor a flag that goes up, down    *)
(* and up again while puts wait.                                            *)
OnlyStaleFlagStrands ==
  \A s \in Sequence :
    Len(requests) >= s ~>
      \/ replies[s] # <<>>
      \/ state \notin {"ready", "polling"}
      \/ [](s \in Waiting /\ FlagIsStale)

=============================================================================
