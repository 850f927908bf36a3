---------------------------- MODULE KVStoreProofs ----------------------------
(***************************************************************************)
(* WritePath implements KVStore: for every set of keys, every record and   *)
(* file size and every bound, each step of the engine is a step of the     *)
(* store or leaves the store as it is.                                     *)
(*                                                                         *)
(* The argument. A request is in one place at a time, one of the two       *)
(* queues or in flight, and has no answer while it is there; so taking it  *)
(* out answers it once and leaves every other request open. What the index *)
(* and the reads point at is the record they were made from, because no    *)
(* two records overlap (WritePathProofs), so the values the device holds   *)
(* there are the sequence numbers the index and the reads remember.        *)
(***************************************************************************)
EXTENDS WritePathProofs

(* No two requests of a queue have one sequence number.                     *)
Distinct(queue) ==
  \A i, j \in DOMAIN queue : queue[i].seq = queue[j].seq => i = j

InFlight == { w.seq : w \in inflight }

(* Every sequence number the engine holds was allocated and is in one place.*)
OnePlaceEach ==
  /\ Distinct(pending_write_queue)
  /\ Distinct(draining)
  /\ \A v, w \in inflight : v.seq = w.seq => v = w
  /\ SequencesOf(pending_write_queue) \cap SequencesOf(draining) = {}
  /\ SequencesOf(pending_write_queue) \cap InFlight = {}
  /\ SequencesOf(draining) \cap InFlight = {}
  /\ \A s \in Sequence : Outstanding(s) => s <= global_sequence

RInv == IInv /\ OnePlaceEach /\ OneReplyEach

-----------------------------------------------------------------------------
(* Queues *)

LEMMA Appending ==
  ASSUME NEW queue \in Seq(Request), NEW r \in Request
  PROVE  /\ SequencesOf(Append(queue, r)) = SequencesOf(queue) \cup {r.seq}
         /\ Bares(Append(queue, r)) = Bares(queue) \cup {Bare(r)}
         /\ Distinct(queue) /\ r.seq \notin SequencesOf(queue)
              => Distinct(Append(queue, r))
<1>1. /\ Len(queue) \in Nat
      /\ DOMAIN queue = 1 .. Len(queue)
      /\ DOMAIN Append(queue, r) = 1 .. Len(queue) + 1
      /\ \A i \in 1 .. Len(queue) : Append(queue, r)[i] = queue[i]
      /\ Append(queue, r)[Len(queue) + 1] = r
  OBVIOUS
<1> DEFINE q == Append(queue, r)
<1> HIDE DEF q
<1>2. /\ DOMAIN q = 1 .. Len(queue) + 1
      /\ \A i \in 1 .. Len(queue) : q[i] = queue[i]
      /\ q[Len(queue) + 1] = r
  BY <1>1 DEF q
<1>3. \A i \in DOMAIN q : i \in DOMAIN queue \/ i = Len(queue) + 1
  BY <1>1, <1>2
<1>4. SequencesOf(q) = SequencesOf(queue) \cup {r.seq}
  BY <1>1, <1>2, <1>3 DEF SequencesOf
<1>5. Bares(q) = Bares(queue) \cup {Bare(r)}
  BY <1>1, <1>2, <1>3 DEF Bares
<1>6. ASSUME Distinct(queue), r.seq \notin SequencesOf(queue)
      PROVE  Distinct(q)
  BY <1>1, <1>2, <1>3, <1>6 DEF Distinct, SequencesOf
<1> QED
  BY <1>4, <1>5, <1>6 DEF q

LEMMA TakingHead ==
  ASSUME NEW queue \in Seq(Request), queue # <<>>, Distinct(queue)
  PROVE  /\ Head(queue) \in Request
         /\ Tail(queue) \in Seq(Request)
         /\ Distinct(Tail(queue))
         /\ SequencesOf(Tail(queue)) = SequencesOf(queue) \ {Head(queue).seq}
         /\ Head(queue).seq \in SequencesOf(queue)
         /\ Bares(queue) = Bares(Tail(queue)) \cup {Bare(Head(queue))}
         /\ \A b \in Bares(Tail(queue)) : b.seq # Head(queue).seq
<1>1. /\ Len(queue) \in Nat \ {0}
      /\ DOMAIN queue = 1 .. Len(queue)
      /\ Head(queue) = queue[1]
      /\ Tail(queue) \in Seq(Request)
      /\ DOMAIN Tail(queue) = 1 .. Len(queue) - 1
      /\ \A i \in 1 .. Len(queue) - 1 : Tail(queue)[i] = queue[i + 1]
  OBVIOUS
<1> DEFINE t == Tail(queue)
           h == Head(queue)
<1> HIDE DEF t, h
<1>2. /\ h = queue[1] /\ h \in Request
      /\ DOMAIN t = 1 .. Len(queue) - 1
      /\ \A i \in DOMAIN t : i + 1 \in DOMAIN queue /\ t[i] = queue[i + 1]
      /\ 1 \in DOMAIN queue
      /\ \A i \in DOMAIN queue :
           i = 1 \/ (i - 1 \in DOMAIN t /\ queue[i] = t[i - 1])
  BY <1>1 DEF t, h
<1>3. Distinct(t)
  BY <1>1, <1>2 DEF Distinct
<1>4. \A i \in DOMAIN t : t[i].seq # h.seq
  BY <1>1, <1>2 DEF Distinct
<1>5. SequencesOf(t) = SequencesOf(queue) \ {h.seq} /\ h.seq \in SequencesOf(queue)
  <2>1. h.seq \in SequencesOf(queue)
    BY <1>2 DEF SequencesOf
  <2>2. \A s : s \in SequencesOf(t) => s \in SequencesOf(queue) /\ s # h.seq
    BY <1>2, <1>4 DEF SequencesOf
  <2>3. \A s : s \in SequencesOf(queue) /\ s # h.seq => s \in SequencesOf(t)
    BY <1>2 DEF SequencesOf
  <2> QED
    BY <2>1, <2>2, <2>3
<1>6. Bares(queue) = Bares(t) \cup {Bare(h)}
  <2>1. \A b : b \in Bares(t) \/ b = Bare(h) => b \in Bares(queue)
    BY <1>2 DEF Bares
  <2>2. \A b : b \in Bares(queue) => b \in Bares(t) \/ b = Bare(h)
    BY <1>2 DEF Bares
  <2> QED
    BY <2>1, <2>2
<1>7. \A b \in Bares(t) : b.seq # h.seq
  BY <1>4 DEF Bares, Bare
<1> QED
  BY <1>1, <1>2, <1>3, <1>5, <1>6, <1>7 DEF t, h

(* The bare requests of a queue carry its sequence numbers.                 *)
LEMMA BareSequences ==
  ASSUME NEW queue
  PROVE  /\ \A b \in Bares(queue) : b.seq \in SequencesOf(queue)
         /\ \A s \in SequencesOf(queue) : \E b \in Bares(queue) : b.seq = s
<1>1. ASSUME NEW b \in Bares(queue) PROVE b.seq \in SequencesOf(queue)
  <2>1. PICK i \in DOMAIN queue : b = Bare(queue[i])
    BY DEF Bares
  <2>2. b.seq = queue[i].seq
    BY <2>1 DEF Bare
  <2> QED
    BY <2>2 DEF SequencesOf
<1>2. ASSUME NEW s \in SequencesOf(queue) PROVE \E b \in Bares(queue) : b.seq = s
  <2>1. PICK i \in DOMAIN queue : s = queue[i].seq
    BY DEF SequencesOf
  <2>2. Bare(queue[i]) \in Bares(queue) /\ Bare(queue[i]).seq = s
    BY <2>1 DEF Bares, Bare
  <2> QED
    BY <2>2
<1> QED
  BY <1>1, <1>2

-----------------------------------------------------------------------------
(* Answers *)

(* A callback that runs for the first time is the only one.                 *)
LEMMA FirstAnswer ==
  ASSUME NEW status \in Statuses
  PROVE  /\ Append(<<>>, status) # <<>>
         /\ Len(Append(<<>>, status)) = 1
         /\ Append(<<>>, status)[1] = status
OBVIOUS

(* A request the engine holds, and one it has not been given, has no answer.*)
LEMMA NoAnswerYet ==
  ASSUME RInv, NEW s \in Sequence, Outstanding(s) \/ s > global_sequence
  PROVE  replies[s] = <<>>
<1>1. Len(replies[s]) = 0
  BY DEF RInv, IInv, TypeOK, OneReplyEach, Sequence
<1>2. replies[s] \in Seq(Statuses)
  BY DEF RInv, IInv, TypeOK
<1> QED
  BY <1>1, <1>2

(* The callbacks of the requests in some run, and fresh requests, one or    *)
(* none, are accepted: every request that was given a number is still in    *)
(* the engine or has one answer.                                            *)
LEMMA Answering ==
  ASSUME RInv, TypeOK', NEW some, NEW status \in Statuses, NEW fresh \in {0, 1},
         global_sequence' = global_sequence + fresh,
         \A s \in Sequence :
           replies'[s] = IF s \in some THEN Append(replies[s], status)
                         ELSE replies[s],
         \A s \in Sequence :
           /\ Outstanding(s)' <=> /\ \/ Outstanding(s)
                                     \/ fresh = 1 /\ s = global_sequence + 1
                                  /\ s \notin some
           /\ s \in some => \/ Outstanding(s)
                            \/ fresh = 1 /\ s = global_sequence + 1
  PROVE  /\ Answers' = [s \in Sequence |->
                          IF s \in some
                          THEN (IF status = "ok" THEN "ok" ELSE "failed")
                          ELSE Answers[s]]
         /\ OneReplyEach'
         /\ \A s \in Sequence : Outstanding(s)' => s <= global_sequence'
<1>1. global_sequence \in Nat /\ \A s \in Sequence : s \in Nat
  BY DEF RInv, IInv, TypeOK, Sequence
<1>2. \A s \in Sequence : s \in some => replies[s] = <<>>
  BY <1>1, NoAnswerYet
<1>3. ASSUME NEW s \in Sequence, s \in some
      PROVE  /\ replies'[s] # <<>> /\ Len(replies'[s]) = 1
             /\ replies'[s][1] = status
  <2>1. replies'[s] = Append(<<>>, status)
    BY <1>2, <1>3
  <2> QED
    BY <2>1, FirstAnswer
<1>4. \A s \in Sequence : s \notin some => replies'[s] = replies[s]
  OBVIOUS
<1>5. Answers' = [s \in Sequence |->
                   IF s \in some THEN (IF status = "ok" THEN "ok" ELSE "failed")
                   ELSE Answers[s]]
  <2> DEFINE told == IF status = "ok" THEN "ok" ELSE "failed"
  <2>1. ASSUME NEW s \in Sequence, s \in some PROVE Answers'[s] = told
    <3>1. Answers'[s] = IF replies'[s] = <<>> THEN "none"
                        ELSE IF Len(replies'[s]) > 1 THEN "twice"
                        ELSE IF replies'[s][1] = "ok" THEN "ok" ELSE "failed"
      BY DEF Answers
    <3>2. replies'[s] # <<>> /\ Len(replies'[s]) = 1 /\ replies'[s][1] = status
      BY <1>3, <2>1
    <3>3. ~(Len(replies'[s]) > 1)
      BY <3>2
    <3> QED
      BY <3>1, <3>2, <3>3, Zenon
  <2>2. ASSUME NEW s \in Sequence, s \notin some PROVE Answers'[s] = Answers[s]
    BY <1>4, <2>2 DEF Answers
  <2>3. Answers' = [s \in Sequence |-> Answers'[s]]
    BY DEF Answers
  <2> HIDE DEF told
  <2>4. Answers' = [s \in Sequence |-> IF s \in some THEN told ELSE Answers[s]]
    BY <2>1, <2>2, <2>3
  <2> QED
    BY <2>4 DEF told
<1>6. \A s \in Sequence : Outstanding(s) => s <= global_sequence
  BY DEF RInv, OnePlaceEach
<1>7. \A s \in Sequence : Outstanding(s)' => s <= global_sequence'
  BY <1>1, <1>6
<1>8. ASSUME NEW s \in Sequence
      PROVE  Len(replies'[s]) = IF s <= global_sequence' /\ ~Outstanding(s)'
                                THEN 1 ELSE 0
  <2>1. Len(replies[s]) = IF s <= global_sequence /\ ~Outstanding(s) THEN 1 ELSE 0
    BY DEF RInv, OneReplyEach
  <2>2. CASE s \in some
    <3>1. Len(replies'[s]) = 1
      BY <1>3, <2>2
    <3>2. ~Outstanding(s)'
      BY <2>2
    <3>3. s <= global_sequence'
      BY <1>1, <1>6, <2>2
    <3> QED
      BY <3>1, <3>2, <3>3
  <2>3. CASE s \notin some
    BY <1>1, <1>4, <2>1, <2>3
  <2> QED
    BY <2>2, <2>3
<1>9. OneReplyEach'
  BY <1>8 DEF OneReplyEach
<1> QED
  BY <1>5, <1>7, <1>9

-----------------------------------------------------------------------------
(* Values *)

(* The device holds one record at a place.                                  *)
LEMMA ValueThere ==
  ASSUME IInv, NEW d \in disk, NEW e, d.file = e.file, d.offset = e.offset
  PROVE  ValueAt(e) = d.seq
<1> DEFINE c == CHOOSE x \in disk : x.file = e.file /\ x.offset = e.offset
<1>1. c \in disk /\ c.file = e.file /\ c.offset = e.offset
  OBVIOUS
<1> HIDE DEF c
<1>2. /\ c \in Write /\ d \in Write
      /\ c.offset \in Nat /\ c.pages \in Nat \ {0} /\ d.pages \in Nat \ {0}
  BY <1>1 DEF IInv, TypeOK, Write
<1>3. Overlap(c, d)
  BY <1>1, <1>2 DEF Overlap
<1>4. c = d
  BY <1>1, <1>3 DEF IInv, NoOverlap
<1> QED
  BY <1>4 DEF ValueAt, c

RememberedValues ==
  [k \in Keys |-> IF mem_index[k] = NoEntry THEN 0 ELSE mem_index[k].seq]

RememberedReads == { [key |-> r.key, value |-> r.seq] : r \in reads }

(* What the device holds where an entry or a read points is what the entry  *)
(* and the read remember.                                                   *)
ValuesMatch == StoredValues = RememberedValues /\ ReadsUnderWay = RememberedReads

LEMMA ValuesRemembered == IInv => ValuesMatch
<1> SUFFICES ASSUME IInv PROVE ValuesMatch
  OBVIOUS
<1>1. ASSUME NEW k \in Keys, mem_index[k] # NoEntry
      PROVE  ValueAt(mem_index[k]) = mem_index[k].seq
  <2>1. PICK d \in disk : /\ d.seq = mem_index[k].seq
                          /\ d.file = mem_index[k].file
                          /\ d.offset = mem_index[k].offset
    BY <1>1 DEF IInv, EntriesFromDisk
  <2> QED
    BY <2>1, ValueThere
<1>2. ASSUME NEW r \in reads PROVE ValueAt(r) = r.seq
  <2>1. PICK d \in disk : d.seq = r.seq /\ d.file = r.file /\ d.offset = r.offset
    BY DEF IInv, ReadsFromDisk
  <2> QED
    BY <2>1, ValueThere
<1>3. StoredValues = RememberedValues
  BY <1>1 DEF StoredValues, RememberedValues
<1>4. ReadsUnderWay = RememberedReads
  BY <1>2 DEF ReadsUnderWay, RememberedReads
<1> QED
  BY <1>3, <1>4 DEF ValuesMatch

(* A step that touches neither the index nor the reads changes no value.    *)
LEMMA ValuesKept ==
  ASSUME IInv, IInv'
  PROVE  /\ ValuesMatch /\ ValuesMatch'
         /\ UNCHANGED mem_index => UNCHANGED <<StoredValues, LiveKeys>>
         /\ UNCHANGED reads => UNCHANGED ReadsUnderWay
<1>1. ValuesMatch
  BY ValuesRemembered
<1>2. ValuesMatch'
  BY ValuesRemembered, PTL
<1>3. UNCHANGED mem_index => UNCHANGED <<StoredValues, LiveKeys>>
  BY <1>1, <1>2 DEF ValuesMatch, RememberedValues, LiveKeys, Find
<1>4. UNCHANGED reads => UNCHANGED ReadsUnderWay
  BY <1>1, <1>2 DEF ValuesMatch, RememberedReads
<1> QED
  BY <1>1, <1>2, <1>3, <1>4

-----------------------------------------------------------------------------
(* Steps of the engine as steps of the store *)

StoreStep == [Store!Next]_(Store!storeVars)

(* A request is outstanding when it is open.                                *)
LEMMA OutstandingIsOpen ==
  ASSUME NEW s \in Sequence
  PROVE  Outstanding(s) <=> \E b \in OpenRequests : b.seq = s
<1>1. ASSUME NEW b \in OpenRequests, b.seq = s PROVE Outstanding(s)
  <2>1. CASE b \in Bares(pending_write_queue)
    BY <1>1, <2>1, BareSequences DEF Outstanding
  <2>2. CASE b \in Bares(draining)
    BY <1>1, <2>2, BareSequences DEF Outstanding
  <2>3. CASE \E w \in inflight : b = Bare(w)
    <3>1. PICK w \in inflight : b = Bare(w)
      BY <2>3
    <3>2. w.seq = s
      BY <1>1, <3>1 DEF Bare
    <3> QED
      BY <3>2 DEF Outstanding
  <2> QED
    BY <2>1, <2>2, <2>3 DEF OpenRequests
<1>2. ASSUME Outstanding(s) PROVE \E b \in OpenRequests : b.seq = s
  <2>1. CASE s \in SequencesOf(pending_write_queue) \cup SequencesOf(draining)
    BY <2>1, BareSequences DEF OpenRequests
  <2>2. CASE \E w \in inflight : w.seq = s
    <3>1. PICK w \in inflight : w.seq = s
      BY <2>2
    <3>2. Bare(w).seq = s /\ Bare(w) \in OpenRequests
      BY <3>1 DEF Bare, OpenRequests
    <3> QED
      BY <3>2
  <2> QED
    BY <1>2, <2>1, <2>2 DEF Outstanding
<1> QED
  BY <1>1, <1>2

(* Requests fail and nothing else happens.                                  *)
LEMMA FailStep ==
  ASSUME NEW failed \in SUBSET OpenRequests, NEW some,
         OpenRequests' = OpenRequests \ failed,
         \A s \in Sequence : s \in some <=> \E b \in failed : b.seq = s,
         Answers' = [s \in Sequence |-> IF s \in some THEN "failed"
                                        ELSE Answers[s]],
         UNCHANGED <<global_sequence, StoredValues, LiveKeys, ReadsUnderWay>>
  PROVE  StoreStep
<1>1. Answers' = Store!Answer(failed, "failed")
  BY DEF Store!Answer, Sequence
<1>2. Store!Fail
  BY <1>1 DEF Store!Fail
<1> QED
  BY <1>2 DEF StoreStep, Store!Next

(* A step that leaves the requests alone.                                   *)
LEMMA RequestsKept ==
  ASSUME RInv, UNCHANGED <<pending_write_queue, draining, inflight,
                           global_sequence, replies>>
  PROVE  /\ OnePlaceEach' /\ OneReplyEach'
         /\ UNCHANGED <<OpenRequests, Answers>>
<1>1. OnePlaceEach'
  BY DEF RInv, OnePlaceEach, Distinct, SequencesOf, InFlight, Outstanding
<1>2. OneReplyEach'
  BY DEF RInv, OneReplyEach, Outstanding, SequencesOf
<1>3. UNCHANGED <<OpenRequests, Answers>>
  BY DEF OpenRequests, Answers, Bares, Bare
<1> QED
  BY <1>1, <1>2, <1>3

LEMMA BlobOpenedStep ==
  ASSUME RInv, IInv', BlobOpened
  PROVE  RInv' /\ StoreStep
<1>1. UNCHANGED <<pending_write_queue, draining, inflight, mem_index, reads,
                  global_sequence, replies>>
  BY DEF BlobOpened, queueVars, dataVars
<1>2. OnePlaceEach' /\ OneReplyEach' /\ UNCHANGED <<OpenRequests, Answers>>
  BY <1>1, RequestsKept
<1>3. UNCHANGED <<StoredValues, LiveKeys, ReadsUnderWay>>
  BY <1>1, ValuesKept DEF RInv
<1> QED
  BY <1>1, <1>2, <1>3 DEF RInv, StoreStep, Store!storeVars

LEMMA GetStep ==
  ASSUME RInv, IInv', NEW k \in Keys, GetAsync(k)
  PROVE  RInv' /\ StoreStep
<1> DEFINE r == [key |-> k, file |-> mem_index[k].file,
                 pages |-> mem_index[k].pages,
                 offset |-> mem_index[k].offset, seq |-> mem_index[k].seq]
<1>1. /\ UNCHANGED <<pending_write_queue, draining, inflight, mem_index,
                     global_sequence, replies>>
      /\ reads' = reads \cup {r}
      /\ Find(k)
  BY DEF GetAsync, queueVars, dataVars
<1>2. OnePlaceEach' /\ OneReplyEach' /\ UNCHANGED <<OpenRequests, Answers>>
  BY <1>1, RequestsKept
<1>3. ValuesMatch /\ ValuesMatch' /\ UNCHANGED <<StoredValues, LiveKeys>>
  BY <1>1, ValuesKept DEF RInv
<1>4. StoredValues[k] = mem_index[k].seq
  BY <1>1, <1>3 DEF ValuesMatch, RememberedValues, Find
<1>5. r.key = k /\ r.seq = mem_index[k].seq
  OBVIOUS
<1> HIDE DEF r
<1>6. RememberedReads' = RememberedReads
                           \cup {[key |-> k, value |-> StoredValues[k]]}
  BY <1>1, <1>4, <1>5 DEF RememberedReads
<1>7. Store!Get(k)
  BY <1>1, <1>2, <1>3, <1>6 DEF Store!Get, ValuesMatch, LiveKeys
<1> QED
  BY <1>2, <1>7 DEF RInv, StoreStep, Store!Next

LEMMA ReturnStep ==
  ASSUME RInv, IInv', NEW r \in reads, GetComplete(r)
  PROVE  RInv' /\ StoreStep
<1> DEFINE b == [key |-> r.key, value |-> r.seq]
<1>1. /\ UNCHANGED <<pending_write_queue, draining, inflight, mem_index,
                     global_sequence, replies>>
      /\ reads' = reads \ {r}
  BY DEF GetComplete, queueVars, dataVars
<1>2. OnePlaceEach' /\ OneReplyEach' /\ UNCHANGED <<OpenRequests, Answers>>
  BY <1>1, RequestsKept
<1>3. ValuesMatch /\ ValuesMatch' /\ UNCHANGED <<StoredValues, LiveKeys>>
  BY <1>1, ValuesKept DEF RInv
<1>4. b \in RememberedReads
  BY DEF RememberedReads
<1>5. RememberedReads \ {b} \subseteq RememberedReads'
  BY <1>1 DEF RememberedReads
<1>6. RememberedReads' \subseteq RememberedReads
  BY <1>1 DEF RememberedReads
<1> HIDE DEF b
<1>7. CASE b \in RememberedReads'
  <2>1. UNCHANGED ReadsUnderWay
    BY <1>3, <1>4, <1>5, <1>6, <1>7 DEF ValuesMatch
  <2> QED
    BY <1>1, <1>2, <1>3, <2>1 DEF RInv, StoreStep, Store!storeVars
<1>8. CASE b \notin RememberedReads'
  <2>1. ReadsUnderWay' = ReadsUnderWay \ {b} /\ b \in ReadsUnderWay
    BY <1>3, <1>4, <1>5, <1>6, <1>8 DEF ValuesMatch
  <2>2. Store!Return(b)
    BY <1>1, <1>2, <1>3, <2>1 DEF Store!Return
  <2> QED
    BY <1>2, <2>1, <2>2 DEF RInv, StoreStep, Store!Next
<1> QED
  BY <1>7, <1>8

(* on_new_file_allocated(true) moves the queue to the local one.            *)
LEMMA AllocatedStep ==
  ASSUME RInv, IInv', NewFileAllocated
  PROVE  RInv' /\ StoreStep
<1>1. /\ UNCHANGED <<inflight, mem_index, reads, global_sequence, replies>>
      /\ draining = <<>> /\ draining' = pending_write_queue
      /\ pending_write_queue' = <<>>
  BY DEF NewFileAllocated, BetweenHandlers, dataVars
<1>2. SequencesOf(<<>>) = {} /\ Bares(<<>>) = {}
  BY DEF SequencesOf, Bares
<1>3. /\ SequencesOf(draining)' = SequencesOf(pending_write_queue)
      /\ Bares(draining)' = Bares(pending_write_queue)
      /\ SequencesOf(pending_write_queue)' = {}
      /\ Bares(pending_write_queue)' = {}
      /\ SequencesOf(draining) = {}
      /\ Bares(draining) = {}
      /\ InFlight' = InFlight
  BY <1>1, <1>2 DEF SequencesOf, Bares, InFlight
<1>4. \A s \in Sequence : Outstanding(s)' <=> Outstanding(s)
  BY <1>1, <1>3 DEF Outstanding
<1>5. OneReplyEach'
  BY <1>1, <1>4 DEF RInv, OneReplyEach
<1>6. Distinct(draining)' /\ Distinct(pending_write_queue)'
  BY <1>1 DEF RInv, OnePlaceEach, Distinct
<1>7. OnePlaceEach'
  BY <1>1, <1>3, <1>4, <1>6 DEF RInv, OnePlaceEach
<1>8. UNCHANGED <<OpenRequests, Answers>>
  BY <1>1, <1>3 DEF OpenRequests, Answers
<1>9. UNCHANGED <<StoredValues, LiveKeys, ReadsUnderWay>>
  BY <1>1, ValuesKept DEF RInv
<1> QED
  BY <1>1, <1>5, <1>7, <1>8, <1>9 DEF RInv, StoreStep, Store!storeVars

(* on_new_file_allocated(false) fails the queue.                            *)
LEMMA AllocationFailedStep ==
  ASSUME RInv, IInv', NewFileFailed
  PROVE  RInv' /\ StoreStep
<1> DEFINE failed == Bares(pending_write_queue)
           some == SequencesOf(pending_write_queue)
<1>1. /\ UNCHANGED <<draining, inflight, mem_index, reads, global_sequence>>
      /\ draining = <<>>
      /\ pending_write_queue' = <<>>
      /\ replies' = ReplyAll(pending_write_queue, "no_space")
  BY DEF NewFileFailed, BetweenHandlers, dataVars
<1>2. SequencesOf(<<>>) = {} /\ Bares(<<>>) = {}
  BY DEF SequencesOf, Bares
<1>3. /\ SequencesOf(pending_write_queue)' = {}
      /\ Bares(pending_write_queue)' = {}
      /\ SequencesOf(draining) = {}
      /\ SequencesOf(draining)' = {}
      /\ Bares(draining) = {}
      /\ Bares(draining)' = {}
      /\ InFlight' = InFlight
  BY <1>1, <1>2 DEF SequencesOf, Bares, InFlight
<1>4. \A s \in Sequence :
        /\ Outstanding(s) <=> s \in some \/ s \in InFlight
        /\ Outstanding(s)' <=> s \in InFlight
        /\ ~(s \in some /\ s \in InFlight)
  BY <1>1, <1>3 DEF Outstanding, InFlight, RInv, OnePlaceEach
<1>5. /\ Answers' = [s \in Sequence |-> IF s \in some THEN "failed"
                                        ELSE Answers[s]]
      /\ OneReplyEach'
      /\ \A s \in Sequence : Outstanding(s)' => s <= global_sequence'
  <2>1. "no_space" \in Statuses /\ "no_space" # "ok"
    BY DEF Statuses
  <2>2. global_sequence' = global_sequence + 0 /\ 0 \in {0, 1} /\ 0 # 1
    BY <1>1 DEF RInv, IInv, TypeOK
  <2>3. TypeOK'
    BY DEF IInv
  <2>4. \A s \in Sequence :
          replies'[s] = IF s \in some THEN Append(replies[s], "no_space")
                        ELSE replies[s]
    BY <1>1 DEF ReplyAll
  <2> HIDE DEF some
  <2> QED
    BY <1>4, <2>1, <2>2, <2>3, <2>4, Answering
<1>6. OnePlaceEach'
  <2>1. Distinct(draining)' /\ Distinct(pending_write_queue)'
    BY <1>1 DEF Distinct
  <2> QED
    BY <1>1, <1>3, <1>5, <2>1 DEF RInv, OnePlaceEach
<1>7. OpenRequests' = OpenRequests \ failed
  <2>1. \A w \in inflight : Bare(w) \notin failed
    <3> TAKE w \in inflight
    <3>1. w.seq \in InFlight /\ Bare(w).seq = w.seq
      BY DEF InFlight, Bare
    <3>2. w.seq \notin some
      BY <3>1 DEF RInv, OnePlaceEach
    <3> QED
      BY <3>1, <3>2, BareSequences
  <2> QED
    BY <1>1, <1>3, <2>1 DEF OpenRequests
<1>8. \A s \in Sequence : s \in some <=> \E b \in failed : b.seq = s
  BY BareSequences
<1>9. failed \in SUBSET OpenRequests
  BY DEF OpenRequests
<1>10. UNCHANGED <<StoredValues, LiveKeys, ReadsUnderWay>>
  BY <1>1, ValuesKept DEF RInv
<1> HIDE DEF failed, some
<1>11. StoreStep
  BY <1>1, <1>5, <1>7, <1>8, <1>9, <1>10, FailStep
<1> QED
  BY <1>5, <1>6, <1>11 DEF RInv

-----------------------------------------------------------------------------
(* What a completion takes out *)

(* A write in flight that is answered leaves every other request open.      *)
LEMMA TakenOut ==
  ASSUME RInv, TypeOK', NEW w \in inflight, NEW status \in Statuses,
         inflight' = inflight \ {w}, replies' = Reply(w.seq, status),
         UNCHANGED <<pending_write_queue, draining, global_sequence>>
  PROVE  /\ OnePlaceEach' /\ OneReplyEach'
         /\ Bare(w) \in OpenRequests
         /\ OpenRequests' = OpenRequests \ {Bare(w)}
         /\ Answers' = [s \in Sequence |->
                          IF s \in {w.seq}
                          THEN (IF status = "ok" THEN "ok" ELSE "failed")
                          ELSE Answers[s]]
<1>1. w \in Write /\ w.seq \in Sequence
  BY DEF RInv, IInv, TypeOK, Write
<1>2. \A v \in inflight : v.seq = w.seq => v = w
  BY DEF RInv, OnePlaceEach
<1>3. InFlight' = InFlight \ {w.seq} /\ w.seq \in InFlight
  BY <1>2 DEF InFlight
<1>4. /\ SequencesOf(pending_write_queue)' = SequencesOf(pending_write_queue)
      /\ SequencesOf(draining)' = SequencesOf(draining)
      /\ w.seq \notin SequencesOf(pending_write_queue)
      /\ w.seq \notin SequencesOf(draining)
  BY <1>3 DEF RInv, OnePlaceEach, SequencesOf
<1>5. \A s \in Sequence :
        /\ Outstanding(s) <=> \/ s \in SequencesOf(pending_write_queue)
                              \/ s \in SequencesOf(draining)
                              \/ s \in InFlight
        /\ Outstanding(s)' <=> \/ s \in SequencesOf(pending_write_queue)'
                               \/ s \in SequencesOf(draining)'
                               \/ s \in InFlight'
  BY DEF Outstanding, InFlight
<1>6. \A s \in Sequence : /\ Outstanding(s)' <=> Outstanding(s) /\ s \notin {w.seq}
                          /\ s \in {w.seq} => Outstanding(s)
  BY <1>3, <1>4, <1>5
<1>7. /\ Answers' = [s \in Sequence |->
                       IF s \in {w.seq}
                       THEN (IF status = "ok" THEN "ok" ELSE "failed")
                       ELSE Answers[s]]
      /\ OneReplyEach'
      /\ \A s \in Sequence : Outstanding(s)' => s <= global_sequence'
  <2>1. global_sequence' = global_sequence + 0 /\ 0 \in {0, 1} /\ 0 # 1
    BY DEF RInv, IInv, TypeOK
  <2>2. \A s \in Sequence :
          replies'[s] = IF s \in {w.seq} THEN Append(replies[s], status)
                        ELSE replies[s]
    <3>1. replies \in [Sequence -> Seq(Statuses)]
      BY DEF RInv, IInv, TypeOK
    <3> HIDE DEF Sequence
    <3> QED
      BY <1>1, <3>1 DEF Reply
  <2> QED
    BY <1>6, <2>1, <2>2, Answering
<1>8. OnePlaceEach'
  <2>1. Distinct(draining)' /\ Distinct(pending_write_queue)'
    BY DEF RInv, OnePlaceEach, Distinct
  <2>2. \A v, u \in inflight' : v.seq = u.seq => v = u
    BY DEF RInv, OnePlaceEach
  <2> QED
    BY <1>3, <1>4, <1>7, <2>1, <2>2 DEF RInv, OnePlaceEach
<1>9. Bare(w) \in OpenRequests
  BY DEF OpenRequests
<1>10. OpenRequests' = OpenRequests \ {Bare(w)}
  <2>1. Bare(w).seq = w.seq /\ \A v : Bare(v).seq = v.seq
    BY DEF Bare
  <2>2. \A b \in Bares(pending_write_queue) \cup Bares(draining) : b # Bare(w)
    BY <1>4, <2>1, BareSequences
  <2>3. \A v \in inflight : v # w => Bare(v) # Bare(w)
    BY <1>2, <2>1
  <2>4. /\ Bares(pending_write_queue)' = Bares(pending_write_queue)
        /\ Bares(draining)' = Bares(draining)
    BY DEF Bares
  <2>5. { Bare(v) : v \in inflight' } = { Bare(v) : v \in inflight } \ {Bare(w)}
    BY <2>3
  <2>6. OpenRequests' = Bares(pending_write_queue) \cup Bares(draining)
                        \cup { Bare(v) : v \in inflight' }
    BY <2>4 DEF OpenRequests, Bare
  <2> QED
    BY <2>2, <2>5, <2>6 DEF OpenRequests
<1> QED
  BY <1>7, <1>8, <1>9, <1>10

(* An error status.                                                         *)
LEMMA WriteFailedStep ==
  ASSUME RInv, IInv', NEW w \in inflight, WriteFailed(w)
  PROVE  RInv' /\ StoreStep
<1>1. /\ inflight' = inflight \ {w}
      /\ replies' = Reply(w.seq, "io_error")
      /\ UNCHANGED <<pending_write_queue, draining, mem_index,
                     global_sequence, reads>>
  BY DEF WriteFailed, queueVars
<1>2. "io_error" \in Statuses /\ "io_error" # "ok" /\ TypeOK'
  BY DEF Statuses, IInv
<1>3. /\ OnePlaceEach' /\ OneReplyEach'
      /\ Bare(w) \in OpenRequests
      /\ OpenRequests' = OpenRequests \ {Bare(w)}
      /\ Answers' = [s \in Sequence |-> IF s \in {w.seq} THEN "failed"
                                        ELSE Answers[s]]
  BY <1>1, <1>2, TakenOut
<1>4. UNCHANGED <<StoredValues, LiveKeys, ReadsUnderWay>>
  BY <1>1, ValuesKept DEF RInv
<1> DEFINE failed == {Bare(w)}
           some == {w.seq}
<1>5. \A s \in Sequence : s \in some <=> \E b \in failed : b.seq = s
  BY DEF Bare
<1>6. failed \in SUBSET OpenRequests
  BY <1>3
<1>7. /\ OpenRequests' = OpenRequests \ failed
      /\ Answers' = [s \in Sequence |-> IF s \in some THEN "failed" ELSE Answers[s]]
  BY <1>3
<1> HIDE DEF failed, some
<1>8. StoreStep
  BY <1>1, <1>4, <1>5, <1>6, <1>7, FailStep
<1> QED
  BY <1>3, <1>8 DEF RInv

(* What upsert and remove do to the values of the store.                    *)
LEMMA ApplyValues ==
  ASSUME IInv, IInv', NEW w \in inflight,
         mem_index' = IF w.kind = "put" THEN Upsert(w) ELSE Remove(w.key)
  PROVE  IF w.kind = "put"
         THEN /\ StoredValues' = [StoredValues EXCEPT
                                    ![w.key] = IF w.seq > @ THEN w.seq ELSE @]
              /\ LiveKeys' = IF w.seq > StoredValues[w.key]
                             THEN LiveKeys \cup {w.key} ELSE LiveKeys
         ELSE /\ StoredValues' = StoredValues
              /\ LiveKeys' = LiveKeys \ {w.key}
<1> DEFINE k == w.key
<1>1. w \in Write /\ k \in Keys /\ w.seq \in Nat \ {0}
  BY DEF IInv, TypeOK, Write, Sequence
<1>2. mem_index \in [Keys -> Entry \cup {NoEntry}]
  BY DEF IInv, TypeOK
<1>3. \A c \in Keys : mem_index[c] # NoEntry
                        => mem_index[c].seq \in Nat \ {0} /\ mem_index[c] \in Entry
  BY <1>2 DEF Entry, Sequence
<1>4. EntryOf(w) # NoEntry /\ EntryOf(w).seq = w.seq /\ ~EntryOf(w).deleted
  <2>1. EntryOf(w) \in Entry
    BY <1>1 DEF EntryOf, Entry, Write
  <2>2. EntryOf(w).seq = w.seq /\ ~EntryOf(w).deleted
    BY DEF EntryOf
  <2> QED
    BY <2>1, <2>2, NoEntryAssumption
<1>5. StoredValues = RememberedValues /\ StoredValues' = RememberedValues'
  BY ValuesKept DEF ValuesMatch
<1> HIDE DEF k
<1>6. CASE w.kind = "put" /\ mem_index[k] # NoEntry /\ w.seq <= mem_index[k].seq
  <2>1. mem_index' = mem_index
    BY <1>6 DEF Upsert, k
  <2>2. RememberedValues[k] = mem_index[k].seq /\ ~(w.seq > RememberedValues[k])
    BY <1>1, <1>3, <1>6 DEF RememberedValues
  <2>3. RememberedValues' = [RememberedValues EXCEPT ![k] = RememberedValues[k]]
    BY <2>1 DEF RememberedValues
  <2>4. LiveKeys' = LiveKeys
    BY <2>1 DEF LiveKeys, Find
  <2> QED
    BY <1>5, <1>6, <2>2, <2>3, <2>4 DEF k
<1>7. CASE w.kind = "put" /\ ~(mem_index[k] # NoEntry /\ w.seq <= mem_index[k].seq)
  <2>1. mem_index' = [mem_index EXCEPT ![k] = EntryOf(w)]
    BY <1>7 DEF Upsert, k
  <2>2. w.seq > RememberedValues[k]
    BY <1>1, <1>3, <1>7 DEF RememberedValues
  <2>3. RememberedValues' = [RememberedValues EXCEPT ![k] = w.seq]
    BY <1>1, <1>2, <1>4, <2>1 DEF RememberedValues
  <2>4. LiveKeys' = LiveKeys \cup {k}
    <3>1. \A c \in Keys : Find(c)' <=> c = k \/ Find(c)
      BY <1>1, <1>2, <1>4, <2>1 DEF Find
    <3> QED
      BY <1>1, <3>1 DEF LiveKeys
  <2> QED
    BY <1>5, <1>7, <2>2, <2>3, <2>4 DEF k
<1>8. CASE w.kind # "put" /\ Find(k)
  <2>1. mem_index' = [mem_index EXCEPT ![k].deleted = TRUE]
    BY <1>8 DEF Remove, k
  <2>2. mem_index'[k] = [mem_index[k] EXCEPT !.deleted = TRUE]
        /\ \A c \in Keys : c # k => mem_index'[c] = mem_index[c]
    BY <1>1, <1>2, <2>1
  <2>3. mem_index[k] \in Entry
    BY <1>1, <1>3, <1>8 DEF Find
  <2>4. mem_index'[k].seq = mem_index[k].seq /\ mem_index'[k].deleted
        /\ mem_index'[k] \in Entry
    BY <2>2, <2>3 DEF Entry
  <2>5. RememberedValues' = RememberedValues
    <3>1. mem_index'[k] # NoEntry /\ mem_index[k] # NoEntry
      BY <2>3, <2>4, NoEntryAssumption
    <3> QED
      BY <2>2, <2>4, <3>1 DEF RememberedValues
  <2>6. \A c \in Keys : Find(c)' <=> c # k /\ Find(c)
    BY <2>2, <2>4 DEF Find
  <2>7. LiveKeys' = LiveKeys \ {k}
    BY <2>6 DEF LiveKeys
  <2> QED
    BY <1>5, <1>8, <2>5, <2>7 DEF k
<1>9. CASE w.kind # "put" /\ ~Find(k)
  <2>1. mem_index' = mem_index
    BY <1>9 DEF Remove, k
  <2>2. RememberedValues' = RememberedValues /\ LiveKeys' = LiveKeys
    BY <2>1 DEF RememberedValues, LiveKeys, Find
  <2>3. k \notin LiveKeys
    BY <1>9 DEF LiveKeys
  <2> QED
    BY <1>5, <1>9, <2>2, <2>3 DEF k
<1> QED
  BY <1>6, <1>7, <1>8, <1>9

(* Status 0: the request takes effect and is answered.                      *)
LEMMA WriteCompleteStep ==
  ASSUME RInv, IInv', NEW w \in inflight, WriteComplete(w)
  PROVE  RInv' /\ StoreStep
<1>1. /\ inflight' = inflight \ {w}
      /\ replies' = Reply(w.seq, "ok")
      /\ mem_index' = IF w.kind = "put" THEN Upsert(w) ELSE Remove(w.key)
      /\ UNCHANGED <<pending_write_queue, draining, global_sequence, reads>>
  BY DEF WriteComplete, queueVars
<1>2. "ok" \in Statuses /\ TypeOK'
  BY DEF Statuses, IInv
<1>3. /\ OnePlaceEach' /\ OneReplyEach'
      /\ Bare(w) \in OpenRequests
      /\ OpenRequests' = OpenRequests \ {Bare(w)}
      /\ Answers' = [s \in Sequence |-> IF s \in {w.seq} THEN "ok"
                                        ELSE Answers[s]]
  BY <1>1, <1>2, TakenOut
<1>4. UNCHANGED ReadsUnderWay
  BY <1>1, ValuesKept DEF RInv
<1>5. PICK b : b = Bare(w)
  OBVIOUS
<1>6. b.seq = w.seq /\ b.key = w.key /\ b.kind = w.kind
  BY <1>5 DEF Bare
<1>7. Answers' = Store!Answer({b}, "ok")
  BY <1>3, <1>6 DEF Store!Answer, Sequence
<1>8. w.kind = "put" \/ w.kind = "delete"
  BY DEF RInv, IInv, TypeOK, Write, Kinds
<1>9. Store!Put(b) \/ Store!Delete(b)
  BY <1>1, <1>6, <1>8, ApplyValues DEF Store!Put, Store!Delete, RInv
<1>10. Store!Apply(b)
  BY <1>1, <1>3, <1>4, <1>5, <1>7, <1>9 DEF Store!Apply
<1> QED
  BY <1>3, <1>5, <1>10 DEF RInv, StoreStep, Store!Next

-----------------------------------------------------------------------------
(* What a submission puts in *)

(* Where the sequence numbers are.                                          *)
LEMMA Places ==
  ASSUME NEW s \in Sequence
  PROVE  /\ Outstanding(s) <=> \/ s \in SequencesOf(pending_write_queue)
                               \/ s \in SequencesOf(draining)
                               \/ s \in InFlight
         /\ Outstanding(s)' <=> \/ s \in SequencesOf(pending_write_queue)'
                                \/ s \in SequencesOf(draining)'
                                \/ s \in InFlight'
BY DEF Outstanding, InFlight

LEMMA Placing ==
  ASSUME NEW r, Placed(r) \notin inflight,
         inflight' = inflight \cup {Placed(r)}
  PROVE  /\ InFlight' = InFlight \cup {r.seq}
         /\ { Bare(v) : v \in inflight' } = { Bare(v) : v \in inflight } \cup {Bare(r)}
         /\ /\ \A v, u \in inflight : v.seq = u.seq => v = u
            /\ r.seq \notin InFlight
            => \A v, u \in inflight' : v.seq = u.seq => v = u
<1>1. PICK w : w = Placed(r)
  OBVIOUS
<1>2. w.seq = r.seq /\ Bare(w) = Bare(r)
  BY <1>1 DEF Placed, Bare
<1>3. inflight' = inflight \cup {w}
  BY <1>1
<1>4. InFlight' = InFlight \cup {r.seq}
  BY <1>2, <1>3 DEF InFlight
<1>5. { Bare(v) : v \in inflight' } = { Bare(v) : v \in inflight } \cup {Bare(r)}
  BY <1>2, <1>3
<1>6. ASSUME \A v, u \in inflight : v.seq = u.seq => v = u, r.seq \notin InFlight
      PROVE  \A v, u \in inflight' : v.seq = u.seq => v = u
  <2>1. \A v \in inflight : v.seq # w.seq
    BY <1>2, <1>6 DEF InFlight
  <2> QED
    BY <1>3, <1>6, <2>1
<1> QED
  BY <1>4, <1>5, <1>6

(* process_pending_write_queue submits the head of its queue.               *)
LEMMA QueuedStep ==
  ASSUME RInv, IInv', SubmitQueuedWrite
  PROVE  RInv' /\ StoreStep
<1>1. PICK h \in Request : h = Head(draining)
  BY DEF SubmitQueuedWrite, RInv, IInv, TypeOK
<1>2. /\ draining # <<>>
      /\ draining' = Tail(draining)
      /\ Submit(h)
      /\ UNCHANGED <<pending_write_queue, mem_index, global_sequence, reads>>
  BY <1>1 DEF SubmitQueuedWrite, dataVars
<1>3. /\ Distinct(draining)'
      /\ SequencesOf(draining)' = SequencesOf(draining) \ {h.seq}
      /\ h.seq \in SequencesOf(draining)
      /\ Bares(draining) = Bares(draining)' \cup {Bare(h)}
      /\ \A b \in Bares(draining)' : b.seq # h.seq
  <2>1. draining \in Seq(Request) /\ Distinct(draining)
    BY DEF RInv, IInv, TypeOK, OnePlaceEach
  <2>2. /\ Distinct(Tail(draining))
        /\ SequencesOf(Tail(draining)) = SequencesOf(draining) \ {h.seq}
        /\ h.seq \in SequencesOf(draining)
        /\ Bares(draining) = Bares(Tail(draining)) \cup {Bare(h)}
        /\ \A b \in Bares(Tail(draining)) : b.seq # h.seq
    BY <1>1, <1>2, <2>1, TakingHead
  <2>3. /\ Distinct(draining)' <=> Distinct(Tail(draining))
        /\ SequencesOf(draining)' = SequencesOf(Tail(draining))
        /\ Bares(draining)' = Bares(Tail(draining))
    BY <1>2 DEF Distinct, SequencesOf, Bares, Bare
  <2> QED
    BY <2>2, <2>3
<1>4. /\ SequencesOf(pending_write_queue)' = SequencesOf(pending_write_queue)
      /\ Bares(pending_write_queue)' = Bares(pending_write_queue)
      /\ Distinct(pending_write_queue)'
  BY <1>2 DEF RInv, OnePlaceEach, SequencesOf, Bares, Distinct
<1>5. /\ h.seq \in Sequence
      /\ h.seq \notin SequencesOf(pending_write_queue)
      /\ h.seq \notin InFlight
  BY <1>3 DEF RInv, OnePlaceEach, Request
<1>6. UNCHANGED <<StoredValues, LiveKeys, ReadsUnderWay>>
  BY <1>2, ValuesKept DEF RInv
<1>7. CASE inflight' = inflight \cup {Placed(h)} /\ UNCHANGED replies
  <2>1. Placed(h) \notin inflight
    BY <1>5 DEF InFlight, Placed
  <2>2. /\ InFlight' = InFlight \cup {h.seq}
        /\ { Bare(v) : v \in inflight' }
             = { Bare(v) : v \in inflight } \cup {Bare(h)}
        /\ \A v, u \in inflight' : v.seq = u.seq => v = u
    BY <1>5, <1>7, <2>1, Placing DEF RInv, OnePlaceEach
  <2>3. \A s \in Sequence : Outstanding(s)' <=> Outstanding(s)
    BY <1>3, <1>4, <2>2, Places
  <2>4. OneReplyEach'
    BY <1>2, <1>7, <2>3 DEF RInv, OneReplyEach
  <2>5. OnePlaceEach'
    BY <1>2, <1>3, <1>4, <1>5, <2>2, <2>3 DEF RInv, OnePlaceEach
  <2>6. UNCHANGED <<OpenRequests, Answers>>
    <3>1. OpenRequests' = Bares(pending_write_queue)' \cup Bares(draining)'
                          \cup { Bare(v) : v \in inflight' }
      BY DEF OpenRequests, Bare
    <3>2. OpenRequests' = OpenRequests
      BY <1>3, <1>4, <2>2, <3>1 DEF OpenRequests
    <3> QED
      BY <1>7, <3>2 DEF Answers
  <2> QED
    BY <1>2, <1>6, <2>4, <2>5, <2>6 DEF RInv, StoreStep, Store!storeVars
<1>8. CASE replies' = Reply(h.seq, "io_error") /\ UNCHANGED inflight
  <2> DEFINE failed == {Bare(h)}
             some == {h.seq}
  <2>1. InFlight' = InFlight
    BY <1>8 DEF InFlight
  <2>2. /\ "io_error" \in Statuses /\ "io_error" # "ok" /\ TypeOK'
        /\ global_sequence' = global_sequence + 0 /\ 0 \in {0, 1} /\ 0 # 1
    BY <1>2 DEF Statuses, IInv, RInv, TypeOK
  <2>3. \A s \in Sequence :
          replies'[s] = IF s \in some THEN Append(replies[s], "io_error")
                        ELSE replies[s]
    <3>1. replies \in [Sequence -> Seq(Statuses)]
      BY DEF RInv, IInv, TypeOK
    <3> HIDE DEF Sequence
    <3> QED
      BY <1>5, <1>8, <3>1 DEF Reply
  <2>4. \A s \in Sequence : /\ Outstanding(s)' <=> Outstanding(s) /\ s \notin some
                            /\ s \in some => Outstanding(s)
    BY <1>3, <1>4, <1>5, <2>1, Places
  <2>5. /\ Answers' = [s \in Sequence |-> IF s \in some THEN "failed" ELSE Answers[s]]
        /\ OneReplyEach'
        /\ \A s \in Sequence : Outstanding(s)' => s <= global_sequence'
    <3> HIDE DEF some
    <3> QED
      BY <2>2, <2>3, <2>4, Answering
  <2>6. OnePlaceEach'
    BY <1>2, <1>3, <1>4, <1>5, <1>8, <2>1, <2>5 DEF RInv, OnePlaceEach
  <2>7. OpenRequests' = OpenRequests \ failed /\ failed \in SUBSET OpenRequests
    <3>1. Bare(h).seq = h.seq /\ \A v : Bare(v).seq = v.seq
      BY DEF Bare
    <3>2. \A b \in Bares(pending_write_queue) : b # Bare(h)
      BY <1>5, <3>1, BareSequences
    <3>3. \A b \in Bares(draining)' : b # Bare(h)
      BY <1>3, <3>1
    <3>4. \A v \in inflight : Bare(v) # Bare(h)
      BY <1>5, <3>1 DEF InFlight
    <3>5. OpenRequests' = Bares(pending_write_queue) \cup Bares(draining)'
                          \cup { Bare(v) : v \in inflight }
      BY <1>4, <1>8 DEF OpenRequests, Bare
    <3>6. OpenRequests = OpenRequests' \cup {Bare(h)}
      BY <1>3, <3>5 DEF OpenRequests
    <3>7. Bare(h) \notin OpenRequests'
      BY <3>2, <3>3, <3>4, <3>5
    <3> QED
      BY <3>6, <3>7
  <2>8. \A s \in Sequence : s \in some <=> \E b \in failed : b.seq = s
    BY DEF Bare
  <2> HIDE DEF failed, some
  <2>9. StoreStep
    BY <1>2, <1>6, <2>5, <2>7, <2>8, FailStep
  <2> QED
    BY <2>5, <2>6, <2>9 DEF RInv
<1>9. Placed(h).seq = h.seq
  BY DEF Placed
<1> QED
  BY <1>2, <1>7, <1>8, <1>9 DEF Submit

-----------------------------------------------------------------------------
(* What put_async and delete_async accept *)

(* A request is accepted and, with it or not, some fail.                    *)
LEMMA AcceptedStep ==
  ASSUME NEW k \in Keys, NEW kind \in Kinds, NEW r,
         r.seq = global_sequence + 1, r.key = k, r.kind = kind,
         global_sequence < MaxSequence, kind = "delete" => Find(k),
         NEW failed \in SUBSET (OpenRequests \cup {Bare(r)}), NEW some,
         \A s \in Sequence : s \in some <=> \E b \in failed : b.seq = s,
         OpenRequests' = (OpenRequests \cup {Bare(r)}) \ failed,
         Answers' = [s \in Sequence |-> IF s \in some THEN "failed"
                                        ELSE Answers[s]],
         global_sequence' = r.seq,
         UNCHANGED <<StoredValues, LiveKeys, ReadsUnderWay>>
  PROVE  StoreStep
<1>1. Bare(r) = [seq |-> global_sequence + 1, key |-> k, kind |-> kind]
  BY DEF Bare
<1>2. Answers' = Store!Answer(failed, "failed")
  BY DEF Store!Answer, Sequence
<1>3. kind = "delete" => k \in LiveKeys
  BY DEF LiveKeys
<1>4. Store!Accept(k, kind)
  BY <1>1, <1>2, <1>3 DEF Store!Accept
<1>5. kind = "put" \/ kind = "delete"
  BY DEF Kinds
<1> QED
  BY <1>4, <1>5 DEF StoreStep, Store!Next

(* The sequence number that is allocated next is nowhere in the engine.     *)
LEMMA FreshNumber ==
  ASSUME RInv, NEW r \in Request, r.seq = global_sequence + 1
  PROVE  /\ r.seq \in Sequence
         /\ ~Outstanding(r.seq)
         /\ r.seq \notin SequencesOf(pending_write_queue)
         /\ r.seq \notin SequencesOf(draining)
         /\ r.seq \notin InFlight
         /\ Bare(r) \notin OpenRequests
<1>1. r.seq \in Sequence /\ global_sequence \in Nat
  BY DEF Request, RInv, IInv, TypeOK
<1>2. ~Outstanding(r.seq)
  BY <1>1 DEF RInv, OnePlaceEach
<1>3. Bare(r) \notin OpenRequests
  BY <1>1, <1>2, OutstandingIsOpen DEF Bare
<1> QED
  BY <1>1, <1>2, <1>3, Places

(* The request goes to a queue or to the device.                            *)
LEMMA AcceptedOpen ==
  ASSUME RInv, IInv', NEW k \in Keys, NEW kind \in Kinds, NEW r \in Request,
         r.seq = global_sequence + 1, r.key = k, r.kind = kind,
         global_sequence < MaxSequence, kind = "delete" => Find(k),
         global_sequence' = r.seq, UNCHANGED <<draining, mem_index, reads, replies>>,
         \/ /\ pending_write_queue' = Append(pending_write_queue, r)
            /\ UNCHANGED inflight
         \/ /\ inflight' = inflight \cup {Placed(r)}
            /\ UNCHANGED pending_write_queue
  PROVE  RInv' /\ StoreStep
<1>1. /\ r.seq \in Sequence /\ ~Outstanding(r.seq)
      /\ r.seq \notin SequencesOf(pending_write_queue)
      /\ r.seq \notin SequencesOf(draining)
      /\ r.seq \notin InFlight
      /\ Bare(r) \notin OpenRequests
  BY FreshNumber
<1>2. /\ SequencesOf(draining)' = SequencesOf(draining)
      /\ Bares(draining)' = Bares(draining)
      /\ Distinct(draining)'
  BY DEF RInv, OnePlaceEach, SequencesOf, Bares, Distinct
<1>3. /\ SequencesOf(pending_write_queue)' \cup InFlight'
           = SequencesOf(pending_write_queue) \cup InFlight \cup {r.seq}
      /\ SequencesOf(pending_write_queue)' \cap InFlight' = {}
      /\ Distinct(pending_write_queue)'
      /\ \A v, u \in inflight' : v.seq = u.seq => v = u
      /\ Bares(pending_write_queue)' \cup { Bare(v) : v \in inflight' }
           = Bares(pending_write_queue) \cup { Bare(v) : v \in inflight }
             \cup {Bare(r)}
  <2>1. CASE /\ pending_write_queue' = Append(pending_write_queue, r)
             /\ UNCHANGED inflight
    <3>1. pending_write_queue \in Seq(Request) /\ Distinct(pending_write_queue)
      BY DEF RInv, IInv, TypeOK, OnePlaceEach
    <3>2. /\ SequencesOf(Append(pending_write_queue, r))
               = SequencesOf(pending_write_queue) \cup {r.seq}
          /\ Bares(Append(pending_write_queue, r))
               = Bares(pending_write_queue) \cup {Bare(r)}
          /\ Distinct(Append(pending_write_queue, r))
      BY <1>1, <3>1, Appending
    <3>3. /\ SequencesOf(pending_write_queue)'
               = SequencesOf(Append(pending_write_queue, r))
          /\ Bares(pending_write_queue)' = Bares(Append(pending_write_queue, r))
          /\ Distinct(pending_write_queue)' <=> Distinct(Append(pending_write_queue, r))
      BY <2>1 DEF SequencesOf, Bares, Bare, Distinct
    <3>4. InFlight' = InFlight
      BY <2>1 DEF InFlight
    <3> QED
      BY <1>1, <2>1, <3>2, <3>3, <3>4 DEF RInv, OnePlaceEach
  <2>2. CASE /\ inflight' = inflight \cup {Placed(r)}
             /\ UNCHANGED pending_write_queue
    <3>1. Placed(r) \notin inflight
      BY <1>1 DEF InFlight, Placed
    <3>2. /\ InFlight' = InFlight \cup {r.seq}
          /\ { Bare(v) : v \in inflight' }
               = { Bare(v) : v \in inflight } \cup {Bare(r)}
          /\ \A v, u \in inflight' : v.seq = u.seq => v = u
      BY <1>1, <2>2, <3>1, Placing DEF RInv, OnePlaceEach
    <3>3. /\ SequencesOf(pending_write_queue)' = SequencesOf(pending_write_queue)
          /\ Bares(pending_write_queue)' = Bares(pending_write_queue)
          /\ Distinct(pending_write_queue)'
      BY <2>2 DEF RInv, OnePlaceEach, SequencesOf, Bares, Bare, Distinct
    <3> QED
      BY <1>1, <3>2, <3>3 DEF RInv, OnePlaceEach
  <2> QED
    BY <2>1, <2>2
<1>4. \A s \in Sequence : Outstanding(s)' <=> Outstanding(s) \/ s = r.seq
  BY <1>2, <1>3, Places
<1>5. /\ Answers' = Answers
      /\ OneReplyEach'
      /\ \A s \in Sequence : Outstanding(s)' => s <= global_sequence'
  <2>1. /\ "io_error" \in Statuses /\ TypeOK' /\ 1 \in {0, 1}
        /\ global_sequence' = global_sequence + 1
    BY DEF Statuses, IInv
  <2>2. PICK none : none = {}
    OBVIOUS
  <2>3. \A s \in Sequence :
          replies'[s] = IF s \in none THEN Append(replies[s], "io_error")
                        ELSE replies[s]
    BY <2>2
  <2>4. \A s \in Sequence :
          /\ Outstanding(s)' <=> /\ \/ Outstanding(s)
                                    \/ 1 = 1 /\ s = global_sequence + 1
                                 /\ s \notin none
          /\ s \in none => \/ Outstanding(s)
                           \/ 1 = 1 /\ s = global_sequence + 1
    BY <1>4, <2>2
  <2>5. /\ OneReplyEach'
        /\ \A s \in Sequence : Outstanding(s)' => s <= global_sequence'
    BY <2>1, <2>3, <2>4, Answering
  <2>6. Answers' = Answers
    BY DEF Answers
  <2> QED
    BY <2>5, <2>6
<1>6. OnePlaceEach'
  BY <1>1, <1>2, <1>3, <1>5 DEF RInv, OnePlaceEach
<1>7. OpenRequests' = OpenRequests \cup {Bare(r)}
  <2>1. OpenRequests' = Bares(pending_write_queue)' \cup Bares(draining)'
                        \cup { Bare(v) : v \in inflight' }
    BY DEF OpenRequests, Bare
  <2> QED
    BY <1>2, <1>3, <2>1 DEF OpenRequests
<1>8. UNCHANGED <<StoredValues, LiveKeys, ReadsUnderWay>>
  BY ValuesKept DEF RInv
<1>9. PICK none : none = {}
  OBVIOUS
<1>10. /\ none \in SUBSET (OpenRequests \cup {Bare(r)})
       /\ \A s \in Sequence : s \in none <=> \E b \in none : b.seq = s
       /\ OpenRequests' = (OpenRequests \cup {Bare(r)}) \ none
       /\ Answers' = [s \in Sequence |-> IF s \in none THEN "failed" ELSE Answers[s]]
  <2>1. Answers = [s \in Sequence |-> Answers[s]]
    BY DEF Answers
  <2> QED
    BY <1>5, <1>7, <1>9, <2>1
<1>11. StoreStep
  BY <1>8, <1>10, AcceptedStep
<1> QED
  BY <1>5, <1>6, <1>11 DEF RInv

(* allocate_new_file_async is refused and fails the queue with the request. *)
LEMMA AcceptedFailed ==
  ASSUME RInv, IInv', NEW k \in Keys, NEW kind \in Kinds, NEW r \in Request,
         r.seq = global_sequence + 1, r.key = k, r.kind = kind,
         global_sequence < MaxSequence, kind = "delete" => Find(k),
         global_sequence' = r.seq, UNCHANGED <<draining, mem_index, reads, inflight>>,
         draining = <<>>, pending_write_queue' = <<>>,
         replies' = ReplyAll(Append(pending_write_queue, r), "internal_error")
  PROVE  RInv' /\ StoreStep
<1> DEFINE queue == Append(pending_write_queue, r)
           failed == Bares(queue)
           some == SequencesOf(queue)
<1>1. /\ r.seq \in Sequence /\ ~Outstanding(r.seq)
      /\ r.seq \notin SequencesOf(pending_write_queue)
      /\ r.seq \notin InFlight
      /\ Bare(r) \notin OpenRequests
  BY FreshNumber
<1>2. /\ some = SequencesOf(pending_write_queue) \cup {r.seq}
      /\ failed = Bares(pending_write_queue) \cup {Bare(r)}
  <2>1. pending_write_queue \in Seq(Request)
    BY DEF RInv, IInv, TypeOK
  <2> QED
    BY <2>1, Appending
<1>3. SequencesOf(<<>>) = {} /\ Bares(<<>>) = {}
  BY DEF SequencesOf, Bares
<1>4. /\ SequencesOf(pending_write_queue)' = {}
      /\ Bares(pending_write_queue)' = {}
      /\ SequencesOf(draining) = {}
      /\ SequencesOf(draining)' = {}
      /\ Bares(draining) = {}
      /\ Bares(draining)' = {}
      /\ InFlight' = InFlight
  BY <1>3 DEF SequencesOf, Bares, InFlight
<1>5. \A s \in Sequence :
        /\ s \in some <=> s \in SequencesOf(pending_write_queue) \/ s = r.seq
        /\ Outstanding(s) <=> s \in SequencesOf(pending_write_queue) \/ s \in InFlight
        /\ Outstanding(s)' <=> s \in InFlight
        /\ ~(s \in some /\ s \in InFlight)
  BY <1>1, <1>2, <1>4, Places DEF RInv, OnePlaceEach
<1>6. /\ Answers' = [s \in Sequence |-> IF s \in some THEN "failed"
                                        ELSE Answers[s]]
      /\ OneReplyEach'
      /\ \A s \in Sequence : Outstanding(s)' => s <= global_sequence'
  <2>1. /\ "internal_error" \in Statuses /\ "internal_error" # "ok" /\ TypeOK'
        /\ global_sequence' = global_sequence + 1 /\ 1 \in {0, 1}
    BY DEF Statuses, IInv
  <2>2. \A s \in Sequence :
          replies'[s] = IF s \in some THEN Append(replies[s], "internal_error")
                        ELSE replies[s]
    BY DEF ReplyAll
  <2> HIDE DEF some
  <2>3. \A s \in Sequence :
          /\ Outstanding(s)' <=> /\ \/ Outstanding(s)
                                    \/ 1 = 1 /\ s = global_sequence + 1
                                 /\ s \notin some
          /\ s \in some => \/ Outstanding(s)
                           \/ 1 = 1 /\ s = global_sequence + 1
    BY <1>1, <1>5
  <2>4. /\ Answers' = [s \in Sequence |->
                          IF s \in some
                          THEN (IF "internal_error" = "ok" THEN "ok" ELSE "failed")
                          ELSE Answers[s]]
        /\ OneReplyEach'
        /\ \A s \in Sequence : Outstanding(s)' => s <= global_sequence'
    BY <2>1, <2>2, <2>3, Answering
  <2> QED
    BY <2>1, <2>4
<1>7. OnePlaceEach'
  <2>1. Distinct(draining)' /\ Distinct(pending_write_queue)'
    BY DEF Distinct
  <2>2. \A v, u \in inflight' : v.seq = u.seq => v = u
    BY DEF RInv, OnePlaceEach
  <2> QED
    BY <1>4, <1>6, <2>1, <2>2 DEF OnePlaceEach
<1>8. OpenRequests' = (OpenRequests \cup {Bare(r)}) \ failed
  <2>1. \A w \in inflight : Bare(w) \notin failed
    <3> TAKE w \in inflight
    <3>1. w.seq \in InFlight /\ Bare(w).seq = w.seq /\ w.seq \in Sequence
      BY DEF InFlight, Bare, RInv, IInv, TypeOK, Write
    <3>2. w.seq \notin some
      BY <1>5, <3>1
    <3> QED
      BY <3>1, <3>2, BareSequences
  <2>2. OpenRequests' = { Bare(v) : v \in inflight }
    BY <1>4 DEF OpenRequests, Bare
  <2>3. OpenRequests = Bares(pending_write_queue) \cup { Bare(v) : v \in inflight }
    BY <1>4 DEF OpenRequests
  <2> HIDE DEF failed
  <2> QED
    BY <1>2, <2>1, <2>2, <2>3
<1>9. \A s \in Sequence : s \in some <=> \E b \in failed : b.seq = s
  BY BareSequences
<1>10. failed \in SUBSET (OpenRequests \cup {Bare(r)})
  BY <1>2 DEF OpenRequests
<1>11. UNCHANGED <<StoredValues, LiveKeys, ReadsUnderWay>>
  BY ValuesKept DEF RInv
<1>12. StoreStep
  <2> HIDE DEF failed, some
  <2> QED
    BY <1>6, <1>8, <1>9, <1>10, <1>11, AcceptedStep
<1> QED
  BY <1>6, <1>7, <1>12 DEF RInv

(* put_async and delete_async.                                              *)
LEMMA AcceptStep ==
  ASSUME RInv, IInv', NEW k \in Keys, NEW kind \in Kinds, NEW r \in Request,
         r.seq = global_sequence + 1, r.key = k, r.kind = kind,
         global_sequence < MaxSequence, kind = "delete" => Find(k),
         draining = <<>>, Accept(r)
  PROVE  RInv' /\ StoreStep
<1>1. global_sequence' = r.seq /\ UNCHANGED <<draining, mem_index, reads>>
  BY DEF Accept, dataVars
<1>2. CASE ~NeedNewFile(r.pages) /\ Submit(r) /\ UNCHANGED pending_write_queue
  <2>1. inflight' = inflight \cup {Placed(r)} /\ UNCHANGED replies
    BY <1>2 DEF Submit, NeedNewFile, Placed
  <2> QED
    BY <1>1, <1>2, <2>1, AcceptedOpen
<1>3. CASE /\ pending_write_queue' = Append(pending_write_queue, r)
           /\ UNCHANGED <<inflight, replies>>
  BY <1>1, <1>3, AcceptedOpen
<1>4. CASE /\ pending_write_queue' = <<>>
           /\ replies' = ReplyAll(Append(pending_write_queue, r), "internal_error")
           /\ UNCHANGED inflight
  BY <1>1, <1>4, AcceptedFailed
<1> QED
  BY <1>2, <1>3, <1>4 DEF Accept, AllocateNewFileAsync

-----------------------------------------------------------------------------
(* The refinement *)

LEMMA StoreInit == Init => RInv /\ Store!Init
<1> SUFFICES ASSUME Init PROVE RInv /\ Store!Init
  OBVIOUS
<1>1. IInv
  BY InitIInv
<1>2. /\ pending_write_queue = <<>> /\ draining = <<>> /\ inflight = {}
      /\ reads = {} /\ global_sequence = 0
      /\ mem_index = [k \in Keys |-> NoEntry]
      /\ replies = [s \in Sequence |-> <<>>]
  BY DEF Init
<1>3. SequencesOf(<<>>) = {} /\ Bares(<<>>) = {} /\ Distinct(<<>>)
  BY DEF SequencesOf, Bares, Distinct
<1>4. InFlight = {} /\ OpenRequests = {} /\ \A s \in Sequence : ~Outstanding(s)
  BY <1>2, <1>3 DEF InFlight, OpenRequests, Outstanding
<1>5. OnePlaceEach
  BY <1>2, <1>3, <1>4 DEF OnePlaceEach
<1>6. OneReplyEach
  BY <1>2, <1>4 DEF OneReplyEach, Sequence
<1>7. Store!Init
  <2>1. StoredValues = [k \in Keys |-> 0] /\ LiveKeys = {} /\ ReadsUnderWay = {}
    BY <1>2 DEF StoredValues, LiveKeys, Find, ReadsUnderWay
  <2>2. Answers = [s \in 1 .. MaxSequence |-> "none"]
    BY <1>2 DEF Answers, Sequence
  <2> QED
    BY <1>2, <1>4, <2>1, <2>2 DEF Store!Init
<1> QED
  BY <1>1, <1>5, <1>6, <1>7 DEF RInv

LEMMA StoreNext == RInv /\ [Next]_vars => RInv' /\ StoreStep
<1> SUFFICES ASSUME RInv, [Next]_vars PROVE RInv' /\ StoreStep
  OBVIOUS
<1>1. IInv'
  BY NextIInv DEF RInv
<1>2. CASE Allocation
  BY <1>1, <1>2, BlobOpenedStep, AllocatedStep, AllocationFailedStep
  DEF Allocation
<1>3. CASE SubmitQueuedWrite
  BY <1>1, <1>3, QueuedStep
<1>4. CASE Completion
  BY <1>1, <1>4, WriteCompleteStep, WriteFailedStep, ReturnStep DEF Completion
<1>5. ASSUME NEW k \in Keys, NEW n \in PutPages, PutAsync(k, n)
      PROVE  RInv' /\ StoreStep
  <2> DEFINE r == [seq |-> global_sequence + 1, key |-> k, kind |-> "put",
                   pages |-> n]
  <2>1. r \in Request /\ "put" \in Kinds
    BY <1>5, PathAssumption
    DEF PutAsync, RInv, IInv, TypeOK, Request, Sequence, Kinds
  <2>2. Accept(r) /\ draining = <<>> /\ global_sequence < MaxSequence
    BY <1>5 DEF PutAsync, BetweenHandlers
  <2>3. r.seq = global_sequence + 1 /\ r.key = k /\ r.kind = "put"
    OBVIOUS
  <2>4. PICK q \in Request : q = r
    BY <2>1
  <2> HIDE DEF r
  <2> QED
    BY <1>1, <2>1, <2>2, <2>3, <2>4, AcceptStep
<1>6. ASSUME NEW k \in Keys, DeleteAsync(k)
      PROVE  RInv' /\ StoreStep
  <2> DEFINE r == [seq |-> global_sequence + 1, key |-> k, kind |-> "delete",
                   pages |-> 1]
  <2>1. r \in Request /\ "delete" \in Kinds
    BY <1>6, PathAssumption
    DEF DeleteAsync, RInv, IInv, TypeOK, Request, Sequence, Kinds
  <2>2. Accept(r) /\ draining = <<>> /\ global_sequence < MaxSequence /\ Find(k)
    BY <1>6 DEF DeleteAsync, BetweenHandlers
  <2>3. r.seq = global_sequence + 1 /\ r.key = k /\ r.kind = "delete"
    OBVIOUS
  <2>4. PICK q \in Request : q = r
    BY <2>1
  <2> HIDE DEF r
  <2> QED
    BY <1>1, <2>1, <2>2, <2>3, <2>4, AcceptStep
<1>7. ASSUME NEW k \in Keys, GetAsync(k)
      PROVE  RInv' /\ StoreStep
  BY <1>1, <1>7, GetStep
<1>8. CASE UNCHANGED vars
  <2>1. UNCHANGED <<pending_write_queue, draining, inflight, mem_index, reads,
                    global_sequence, replies>>
    BY <1>8 DEF vars
  <2>2. OnePlaceEach' /\ OneReplyEach' /\ UNCHANGED <<OpenRequests, Answers>>
    BY <2>1, RequestsKept
  <2>3. UNCHANGED <<StoredValues, LiveKeys, ReadsUnderWay>>
    BY <1>1, <2>1, ValuesKept DEF RInv
  <2> QED
    BY <1>1, <2>1, <2>2, <2>3 DEF RInv, StoreStep, Store!storeVars
<1> QED
  BY <1>2, <1>3, <1>4, <1>5, <1>6, <1>7, <1>8 DEF Next, Calls

(* Every accepted request is held in one place or has been answered once.   *)
THEOREM AnsweredOnce == Spec => []OneReplyEach
<1>1. RInv => OneReplyEach
  BY DEF RInv
<1>2. Init => RInv
  BY StoreInit
<1>3. RInv /\ [Next]_vars => RInv'
  BY StoreNext
<1> QED
  BY <1>1, <1>2, <1>3, PTL DEF Spec

(* The write and read path of the engine implements the store: what the     *)
(* device holds where the index and the reads point is what the application *)
(* put, and queues and files are not seen.                                  *)
THEOREM EngineIsAStore == Spec => ImplementsStore
<1>1. Init => RInv /\ Store!Init
  BY StoreInit
<1>2. RInv /\ [Next]_vars => RInv' /\ [Store!Next]_(Store!storeVars)
  BY StoreNext DEF StoreStep
<1> QED
  BY <1>1, <1>2, PTL DEF Spec, ImplementsStore, Store!Spec

=============================================================================
