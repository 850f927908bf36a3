--------------------------- MODULE BufferPoolProofs ---------------------------
(***************************************************************************)
(* Proofs about BufferPool, for every number of buffers, every size of     *)
(* record and every pair of water marks.                                   *)
(*                                                                         *)
(* The argument. The methods of AppendBufferManager move a buffer from one *)
(* place to another. Because no buffer is in two places, a ring holds      *)
(* fewer than kMaxBufferCount buffers when one is added to it (pigeonhole), *)
(* so no enqueue fails; because no enqueue fails, no buffer is lost.       *)
(*                                                                         *)
(* On that rests what becomes of the puts: a request that was begun and    *)
(* has no reply is in a buffer, in the wait queue of poll or in a direct   *)
(* write, and in only one of these places, so each is answered once.       *)
(***************************************************************************)
EXTENDS BufferPool, FiniteSetTheorems, WellFoundedInduction, TLAPS

(* The manager m when the buffers in `out' are in the hands of poll or of   *)
(* the device: rings without repetition, one place for each buffer.         *)
Pool(m, out) ==
  /\ m \in Manager
  /\ m.buffer_count \in 0 .. MaxBufferCount
  /\ NoRepeat(m.submit_ring)
  /\ NoRepeat(m.complete_ring)
  /\ InRing(m.submit_ring) \cap InRing(m.complete_ring) = {}
  /\ InRing(m.submit_ring) \cap out = {}
  /\ InRing(m.complete_ring) \cap out = {}
  /\ m.active \notin InRing(m.submit_ring)
  /\ m.active \notin InRing(m.complete_ring)
  /\ m.active \notin out
  /\ InRing(m.submit_ring) \cup InRing(m.complete_ring) \cup out
       \cup ({m.active} \ {NoBuffer}) = 1 .. m.buffer_count

Idle(m) == m.active = NoBuffer => m.complete_ring = <<>>

-----------------------------------------------------------------------------
(* Rings *)

(* A ring without repetition over the first n buffers has at most n.        *)
LEMMA RingLength ==
  ASSUME NEW ring \in Seq(Buffers), NoRepeat(ring), NEW n \in Nat,
         InRing(ring) \subseteq 1 .. n
  PROVE  Len(ring) <= n
<1>1. Len(ring) \in Nat /\ DOMAIN ring = 1 .. Len(ring)
  OBVIOUS
<1>2. /\ IsFiniteSet(1 .. Len(ring)) /\ Cardinality(1 .. Len(ring)) = Len(ring)
      /\ IsFiniteSet(1 .. n) /\ Cardinality(1 .. n) = n
  <2>1. ASSUME NEW k \in Nat
        PROVE  IsFiniteSet(1 .. k) /\ Cardinality(1 .. k) = k
    <3>1. /\ IsFiniteSet(1 .. k)
          /\ Cardinality(1 .. k) = IF 1 > k THEN 0 ELSE k - 1 + 1
      BY FS_Interval
    <3> QED
      BY <3>1
  <2> QED
    BY <1>1, <2>1
<1>3. ring \in [1 .. Len(ring) -> 1 .. n]
  BY <1>1 DEF InRing
<1>4. CASE n < Len(ring)
  <2>1. \E x, y \in 1 .. Len(ring) : x # y /\ ring[x] = ring[y]
    BY <1>2, <1>3, <1>4, FS_PigeonHole
  <2> QED
    BY <1>1, <2>1 DEF NoRepeat
<1> QED
  BY <1>1, <1>4

(* A buffer that is not in a ring finds room in it.                         *)
LEMMA Enqueueing ==
  ASSUME NEW ring \in Seq(Buffers), NoRepeat(ring),
         NEW b \in Buffers, b \notin InRing(ring)
  PROVE  /\ Enqueue(ring, b) \in Seq(Buffers)
         /\ NoRepeat(Enqueue(ring, b))
         /\ InRing(Enqueue(ring, b)) = InRing(ring) \cup {b}
<1> DEFINE r == Append(ring, b)
<1>1. Len(ring) \in Nat /\ DOMAIN ring = 1 .. Len(ring)
  OBVIOUS
<1>2. /\ r \in Seq(Buffers)
      /\ DOMAIN r = 1 .. Len(ring) + 1
      /\ Len(r) = Len(ring) + 1
      /\ r[Len(ring) + 1] = b
      /\ \A i \in 1 .. Len(ring) : r[i] = ring[i]
  OBVIOUS
<1> HIDE DEF r
<1>3. NoRepeat(r)
  BY <1>1, <1>2 DEF NoRepeat, InRing
<1>4. InRing(r) = InRing(ring) \cup {b}
  <2>1. InRing(r) \subseteq InRing(ring) \cup {b}
    BY <1>1, <1>2 DEF InRing
  <2>2. InRing(ring) \subseteq InRing(r)
    BY <1>1, <1>2 DEF InRing
  <2>3. b \in InRing(r)
    BY <1>1, <1>2 DEF InRing
  <2> QED
    BY <2>1, <2>2, <2>3
<1>5. Len(r) <= MaxBufferCount
  <2>1. InRing(r) \subseteq 1 .. MaxBufferCount
    <3>1. \A i \in DOMAIN r : r[i] \in Buffers
      BY <1>2
    <3> QED
      BY <3>1 DEF InRing, Buffers
  <2> QED
    BY <1>2, <1>3, <2>1, RingLength, PoolAssumption
<1>6. Enqueue(ring, b) = r
  <2>1. Len(ring) # MaxBufferCount
    <3>1. MaxBufferCount \in Nat
      BY PoolAssumption
    <3>2. Len(r) = Len(ring) + 1
      BY <1>2
    <3>3. ~(MaxBufferCount + 1 <= MaxBufferCount)
      BY <3>1
    <3> QED
      BY <1>5, <3>2, <3>3
  <2> QED
    BY <2>1 DEF Enqueue, r
<1> QED
  BY <1>2, <1>3, <1>4, <1>6

(* Taking the head of a ring leaves the others.                             *)
LEMMA Dequeueing ==
  ASSUME NEW ring \in Seq(Buffers), NoRepeat(ring), ring # <<>>
  PROVE  /\ Head(ring) \in Buffers
         /\ Tail(ring) \in Seq(Buffers)
         /\ NoRepeat(Tail(ring))
         /\ Head(ring) \notin InRing(Tail(ring))
         /\ InRing(ring) = InRing(Tail(ring)) \cup {Head(ring)}
<1> DEFINE t == Tail(ring)
<1>1. /\ Len(ring) \in Nat /\ Len(ring) >= 1
      /\ DOMAIN ring = 1 .. Len(ring)
  OBVIOUS
<1>2. /\ t \in Seq(Buffers)
      /\ DOMAIN t = 1 .. Len(ring) - 1
      /\ \A i \in 1 .. Len(ring) - 1 : t[i] = ring[i + 1]
      /\ Head(ring) = ring[1]
  OBVIOUS
<1> HIDE DEF t
<1>3. NoRepeat(t)
  BY <1>1, <1>2 DEF NoRepeat
<1>4. ring[1] \notin InRing(t)
  BY <1>1, <1>2 DEF NoRepeat, InRing
<1>5. InRing(t) \subseteq InRing(ring)
  BY <1>1, <1>2 DEF InRing
<1>6. ring[1] \in InRing(ring)
  BY <1>1 DEF InRing
<1>7. ASSUME NEW x \in InRing(ring) PROVE x \in InRing(t) \cup {ring[1]}
  <2>1. PICK i \in 1 .. Len(ring) : x = ring[i]
    BY <1>1 DEF InRing
  <2>2. CASE i > 1
    <3>1. i - 1 \in 1 .. Len(ring) - 1 /\ t[i - 1] = x
      BY <1>1, <1>2, <2>1, <2>2
    <3> QED
      BY <1>2, <3>1 DEF InRing
  <2> QED
    BY <1>1, <2>1, <2>2
<1>8. InRing(ring) = InRing(t) \cup {ring[1]}
  BY <1>5, <1>6, <1>7
<1> QED
  BY <1>1, <1>2, <1>3, <1>4, <1>8 DEF t

-----------------------------------------------------------------------------
(* The methods of the manager *)

(* Without an active buffer, one is taken from the free ring if it has any. *)
LEMMA Taking ==
  ASSUME NEW m, NEW out, Pool(m, out), m.active = NoBuffer
  PROVE  /\ Pool(TakeFree(m), out)
         /\ Idle(TakeFree(m))
         /\ TakeFree(m).used = m.used
         /\ TakeFree(m).buffer_count = m.buffer_count
         /\ TakeFree(m).backpressure_active = m.backpressure_active
<1>1. m \in Manager
  BY DEF Pool
<1>2. CASE m.complete_ring = <<>>
  <2>1. TakeFree(m) = m
    BY <1>1, <1>2 DEF TakeFree, Manager
  <2> QED
    BY <1>2, <2>1 DEF Idle
<1>3. CASE m.complete_ring # <<>>
  <2> DEFINE h == Head(m.complete_ring)
             t == Tail(m.complete_ring)
             n == [m EXCEPT !.active = h, !.complete_ring = t]
  <2>1. m.complete_ring \in Seq(Buffers) /\ NoRepeat(m.complete_ring)
    BY <1>1 DEF Manager, Pool
  <2>2. /\ h \in Buffers /\ t \in Seq(Buffers) /\ NoRepeat(t)
        /\ h \notin InRing(t)
        /\ InRing(m.complete_ring) = InRing(t) \cup {h}
    BY <1>3, <2>1, Dequeueing
  <2> HIDE DEF h, t
  <2>3. /\ n \in Manager
        /\ n.active = h /\ n.complete_ring = t
        /\ n.submit_ring = m.submit_ring
        /\ n.used = m.used
        /\ n.buffer_count = m.buffer_count
        /\ n.backpressure_active = m.backpressure_active
    BY <1>1, <2>2 DEF Manager
  <2>4. h # NoBuffer
    BY <2>2 DEF Buffers, NoBuffer
  <2>5. TakeFree(m) = n
    BY <1>3 DEF TakeFree, h, t
  <2> HIDE DEF n
  <2>6. Pool(n, out)
    BY <2>2, <2>3, <2>4 DEF Pool
  <2>7. Idle(n)
    BY <2>3, <2>4 DEF Idle
  <2> QED
    BY <2>3, <2>5, <2>6, <2>7
<1> QED
  BY <1>2, <1>3

(* Submitting moves the active buffer to the submit ring.                   *)
LEMMA SubmittingCurrent ==
  ASSUME NEW m, NEW out, Pool(m, out), Idle(m)
  PROVE  /\ Pool(SubmitCurrentBuffer(m), out)
         /\ Idle(SubmitCurrentBuffer(m))
         /\ SubmitCurrentBuffer(m).buffer_count = m.buffer_count
         /\ SubmitCurrentBuffer(m).backpressure_active = m.backpressure_active
<1>1. m \in Manager
  BY DEF Pool
<1>2. CASE m.active = NoBuffer \/ m.used[m.active] = 0
  BY <1>2 DEF SubmitCurrentBuffer
<1>3. CASE ~(m.active = NoBuffer \/ m.used[m.active] = 0)
  <2> DEFINE r == Enqueue(m.submit_ring, m.active)
             n == [m EXCEPT !.submit_ring = r, !.active = NoBuffer]
  <2>1. /\ m.active \in Buffers /\ m.submit_ring \in Seq(Buffers)
        /\ NoRepeat(m.submit_ring) /\ m.active \notin InRing(m.submit_ring)
    BY <1>1, <1>3 DEF Manager, Pool
  <2>2. /\ r \in Seq(Buffers) /\ NoRepeat(r)
        /\ InRing(r) = InRing(m.submit_ring) \cup {m.active}
    BY <2>1, Enqueueing
  <2> HIDE DEF r
  <2>3. /\ n \in Manager
        /\ n.active = NoBuffer /\ n.submit_ring = r
        /\ n.complete_ring = m.complete_ring
        /\ n.buffer_count = m.buffer_count
        /\ n.backpressure_active = m.backpressure_active
    BY <1>1, <2>2 DEF Manager
  <2>4. TakeFree([m EXCEPT !.submit_ring = r]) = TakeFree(n)
    BY <1>1 DEF TakeFree, Manager
  <2>5. SubmitCurrentBuffer(m) = TakeFree(n)
    BY <1>3, <2>4 DEF SubmitCurrentBuffer, r
  <2>6. NoBuffer \notin 1 .. m.buffer_count
    BY <1>1 DEF NoBuffer, Manager
  <2> HIDE DEF n
  <2>7. Pool(n, out)
    <3>1. InRing(n.submit_ring) \cup InRing(n.complete_ring) \cup out
            \cup ({n.active} \ {NoBuffer}) = 1 .. n.buffer_count
      BY <1>3, <2>2, <2>3 DEF Pool
    <3>2. /\ NoBuffer \notin InRing(n.submit_ring)
          /\ NoBuffer \notin InRing(n.complete_ring)
          /\ NoBuffer \notin out
      BY <2>3, <2>6, <3>1
    <3>3. /\ InRing(n.submit_ring) \cap InRing(n.complete_ring) = {}
          /\ InRing(n.submit_ring) \cap out = {}
          /\ InRing(n.complete_ring) \cap out = {}
      BY <2>2, <2>3 DEF Pool
    <3>4. /\ n.buffer_count \in 0 .. MaxBufferCount
          /\ NoRepeat(n.submit_ring) /\ NoRepeat(n.complete_ring)
      BY <2>2, <2>3 DEF Pool
    <3> QED
      BY <2>3, <3>1, <3>2, <3>3, <3>4 DEF Pool
  <2> QED
    BY <2>3, <2>5, <2>7, Taking
<1> QED
  BY <1>2, <1>3

(* A buffer that returns becomes free, and active if there is no other.     *)
LEMMA Returning ==
  ASSUME NEW m, NEW out, Pool(m, out), Idle(m), NEW b \in out
  PROVE  /\ Pool(ReturnBuffer(m, b), out \ {b})
         /\ Idle(ReturnBuffer(m, b))
         /\ ReturnBuffer(m, b).buffer_count = m.buffer_count
         /\ ReturnBuffer(m, b).backpressure_active = m.backpressure_active
<1> DEFINE r == Enqueue(m.complete_ring, b)
           n == [m EXCEPT !.used[b] = 0, !.complete_ring = r]
<1>1. m \in Manager /\ b \in 1 .. m.buffer_count
      /\ m.buffer_count \in 0 .. MaxBufferCount
  BY DEF Pool
<1>2. b \in Buffers /\ b # NoBuffer
  BY <1>1, PoolAssumption DEF Buffers, NoBuffer
<1>3. /\ m.complete_ring \in Seq(Buffers) /\ NoRepeat(m.complete_ring)
      /\ b \notin InRing(m.complete_ring)
  BY <1>1 DEF Manager, Pool
<1>4. /\ r \in Seq(Buffers) /\ NoRepeat(r)
      /\ InRing(r) = InRing(m.complete_ring) \cup {b}
  BY <1>2, <1>3, Enqueueing
<1> HIDE DEF r
<1>5. /\ n \in Manager
      /\ n.active = m.active /\ n.submit_ring = m.submit_ring
      /\ n.complete_ring = r
      /\ n.buffer_count = m.buffer_count
      /\ n.backpressure_active = m.backpressure_active
  BY <1>1, <1>2, <1>4 DEF Manager
<1>6. ReturnBuffer(m, b) = IF m.active = NoBuffer THEN TakeFree(n) ELSE n
  BY DEF ReturnBuffer, r
<1> HIDE DEF n
<1>7. Pool(n, out \ {b})
  BY <1>2, <1>4, <1>5 DEF Pool
<1>8. CASE m.active = NoBuffer
  BY <1>5, <1>6, <1>7, <1>8, Taking
<1>9. CASE m.active # NoBuffer
  BY <1>5, <1>6, <1>7, <1>9 DEF Idle
<1> QED
  BY <1>8, <1>9

(* Expansion adds a buffer that was nowhere.                                *)
LEMMA Expanding ==
  ASSUME NEW m, NEW out, Pool(m, out), Idle(m),
         m.buffer_count < MaxBufferCount
  PROVE  /\ Pool(Expand(m), out)
         /\ Idle(Expand(m))
<1> DEFINE b == m.buffer_count + 1
           r == Enqueue(m.complete_ring, b)
           n == [m EXCEPT !.buffer_count = b, !.complete_ring = r]
<1>1. m \in Manager /\ m.buffer_count \in Nat /\ MaxBufferCount \in Nat
  BY PoolAssumption DEF Pool, Manager
<1>2. /\ b \in Buffers /\ b # NoBuffer /\ b \in 0 .. MaxBufferCount
      /\ b \notin 1 .. m.buffer_count
      /\ 1 .. b = (1 .. m.buffer_count) \cup {b}
      /\ b \in Nat
  BY <1>1 DEF Buffers, NoBuffer
<1> HIDE DEF b
<1>3. /\ m.complete_ring \in Seq(Buffers) /\ NoRepeat(m.complete_ring)
      /\ b \notin InRing(m.complete_ring) /\ b \notin InRing(m.submit_ring)
      /\ b \notin out /\ b # m.active
  BY <1>1, <1>2 DEF Manager, Pool
<1>4. /\ r \in Seq(Buffers) /\ NoRepeat(r)
      /\ InRing(r) = InRing(m.complete_ring) \cup {b}
  BY <1>2, <1>3, Enqueueing
<1> HIDE DEF r
<1>5. /\ n \in Manager
      /\ n.active = m.active /\ n.submit_ring = m.submit_ring
      /\ n.complete_ring = r
      /\ n.buffer_count = b
  BY <1>1, <1>2, <1>4 DEF Manager
<1>6. Expand(m) = IF m.active = NoBuffer THEN TakeFree(n) ELSE n
  BY DEF Expand, r, b
<1> HIDE DEF n
<1>7. Pool(n, out)
  BY <1>2, <1>3, <1>4, <1>5 DEF Pool
<1>8. CASE m.active = NoBuffer
  BY <1>5, <1>6, <1>7, <1>8, Taking
<1>9. CASE m.active # NoBuffer
  BY <1>5, <1>6, <1>7, <1>9 DEF Idle
<1> QED
  BY <1>8, <1>9

(* Looking at the water marks moves no buffer but may add one.              *)
LEMMA Checking ==
  ASSUME NEW m, NEW out, Pool(m, out), Idle(m)
  PROVE  /\ Pool(CheckBackpressure(m), out)
         /\ Idle(CheckBackpressure(m))
<1>1. m \in Manager /\ PendingCount(m) \in Nat
  BY DEF Pool, Manager, PendingCount
<1>2. ASSUME NEW f \in BOOLEAN
      PROVE  /\ Pool([m EXCEPT !.backpressure_active = f], out)
             /\ Idle([m EXCEPT !.backpressure_active = f])
  <2> DEFINE n == [m EXCEPT !.backpressure_active = f]
  <2>1. /\ n \in Manager
        /\ n.active = m.active /\ n.submit_ring = m.submit_ring
        /\ n.complete_ring = m.complete_ring
        /\ n.buffer_count = m.buffer_count
    BY <1>1 DEF Manager
  <2> HIDE DEF n
  <2>2. Pool(n, out) /\ Idle(n)
    BY <2>1 DEF Pool, Idle
  <2> QED
    BY <2>2 DEF n
<1>3. CASE m.backpressure_active
  <2> DEFINE f == PendingCount(m) > LowWater
  <2>1. f \in BOOLEAN
    OBVIOUS
  <2>2. CheckBackpressure(m) = [m EXCEPT !.backpressure_active = f]
    BY <1>3 DEF CheckBackpressure
  <2> HIDE DEF f
  <2> QED
    BY <1>2, <2>1, <2>2
<1>4. CASE ~m.backpressure_active /\ PendingCount(m) < HighWater
  BY <1>4 DEF CheckBackpressure
<1>5. CASE /\ ~m.backpressure_active /\ ~(PendingCount(m) < HighWater)
           /\ m.buffer_count < MaxBufferCount
  <2>1. CheckBackpressure(m) = Expand(m)
    BY <1>5 DEF CheckBackpressure
  <2> QED
    BY <1>5, <2>1, Expanding
<1>6. CASE /\ ~m.backpressure_active /\ ~(PendingCount(m) < HighWater)
           /\ ~(m.buffer_count < MaxBufferCount)
  <2>1. CheckBackpressure(m) = [m EXCEPT !.backpressure_active = TRUE]
    BY <1>6 DEF CheckBackpressure
  <2> QED
    BY <1>2, <2>1
<1> QED
  BY <1>3, <1>4, <1>5, <1>6

(* Reserving room moves the active buffer only when it is full.             *)
LEMMA Reserving ==
  ASSUME NEW m, NEW out, Pool(m, out), Idle(m), NEW pages \in Nat,
         HasRoom(m, pages)
  PROVE  /\ Pool(Reserve(m, pages), out)
         /\ Idle(Reserve(m, pages))
         /\ Reserve(m, pages).buffer_count = m.buffer_count
         /\ Reserve(m, pages).backpressure_active = m.backpressure_active
<1> DEFINE n == [m EXCEPT !.used[m.active] = @ + pages]
<1>1. m \in Manager /\ m.active \in Buffers
  BY DEF Pool, Manager, HasRoom
<1>2. m.used[m.active] + pages \in Nat
  BY <1>1 DEF Manager
<1>3. /\ n \in Manager
      /\ n.active = m.active /\ n.submit_ring = m.submit_ring
      /\ n.complete_ring = m.complete_ring
      /\ n.buffer_count = m.buffer_count
      /\ n.backpressure_active = m.backpressure_active
  BY <1>1, <1>2 DEF Manager
<1>4. Reserve(m, pages) =
        IF n.used[m.active] >= FlushPages THEN SubmitCurrentBuffer(n) ELSE n
  BY DEF Reserve
<1> HIDE DEF n
<1>5. Pool(n, out) /\ Idle(n)
  BY <1>3 DEF Pool, Idle
<1>6. /\ Pool(SubmitCurrentBuffer(n), out) /\ Idle(SubmitCurrentBuffer(n))
      /\ SubmitCurrentBuffer(n).buffer_count = n.buffer_count
      /\ SubmitCurrentBuffer(n).backpressure_active = n.backpressure_active
  BY <1>5, SubmittingCurrent
<1> QED
  BY <1>3, <1>4, <1>5, <1>6

(* get_pending_buffers moves all submitted buffers into the empty array.    *)
LEMMA HandingOver ==
  ASSUME NEW m, NEW s, Pool(m, s), Idle(m)
  PROVE  /\ Pool([m EXCEPT !.submit_ring = <<>>], InRing(m.submit_ring) \cup s)
         /\ Idle([m EXCEPT !.submit_ring = <<>>])
<1> DEFINE n == [m EXCEPT !.submit_ring = <<>>]
<1>1. /\ n \in Manager
      /\ n.active = m.active /\ n.submit_ring = <<>>
      /\ n.complete_ring = m.complete_ring
      /\ n.buffer_count = m.buffer_count
  <2>1. m \in Manager /\ <<>> \in Seq(Buffers)
    BY DEF Pool
  <2> QED
    BY <2>1 DEF Manager
<1>2. InRing(n.submit_ring) = {} /\ NoRepeat(n.submit_ring)
  BY <1>1 DEF InRing, NoRepeat
<1> HIDE DEF n
<1>3. Pool(n, InRing(m.submit_ring) \cup s) /\ Idle(n)
  BY <1>1, <1>2 DEF Pool, Idle
<1> QED
  BY <1>3 DEF n

-----------------------------------------------------------------------------
(* The invariant *)

(* The buffers in the hands of poll, close or the device.                   *)
Out == InRing(batch) \cup io

IInv ==
  /\ Pool(manager, Out)
  /\ Idle(manager)
  /\ batch \in Seq(Buffers)
  /\ NoRepeat(batch)
  /\ InRing(batch) \cap io = {}
  /\ state \notin {"polling", "closing"} => batch = <<>>

(* The invariant holds of the manager that initialize leaves.               *)
LEMMA InitIInv == ASSUME Init PROVE IInv
<1> DEFINE c == [b \in 1 .. BufferCount |-> b]
           m == [active |-> NoBuffer, used |-> [b \in Buffers |-> 0],
                 submit_ring |-> <<>>, complete_ring |-> c,
                 buffer_count |-> BufferCount, backpressure_active |-> FALSE]
<1>1. BufferCount \in 1 .. MaxBufferCount /\ MaxBufferCount \in Nat
  BY PoolAssumption
<1>2. c \in Seq(Buffers) /\ DOMAIN c = 1 .. BufferCount
  BY <1>1 DEF Buffers
<1>3. NoRepeat(c) /\ InRing(c) = 1 .. BufferCount
  BY DEF NoRepeat, InRing
<1>4. manager = TakeFree(m)
  BY DEF Init
<1> HIDE DEF c
<1>5. m \in Manager
  BY <1>1, <1>2 DEF Manager, Buffers, NoBuffer
<1>6. /\ m.active = NoBuffer /\ m.submit_ring = <<>>
      /\ m.complete_ring = c /\ m.buffer_count = BufferCount
  OBVIOUS
<1> HIDE DEF m
<1>7. InRing(m.submit_ring) = {} /\ NoRepeat(m.submit_ring)
  BY <1>6 DEF InRing, NoRepeat
<1>8. NoBuffer \notin 1 .. BufferCount /\ BufferCount \in 0 .. MaxBufferCount
  BY <1>1 DEF NoBuffer
<1>9. Pool(m, {})
  BY <1>3, <1>5, <1>6, <1>7, <1>8 DEF Pool
<1>10. Pool(manager, {}) /\ Idle(manager)
  BY <1>4, <1>6, <1>9, Taking
<1>11. batch = <<>> /\ io = {}
  BY DEF Init
<1>12. batch \in Seq(Buffers) /\ NoRepeat(batch) /\ InRing(batch) = {}
  BY <1>11 DEF NoRepeat, InRing
<1>13. Out = {}
  BY <1>11, <1>12 DEF Out
<1> QED
  BY <1>10, <1>11, <1>12, <1>13 DEF IInv

(* The methods, applied where the actions apply them.                       *)
LEMMA NextIInv ==
  ASSUME IInv, [Next]_vars
  PROVE  IInv'
<1> USE DEF IInv
<1>1. ASSUME UNCHANGED <<batch, io>>, state' = state,
             Pool(manager', Out), Idle(manager')
      PROVE  IInv'
  BY <1>1 DEF Out, InRing, NoRepeat
<1>2. ASSUME UNCHANGED <<manager, batch, io>>,
             state' \notin {"polling", "closing"} => batch = <<>>
      PROVE  IInv'
  BY <1>2 DEF Out, InRing, NoRepeat
<1>3. ASSUME NEW k \in Keys, NEW pages \in PutPages, PutIntoBuffer(k, pages)
      PROVE  IInv'
  <2> DEFINE m == CheckBackpressure(manager)
  <2>1. Pool(m, Out) /\ Idle(m)
    BY Checking
  <2>2. /\ HasRoom(m, pages) /\ manager' = Reserve(m, pages)
        /\ UNCHANGED <<batch, io>> /\ state' = state
    BY <1>3 DEF PutIntoBuffer
  <2> HIDE DEF m
  <2>3. pages \in Nat
    BY PoolAssumption
  <2>4. Pool(manager', Out) /\ Idle(manager')
    BY <2>1, <2>2, <2>3, Reserving
  <2> QED
    BY <1>1, <2>2, <2>4
<1>4. ASSUME NEW k \in Keys, NEW pages \in PutPages, PutToWaitQueue(k, pages)
      PROVE  IInv'
  <2>1. /\ manager' = CheckBackpressure(manager)
        /\ UNCHANGED <<batch, io>> /\ state' = state
    BY <1>4 DEF PutToWaitQueue
  <2>2. Pool(manager', Out) /\ Idle(manager')
    BY <2>1, Checking
  <2> QED
    BY <1>1, <2>1, <2>2
<1>5. ASSUME NEW m, Pool(m, Out), Idle(m), state = "ready",
             state' \in {"polling", "closing"}, UNCHANGED io,
             batch' = m.submit_ring,
             manager' = [m EXCEPT !.submit_ring = <<>>]
      PROVE  IInv'
  <2>1. batch = <<>>
    BY <1>5
  <2>2. InRing(batch) = {}
    BY <2>1 DEF InRing
  <2>3. Out = io
    BY <2>2 DEF Out
  <2>4. Pool(manager', InRing(m.submit_ring) \cup Out) /\ Idle(manager')
    BY <1>5, HandingOver
  <2>5. Out' = InRing(m.submit_ring) \cup Out
    BY <1>5, <2>3 DEF Out, InRing
  <2>6. /\ m.submit_ring \in Seq(Buffers) /\ NoRepeat(m.submit_ring)
        /\ InRing(m.submit_ring) \cap io = {}
    BY <1>5, <2>3 DEF Pool, Manager
  <2>7. batch' \in Seq(Buffers) /\ NoRepeat(batch)' /\ (InRing(batch) \cap io)' = {}
    BY <1>5, <2>6 DEF NoRepeat, InRing
  <2> QED
    BY <1>5, <2>4, <2>5, <2>7
<1>6. ASSUME NEW flush \in BOOLEAN, PollBegin(flush)
      PROVE  IInv'
  <2> DEFINE m == IF flush THEN SubmitCurrentBuffer(manager) ELSE manager
  <2>1. Pool(m, Out) /\ Idle(m)
    BY SubmittingCurrent
  <2>2. /\ state = "ready" /\ state' = "polling" /\ UNCHANGED io
        /\ batch' = m.submit_ring
        /\ manager' = [m EXCEPT !.submit_ring = <<>>]
    BY <1>6 DEF PollBegin
  <2> HIDE DEF m
  <2> QED
    BY <1>5, <2>1, <2>2
<1>7. ASSUME CloseBegin
      PROVE  IInv'
  <2> DEFINE m == SubmitCurrentBuffer(manager)
  <2>1. Pool(m, Out) /\ Idle(m)
    BY SubmittingCurrent
  <2>2. /\ state = "ready" /\ state' = "closing" /\ UNCHANGED io
        /\ batch' = m.submit_ring
        /\ manager' = [m EXCEPT !.submit_ring = <<>>]
    BY <1>7 DEF CloseBegin
  <2> HIDE DEF m
  <2> QED
    BY <1>5, <2>1, <2>2
<1>8. ASSUME batch # <<>>, batch' = Tail(batch)
      PROVE  /\ batch' \in Seq(Buffers) /\ NoRepeat(batch)'
             /\ Head(batch) \in Out
             /\ Head(batch) \notin InRing(batch)' /\ Head(batch) \notin io
             /\ InRing(batch)' \cap io = {}
             /\ InRing(batch) = InRing(batch)' \cup {Head(batch)}
  <2>1. /\ Tail(batch) \in Seq(Buffers) /\ NoRepeat(Tail(batch))
        /\ Head(batch) \notin InRing(Tail(batch))
        /\ InRing(batch) = InRing(Tail(batch)) \cup {Head(batch)}
    BY <1>8, Dequeueing
  <2>2. InRing(batch)' = InRing(Tail(batch)) /\ NoRepeat(batch)'
    BY <1>8, <2>1 DEF InRing, NoRepeat
  <2> QED
    BY <1>8, <2>1, <2>2 DEF Out
<1>9. ASSUME SubmitBufferIo
      PROVE  IInv'
  <2>1. /\ batch # <<>> /\ batch' = Tail(batch) /\ io' = io \cup {Head(batch)}
        /\ UNCHANGED <<manager, state>>
    BY <1>9 DEF SubmitBufferIo
  <2>2. Out' = Out
    BY <1>8, <2>1 DEF Out
  <2>3. (InRing(batch) \cap io)' = {}
    BY <1>8, <2>1
  <2> QED
    BY <1>8, <2>1, <2>2, <2>3
<1>10. ASSUME SubmitBufferIoNoSpace
       PROVE  IInv'
  <2> DEFINE b == Head(batch)
  <2>1. /\ batch # <<>> /\ batch' = Tail(batch) /\ io' = io
        /\ manager' = ReturnBuffer(manager, b) /\ UNCHANGED state
    BY <1>10 DEF SubmitBufferIoNoSpace
  <2>2. Out' = Out \ {b}
    BY <1>8, <2>1 DEF Out
  <2>3. Pool(manager', Out') /\ Idle(manager')
    BY <1>8, <2>1, <2>2, Returning
  <2>4. (InRing(batch) \cap io)' = {}
    BY <1>8, <2>1
  <2> QED
    BY <1>8, <2>1, <2>3, <2>4
<1>11. ASSUME NEW b \in io, BufferCompletion(b)
       PROVE  IInv'
  <2>1. /\ io' = io \ {b} /\ manager' = ReturnBuffer(manager, b)
        /\ UNCHANGED <<batch, state>>
    BY <1>11 DEF BufferCompletion, BufferIoComplete, BufferIoFailed
  <2>2. InRing(batch)' = InRing(batch) /\ NoRepeat(batch)'
    BY <2>1 DEF InRing, NoRepeat
  <2>3. Out' = Out \ {b} /\ b \in Out
    BY <2>1, <2>2 DEF Out
  <2>4. Pool(manager', Out') /\ Idle(manager')
    BY <2>1, <2>3, Returning
  <2>5. (InRing(batch) \cap io)' = {}
    BY <2>1, <2>2
  <2> QED
    BY <2>1, <2>2, <2>4, <2>5
<1>12. ASSUME NEW s \in direct, DirectCompletion(s)
       PROVE  IInv'
  BY <1>2, <1>12 DEF DirectCompletion, DirectComplete, DirectFailed
<1>13. CASE PollEnd
  BY <1>2, <1>13 DEF PollEnd
<1>14. CASE CloseFlushed \/ CloseEnd
  BY <1>2, <1>14 DEF CloseFlushed, CloseEnd
<1>15. CASE UNCHANGED vars
  BY <1>2, <1>15 DEF vars
<1> QED
  BY <1>3, <1>4, <1>6, <1>7, <1>9, <1>10, <1>11, <1>12, <1>13, <1>14, <1>15
  DEF Next, Put, Poll, Submission, Completion, Close

(* The invariant the results below follow from holds in every state.        *)
THEOREM Invariance == Spec => []IInv
<1>1. Init => IInv
  BY InitIInv
<1>2. IInv /\ [Next]_vars => IInv'
  BY NextIInv
<1> QED
  BY <1>1, <1>2, PTL DEF Spec

(* No buffer is lost, and none is in two places: a buffer whose data is on  *)
(* its way to the device is not the one puts are written into.              *)
THEOREM NoBufferLost == Spec => []BuffersConserved
<1>1. ASSUME IInv PROVE BuffersConserved
  <2> DEFINE S == InRing(manager.submit_ring)
             C == InRing(manager.complete_ring)
             B == InRing(batch)
             A == {manager.active} \ {NoBuffer}
             places == <<S, C, B, io, A>>
  <2>1. /\ NoRepeat(manager.submit_ring) /\ NoRepeat(manager.complete_ring)
        /\ NoRepeat(batch)
    BY <1>1 DEF IInv, Pool
  <2>2. /\ S \cap C = {} /\ S \cap B = {} /\ S \cap io = {} /\ S \cap A = {}
        /\ C \cap B = {} /\ C \cap io = {} /\ C \cap A = {}
        /\ B \cap io = {} /\ B \cap A = {} /\ io \cap A = {}
        /\ S \cup C \cup B \cup io \cup A = 1 .. manager.buffer_count
    BY <1>1 DEF IInv, Pool, Out
  <2> HIDE DEF S, C, B, A
  <2>3. /\ places[1] = S /\ places[2] = C /\ places[3] = B
        /\ places[4] = io /\ places[5] = A
    OBVIOUS
  <2> HIDE DEF places
  <2>4. 1 .. 5 = {1, 2, 3, 4, 5}
    OBVIOUS
  <2>5. UNION { places[i] : i \in 1 .. 5 } = S \cup C \cup B \cup io \cup A
    BY <2>3, <2>4
  <2>6. \A i, j \in 1 .. 5 : i # j => places[i] \cap places[j] = {}
    BY <2>2, <2>3, <2>4
  <2> QED
    BY <2>1, <2>2, <2>5, <2>6 DEF BuffersConserved, S, C, B, A, places
<1> QED
  BY <1>1, Invariance, PTL

(* A free buffer is never left in the ring while there is no active one.    *)
THEOREM FreeBufferIsUsed == Spec => []NoIdleBuffer
<1>1. IInv => NoIdleBuffer
  BY DEF IInv, Idle, NoIdleBuffer
<1> QED
  BY <1>1, Invariance, PTL

-----------------------------------------------------------------------------
(* Below the high-water mark *)

Quiet(m) == m.buffer_count = BufferCount /\ m.backpressure_active = FALSE

(* The submit ring of a pool that did not grow is below the mark.           *)
LEMMA CheckingQuiet ==
  ASSUME NEW m, NEW out, Pool(m, out), Quiet(m), BufferCount < HighWater
  PROVE  CheckBackpressure(m) = m
<1>1. /\ m.submit_ring \in Seq(Buffers) /\ NoRepeat(m.submit_ring)
      /\ InRing(m.submit_ring) \subseteq 1 .. BufferCount
  BY DEF Pool, Manager, Quiet
<1>2. BufferCount \in Nat /\ HighWater \in Nat
  BY PoolAssumption
<1>3. Len(m.submit_ring) <= BufferCount /\ Len(m.submit_ring) \in Nat
  BY <1>1, <1>2, RingLength
<1>4. PendingCount(m) < HighWater
  BY <1>2, <1>3 DEF PendingCount
<1> QED
  BY <1>4 DEF CheckBackpressure, Quiet

(* A pool of fewer buffers than the high-water mark, as configured by       *)
(* default, never refuses a put for backpressure and never expands.         *)
THEOREM DefaultPoolNeverGrows == Spec => []NoBackpressureBelowHighWater
<1> DEFINE QInv == BufferCount < HighWater => Quiet(manager)
<1>1. Init => QInv
  <2> SUFFICES ASSUME Init PROVE Quiet(manager)
    OBVIOUS
  <2> DEFINE c == [b \in 1 .. BufferCount |-> b]
             m == [active |-> NoBuffer, used |-> [b \in Buffers |-> 0],
                   submit_ring |-> <<>>, complete_ring |-> c,
                   buffer_count |-> BufferCount,
                   backpressure_active |-> FALSE]
  <2>1. manager = TakeFree(m)
    BY DEF Init
  <2> HIDE DEF c
  <2>2. TakeFree(m).buffer_count = BufferCount
    BY DEF TakeFree
  <2>3. TakeFree(m).backpressure_active = FALSE
    BY DEF TakeFree
  <2> QED
    BY <2>1, <2>2, <2>3 DEF Quiet
<1>2. IInv /\ QInv /\ [Next]_vars => QInv'
  <2> SUFFICES ASSUME IInv, Quiet(manager), BufferCount < HighWater, [Next]_vars
               PROVE  Quiet(manager')
    OBVIOUS
  <2>1. Pool(manager, Out) /\ Idle(manager)
    BY DEF IInv
  <2>2. CheckBackpressure(manager) = manager
    BY <2>1, CheckingQuiet
  <2>3. ASSUME NEW k \in Keys, NEW pages \in PutPages, PutIntoBuffer(k, pages)
        PROVE  Quiet(manager')
    <3>1. HasRoom(manager, pages) /\ manager' = Reserve(manager, pages)
      BY <2>2, <2>3 DEF PutIntoBuffer
    <3>2. pages \in Nat
      BY PoolAssumption
    <3> QED
      BY <2>1, <3>1, <3>2, Reserving DEF Quiet
  <2>4. ASSUME NEW k \in Keys, NEW pages \in PutPages, PutToWaitQueue(k, pages)
        PROVE  Quiet(manager')
    BY <2>2, <2>4 DEF PutToWaitQueue
  <2>5. ASSUME NEW m \in Manager, Quiet(m),
               manager' = [m EXCEPT !.submit_ring = <<>>]
        PROVE  Quiet(manager')
    BY <2>5 DEF Quiet, Manager
  <2>6. ASSUME NEW flush \in BOOLEAN, PollBegin(flush)
        PROVE  Quiet(manager')
    <3> DEFINE m == IF flush THEN SubmitCurrentBuffer(manager) ELSE manager
    <3>1. Pool(m, Out) /\ Quiet(m)
      BY <2>1, SubmittingCurrent DEF Quiet
    <3>2. manager' = [m EXCEPT !.submit_ring = <<>>]
      BY <2>6 DEF PollBegin
    <3> HIDE DEF m
    <3> QED
      BY <2>5, <3>1, <3>2 DEF Pool
  <2>7. ASSUME CloseBegin
        PROVE  Quiet(manager')
    <3> DEFINE m == SubmitCurrentBuffer(manager)
    <3>1. Pool(m, Out) /\ Quiet(m)
      BY <2>1, SubmittingCurrent DEF Quiet
    <3>2. manager' = [m EXCEPT !.submit_ring = <<>>]
      BY <2>7 DEF CloseBegin
    <3> HIDE DEF m
    <3> QED
      BY <2>5, <3>1, <3>2 DEF Pool
  <2>8. ASSUME SubmitBufferIoNoSpace
        PROVE  Quiet(manager')
    <3>1. batch # <<>> /\ manager' = ReturnBuffer(manager, Head(batch))
      BY <2>8 DEF SubmitBufferIoNoSpace
    <3>2. Head(batch) \in Out
      <4>1. InRing(batch) = InRing(Tail(batch)) \cup {Head(batch)}
        BY <3>1, Dequeueing DEF IInv
      <4> QED
        BY <4>1 DEF Out
    <3> QED
      BY <2>1, <3>1, <3>2, Returning DEF Quiet
  <2>9. ASSUME NEW b \in io, BufferCompletion(b)
        PROVE  Quiet(manager')
    <3>1. manager' = ReturnBuffer(manager, b) /\ b \in Out
      BY <2>9 DEF BufferCompletion, BufferIoComplete, BufferIoFailed, Out
    <3> QED
      BY <2>1, <3>1, Returning DEF Quiet
  <2>10. ASSUME manager' = manager PROVE Quiet(manager')
    BY <2>10
  <2>11. ASSUME NEW s \in direct, DirectCompletion(s) PROVE Quiet(manager')
    BY <2>10, <2>11 DEF DirectCompletion, DirectComplete, DirectFailed
  <2>12. CASE SubmitBufferIo \/ PollEnd \/ CloseFlushed \/ CloseEnd
              \/ UNCHANGED vars
    BY <2>10, <2>12
    DEF SubmitBufferIo, PollEnd, CloseFlushed, CloseEnd, vars
  <2> QED
    BY <2>3, <2>4, <2>6, <2>7, <2>8, <2>9, <2>11, <2>12
    DEF Next, Put, Poll, Submission, Completion, Close
<1>3. QInv => NoBackpressureBelowHighWater
  BY DEF Quiet, NoBackpressureBelowHighWater
<1> QED
  BY <1>1, <1>2, <1>3, Invariance, PTL DEF Spec

-----------------------------------------------------------------------------
(* Requests and their answers *)

(* What is not the manager's has its type.                                  *)
RequestTypes ==
  /\ buffer_pending_writes \in [Buffers -> Seq(PendingWrite)]
  /\ wait_queue \in Seq(Sequence)
  /\ direct \subseteq Sequence
  /\ resume_callbacks \in 0 .. ResumeSlots
  /\ was_backpressure_active \in BOOLEAN
  /\ state \in {"ready", "polling", "closing", "blobs_closing", "closed"}
  /\ requests \in Seq(Keys) /\ Len(requests) <= MaxSequence
  /\ mem_index \in [Keys -> 0 .. MaxSequence]
  /\ replies \in [Sequence -> Seq(Statuses)]

(* A number that no put has yet is held nowhere and was never answered.     *)
OnlyIssuedHeld ==
  \A s \in Sequence : s > Len(requests) =>
    /\ \A b \in Buffers : s \notin SequencesIn(b)
    /\ s \notin Waiting
    /\ s \notin direct
    /\ replies[s] = <<>>

(* OneReplyEach without counting: the put is held once, or answered once.   *)
InBuffer(s) == /\ \E b \in Buffers : Holders(s) = {b}
               /\ s \notin Waiting /\ s \notin direct /\ replies[s] = <<>>

InWaitQueue(s) == /\ Holders(s) = {}
                  /\ s \in Waiting /\ s \notin direct /\ replies[s] = <<>>

InDirectPath(s) == /\ Holders(s) = {}
                   /\ s \notin Waiting /\ s \in direct /\ replies[s] = <<>>

Answered(s) == /\ Holders(s) = {}
               /\ s \notin Waiting /\ s \notin direct /\ Len(replies[s]) = 1

HeldOrAnswered ==
  state \in {"ready", "polling"} =>
    \A s \in 1 .. Len(requests) :
      InBuffer(s) \/ InWaitQueue(s) \/ InDirectPath(s) \/ Answered(s)

AInv == /\ IInv
        /\ RequestTypes
        /\ OnlyIssuedHeld
        /\ AnsweredIsIndexed
        /\ HeldOrAnswered

(* A set of numbers below a bound has a greatest one.                       *)
LEMMA Greatest ==
  ASSUME NEW n \in Nat, NEW T, T \subseteq 0 .. n, T # {}
  PROVE  \E m \in T : \A t \in T : t <= m
<1> DEFINE U == { n - t : t \in T }
<1>1. U \subseteq Nat /\ U # {}
  <2>1. \A t \in T : n - t \in Nat
    OBVIOUS
  <2> QED
    BY <2>1
<1>2. PICK u \in U : \A v \in U : ~ (<<v, u>> \in OpToRel(<, Nat))
  BY <1>1, WFMin, NatLessThanWellFounded, Zenon
<1>3. \A v \in U : ~ (v < u)
  BY <1>1, <1>2 DEF OpToRel
<1>4. PICK m \in T : u = n - m
  OBVIOUS
<1>5. ASSUME NEW t \in T PROVE t <= m
  <2>1. n - t \in U
    OBVIOUS
  <2>2. ~ (n - t < u)
    BY <1>3, <2>1
  <2> QED
    BY <1>4, <2>2
<1> QED
  BY <1>5

(* The index after an upsert of several entries is at or past each of them  *)
(* and never goes back.                                                     *)
LEMMA Upserting ==
  ASSUME RequestTypes, NEW S \in SUBSET Sequence
  PROVE  /\ UpsertAll(S) \in [Keys -> 0 .. MaxSequence]
         /\ \A k \in Keys : UpsertAll(S)[k] >= mem_index[k]
         /\ \A s \in S : requests[s] \in Keys => UpsertAll(S)[requests[s]] >= s
<1> DEFINE own(k) == { s \in S : requests[s] = k } \cup {mem_index[k]}
           top(k) == CHOOSE s \in own(k) : \A t \in own(k) : t <= s
<1>1. MaxSequence \in Nat
  BY PoolAssumption
<1>2. ASSUME NEW k \in Keys
      PROVE  top(k) \in own(k) /\ top(k) \in 0 .. MaxSequence
             /\ \A t \in own(k) : t <= top(k)
  <2>1. own(k) \subseteq 0 .. MaxSequence /\ own(k) # {}
    <3>1. Sequence \subseteq 0 .. MaxSequence
      BY <1>1 DEF Sequence
    <3>2. mem_index[k] \in 0 .. MaxSequence
      BY DEF RequestTypes
    <3> QED
      BY <3>1, <3>2
  <2> HIDE DEF own
  <2>2. \E m \in own(k) : \A t \in own(k) : t <= m
    BY <1>1, <2>1, Greatest
  <2> QED
    BY <2>1, <2>2
<1>3. UpsertAll(S) = [k \in Keys |-> top(k)]
  BY DEF UpsertAll
<1>4. \A k \in Keys : mem_index[k] \in own(k)
  OBVIOUS
<1>5. \A s \in S : s \in own(requests[s])
  OBVIOUS
<1> HIDE DEF own, top
<1>6. \A k \in Keys : top(k) >= mem_index[k]
  <2> SUFFICES ASSUME NEW k \in Keys PROVE top(k) >= mem_index[k]
    OBVIOUS
  <2> QED
    BY <1>1, <1>2, <1>4 DEF RequestTypes
<1>7. \A s \in S : requests[s] \in Keys => top(requests[s]) >= s
  <2> SUFFICES ASSUME NEW s \in S, requests[s] \in Keys
               PROVE  top(requests[s]) >= s
    OBVIOUS
  <2>1. s <= top(requests[s]) /\ top(requests[s]) \in 0 .. MaxSequence
    BY <1>2, <1>5
  <2> QED
    BY <2>1 DEF Sequence
<1> QED
  BY <1>2, <1>3, <1>6, <1>7

(* Running the callbacks of S adds one answer to each put in S.             *)
LEMMA Answering ==
  ASSUME RequestTypes, NEW S, NEW status \in Statuses,
         replies' = Answer(S, status)
  PROVE  /\ replies' \in [Sequence -> Seq(Statuses)]
         /\ \A s \in Sequence \ S : replies'[s] = replies[s]
         /\ \A s \in Sequence : s \in S =>
              /\ Len(replies'[s]) = Len(replies[s]) + 1
              /\ "ok" \in InRing(replies'[s])
                   => "ok" \in InRing(replies[s]) \/ status = "ok"
<1>1. \A s \in Sequence : replies[s] \in Seq(Statuses)
  BY DEF RequestTypes
<1>2. \A s \in Sequence : Append(replies[s], status) \in Seq(Statuses)
  BY <1>1
<1>3. \A s \in Sequence : replies'[s] = IF s \in S THEN Append(replies[s], status)
                                       ELSE replies[s]
  BY DEF Answer
<1>4. replies' \in [Sequence -> Seq(Statuses)]
  BY <1>1, <1>2 DEF Answer
<1>5. ASSUME NEW s \in Sequence, s \in S
      PROVE  /\ Len(replies'[s]) = Len(replies[s]) + 1
             /\ "ok" \in InRing(replies'[s])
                  => "ok" \in InRing(replies[s]) \/ status = "ok"
  <2> DEFINE r == replies[s]
  <2>1. r \in Seq(Statuses) /\ replies'[s] = Append(r, status)
    BY <1>1, <1>3, <1>5
  <2> HIDE DEF r
  <2>2. Len(Append(r, status)) = Len(r) + 1
    BY <2>1
  <2>3. \A i \in DOMAIN Append(r, status) :
          \/ Append(r, status)[i] = status
          \/ i \in DOMAIN r /\ Append(r, status)[i] = r[i]
    BY <2>1
  <2>4. "ok" \in InRing(Append(r, status)) => "ok" \in InRing(r) \/ status = "ok"
    BY <2>3 DEF InRing
  <2> QED
    BY <2>1, <2>2, <2>4 DEF r
<1> QED
  BY <1>3, <1>4, <1>5

(* The puts of a buffer whose writes are over are in it no longer.          *)
LEMMA Emptying ==
  ASSUME RequestTypes, NEW b \in Buffers,
         buffer_pending_writes' = [buffer_pending_writes EXCEPT ![b] = <<>>]
  PROVE  /\ buffer_pending_writes' \in [Buffers -> Seq(PendingWrite)]
         /\ SequencesIn(b) \subseteq Sequence
         /\ \A c \in Buffers : c # b => SequencesIn(c)' = SequencesIn(c)
         /\ SequencesIn(b)' = {}
         /\ \A s \in Sequence : Holders(s)' = Holders(s) \ {b}
<1>1. /\ buffer_pending_writes' \in [Buffers -> Seq(PendingWrite)]
      /\ buffer_pending_writes'[b] = <<>>
      /\ \A c \in Buffers : c # b =>
           buffer_pending_writes'[c] = buffer_pending_writes[c]
  BY DEF RequestTypes
<1>2. SequencesIn(b) \subseteq Sequence
  <2>1. buffer_pending_writes[b] \in Seq(PendingWrite)
    BY DEF RequestTypes
  <2>2. \A i \in DOMAIN buffer_pending_writes[b] :
          buffer_pending_writes[b][i] \in PendingWrite
    BY <2>1
  <2>3. \A w \in PendingWrite : w.seq \in Sequence
    BY DEF PendingWrite
  <2> QED
    BY <2>2, <2>3 DEF SequencesIn
<1>3. \A c \in Buffers : c # b => SequencesIn(c)' = SequencesIn(c)
  BY <1>1 DEF SequencesIn
<1>4. SequencesIn(b)' = {}
  BY <1>1 DEF SequencesIn
<1>5. \A s \in Sequence : Holders(s)' = Holders(s) \ {b}
  BY <1>3, <1>4 DEF Holders
<1> QED
  BY <1>1, <1>2, <1>3, <1>4, <1>5

(* Answering the puts of S with success, and nothing else, calls for their  *)
(* entries in the index.                                                    *)
LEMMA IndexingAnswers ==
  ASSUME RequestTypes, AnsweredIsIndexed, NEW S \in SUBSET Sequence,
         NEW status \in Statuses, replies' = Answer(S, status),
         requests' = requests,
         \/ mem_index' = UpsertAll(S)
         \/ status # "ok" /\ mem_index' = mem_index
  PROVE  /\ mem_index' \in [Keys -> 0 .. MaxSequence]
         /\ AnsweredIsIndexed'
<1>1. /\ mem_index' \in [Keys -> 0 .. MaxSequence]
      /\ \A k \in Keys : mem_index'[k] >= mem_index[k]
      /\ status = "ok" => \A s \in S : requests[s] \in Keys
                                      => mem_index'[requests[s]] >= s
  <2>1. CASE mem_index' = UpsertAll(S)
    BY <2>1, Upserting
  <2>2. CASE status # "ok" /\ mem_index' = mem_index
    BY <2>2 DEF RequestTypes
  <2> QED
    BY <2>1, <2>2
<1>2. ASSUME NEW s \in 1 .. Len(requests), "ok" \in InRing(replies'[s])
      PROVE  mem_index'[requests[s]] >= s
  <2>1. s \in Sequence /\ requests[s] \in Keys
    BY PoolAssumption DEF RequestTypes, Sequence
  <2>2. /\ mem_index[requests[s]] \in 0 .. MaxSequence
        /\ mem_index'[requests[s]] \in 0 .. MaxSequence
        /\ mem_index'[requests[s]] >= mem_index[requests[s]]
    BY <1>1, <2>1 DEF RequestTypes
  <2>3. CASE "ok" \in InRing(replies[s])
    <3>1. mem_index[requests[s]] >= s
      BY <2>3 DEF AnsweredIsIndexed
    <3> QED
      BY <2>1, <2>2, <3>1 DEF Sequence
  <2>4. CASE "ok" \notin InRing(replies[s])
    <3>1. s \in S
      BY <1>2, <2>1, <2>4, Answering DEF InRing
    <3>2. status = "ok"
      BY <1>2, <2>1, <2>4, <3>1, Answering
    <3> QED
      BY <1>1, <2>1, <3>1, <3>2
  <2> QED
    BY <2>3, <2>4
<1>3. AnsweredIsIndexed'
  BY <1>2 DEF AnsweredIsIndexed, InRing
<1> QED
  BY <1>1, <1>3

(* The writes of a buffer end, or never begin: its puts are answered.       *)
LEMMA BufferOver ==
  ASSUME AInv, NEW b \in Buffers, NEW status \in Statuses,
         replies' = Answer(SequencesIn(b), status),
         buffer_pending_writes' = [buffer_pending_writes EXCEPT ![b] = <<>>],
         \/ mem_index' = UpsertAll(SequencesIn(b))
         \/ status # "ok" /\ mem_index' = mem_index,
         UNCHANGED <<wait_queue, direct, resumeVars, state, requests>>
  PROVE  RequestTypes' /\ OnlyIssuedHeld' /\ AnsweredIsIndexed'
         /\ HeldOrAnswered'
<1> DEFINE S == SequencesIn(b)
<1>1. RequestTypes /\ OnlyIssuedHeld /\ AnsweredIsIndexed /\ HeldOrAnswered
  BY DEF AInv
<1>2. /\ buffer_pending_writes' \in [Buffers -> Seq(PendingWrite)]
      /\ S \in SUBSET Sequence
      /\ \A c \in Buffers : c # b => SequencesIn(c)' = SequencesIn(c)
      /\ SequencesIn(b)' = {}
      /\ \A s \in Sequence : Holders(s)' = Holders(s) \ {b}
  BY <1>1, Emptying
<1>3. \A s \in Sequence : s \in S <=> b \in Holders(s)
  BY DEF Holders
<1> HIDE DEF S
<1>4. replies' = Answer(S, status)
      /\ \/ mem_index' = UpsertAll(S)
         \/ status # "ok" /\ mem_index' = mem_index
  BY DEF S
<1>5. /\ replies' \in [Sequence -> Seq(Statuses)]
      /\ \A s \in Sequence \ S : replies'[s] = replies[s]
      /\ \A s \in Sequence : s \in S => Len(replies'[s]) = Len(replies[s]) + 1
  BY <1>1, <1>4, Answering
<1>6. mem_index' \in [Keys -> 0 .. MaxSequence] /\ AnsweredIsIndexed'
  BY <1>1, <1>2, <1>4, IndexingAnswers
<1>7. RequestTypes'
  BY <1>1, <1>2, <1>5, <1>6 DEF RequestTypes, resumeVars
<1>8. Waiting' = Waiting
  BY DEF Waiting
<1>9. OnlyIssuedHeld'
  <2> SUFFICES ASSUME NEW s \in Sequence, s > Len(requests)
               PROVE  /\ \A c \in Buffers : s \notin SequencesIn(c)'
                      /\ s \notin Waiting' /\ s \notin direct'
                      /\ replies'[s] = <<>>
    BY DEF OnlyIssuedHeld
  <2>1. /\ \A c \in Buffers : s \notin SequencesIn(c)
        /\ s \notin Waiting /\ s \notin direct /\ replies[s] = <<>>
    BY <1>1 DEF OnlyIssuedHeld
  <2>2. s \notin S
    BY <2>1 DEF S
  <2> QED
    BY <1>2, <1>5, <1>8, <2>1, <2>2
<1>10. HeldOrAnswered'
  <2> SUFFICES ASSUME state \in {"ready", "polling"},
                      NEW s \in 1 .. Len(requests)
               PROVE  (InBuffer(s) \/ InWaitQueue(s) \/ InDirectPath(s)
                         \/ Answered(s))'
    BY DEF HeldOrAnswered
  <2>1. s \in Sequence
    BY <1>1, PoolAssumption DEF RequestTypes, Sequence
  <2>2. InBuffer(s) \/ InWaitQueue(s) \/ InDirectPath(s) \/ Answered(s)
    BY <1>1 DEF HeldOrAnswered
  <2>3. CASE s \in S
    <3>1. Holders(s) = {b} /\ InBuffer(s)
      BY <1>3, <2>1, <2>2, <2>3
      DEF InBuffer, InWaitQueue, InDirectPath, Answered
    <3>2. Holders(s)' = {}
      BY <1>2, <2>1, <3>1
    <3>3. Len(replies'[s]) = 1
      <4>1. replies[s] = <<>> /\ Len(replies'[s]) = Len(replies[s]) + 1
        BY <1>5, <2>1, <2>3, <3>1 DEF InBuffer
      <4> QED
        BY <4>1
    <3> QED
      BY <1>8, <3>1, <3>2, <3>3 DEF InBuffer, Answered
  <2>4. CASE s \notin S
    <3>1. Holders(s)' = Holders(s) /\ replies'[s] = replies[s]
      BY <1>2, <1>3, <1>5, <2>1, <2>4
    <3> QED
      BY <1>8, <2>2, <3>1 DEF InBuffer, InWaitQueue, InDirectPath, Answered
  <2> QED
    BY <2>3, <2>4
<1> QED
  BY <1>6, <1>7, <1>9, <1>10

(* The direct write of a put that waited ends.                              *)
LEMMA DirectOver ==
  ASSUME AInv, NEW q \in direct, NEW status \in Statuses,
         replies' = Answer({q}, status), direct' = direct \ {q},
         \/ mem_index' = UpsertAll({q})
         \/ status # "ok" /\ mem_index' = mem_index,
         UNCHANGED <<buffer_pending_writes, wait_queue, resumeVars, state,
                     requests>>
  PROVE  RequestTypes' /\ OnlyIssuedHeld' /\ AnsweredIsIndexed'
         /\ HeldOrAnswered'
<1>1. RequestTypes /\ OnlyIssuedHeld /\ AnsweredIsIndexed /\ HeldOrAnswered
  BY DEF AInv
<1>2. q \in Sequence /\ {q} \in SUBSET Sequence
  BY <1>1 DEF RequestTypes
<1>3. /\ replies' \in [Sequence -> Seq(Statuses)]
      /\ \A s \in Sequence : s # q => replies'[s] = replies[s]
      /\ Len(replies'[q]) = Len(replies[q]) + 1
  <2> DEFINE S == {q}
  <2>1. replies' = Answer(S, status)
    OBVIOUS
  <2>2. q \in S /\ \A s \in Sequence : s # q => s \in Sequence \ S
    OBVIOUS
  <2> HIDE DEF S
  <2> QED
    BY <1>1, <1>2, <2>1, <2>2, Answering
<1>4. mem_index' \in [Keys -> 0 .. MaxSequence] /\ AnsweredIsIndexed'
  BY <1>1, <1>2, IndexingAnswers
<1>5. RequestTypes'
  BY <1>1, <1>3, <1>4 DEF RequestTypes, resumeVars
<1>6. /\ Waiting' = Waiting
      /\ \A b \in Buffers : SequencesIn(b)' = SequencesIn(b)
      /\ \A s \in Sequence : Holders(s)' = Holders(s)
  BY DEF Waiting, SequencesIn, Holders
<1>7. OnlyIssuedHeld'
  BY <1>1, <1>2, <1>3, <1>6 DEF OnlyIssuedHeld
<1>8. HeldOrAnswered'
  <2> SUFFICES ASSUME state \in {"ready", "polling"},
                      NEW s \in 1 .. Len(requests)
               PROVE  (InBuffer(s) \/ InWaitQueue(s) \/ InDirectPath(s)
                         \/ Answered(s))'
    BY DEF HeldOrAnswered
  <2>1. s \in Sequence
    BY <1>1, PoolAssumption DEF RequestTypes, Sequence
  <2>2. InBuffer(s) \/ InWaitQueue(s) \/ InDirectPath(s) \/ Answered(s)
    BY <1>1 DEF HeldOrAnswered
  <2>3. CASE s = q
    <3>1. InDirectPath(s)
      BY <2>2, <2>3 DEF InBuffer, InWaitQueue, InDirectPath, Answered
    <3>2. Len(replies'[s]) = 1
      <4>1. replies[s] = <<>> /\ Len(replies'[s]) = Len(replies[s]) + 1
        BY <1>3, <2>3, <3>1 DEF InDirectPath
      <4> QED
        BY <4>1
    <3> QED
      BY <1>6, <2>1, <2>3, <3>1, <3>2 DEF InDirectPath, Answered
  <2>4. CASE s # q
    BY <1>3, <1>6, <2>1, <2>2, <2>4
    DEF InBuffer, InWaitQueue, InDirectPath, Answered
  <2> QED
    BY <2>3, <2>4
<1> QED
  BY <1>4, <1>5, <1>7, <1>8

(* A new put takes the next number, whichever place it goes to.             *)
LEMMA NextRequest ==
  ASSUME AInv, NEW k \in Keys, Len(requests) < MaxSequence,
         requests' = Append(requests, k)
  PROVE  /\ Len(requests) + 1 \in Sequence
         /\ Len(requests') = Len(requests) + 1
         /\ requests' \in Seq(Keys) /\ Len(requests') <= MaxSequence
         /\ \A s \in 1 .. Len(requests) : requests'[s] = requests[s]
         /\ /\ Holders(Len(requests) + 1) = {}
            /\ Len(requests) + 1 \notin Waiting
            /\ Len(requests) + 1 \notin direct
            /\ replies[Len(requests) + 1] = <<>>
<1>1. requests \in Seq(Keys) /\ MaxSequence \in Nat
  BY PoolAssumption DEF AInv, RequestTypes
<1>2. Len(requests) \in Nat /\ Len(requests) + 1 \in Sequence
      /\ Len(requests) + 1 > Len(requests)
  BY <1>1 DEF Sequence
<1>3. OnlyIssuedHeld
  BY DEF AInv
<1>4. /\ Holders(Len(requests) + 1) = {}
      /\ Len(requests) + 1 \notin Waiting
      /\ Len(requests) + 1 \notin direct
      /\ replies[Len(requests) + 1] = <<>>
  BY <1>2, <1>3 DEF OnlyIssuedHeld, Holders
<1> QED
  BY <1>1, <1>2, <1>4

(* The index and the answers say the same of the earlier puts.              *)
LEMMA NothingAnswered ==
  ASSUME AInv, NEW k \in Keys, Len(requests) < MaxSequence,
         requests' = Append(requests, k), UNCHANGED <<mem_index, replies>>
  PROVE  AnsweredIsIndexed'
<1>1. ASSUME NEW s \in 1 .. Len(requests'), "ok" \in InRing(replies[s])
      PROVE  mem_index[requests'[s]] >= s
  <2>1. s # Len(requests) + 1
    BY <1>1, NextRequest DEF InRing
  <2>2. s \in 1 .. Len(requests) /\ requests'[s] = requests[s]
    <3>1. Len(requests) \in Nat /\ Len(requests') = Len(requests) + 1
      BY NextRequest DEF AInv, RequestTypes
    <3>2. s \in 1 .. Len(requests)
      BY <2>1, <3>1
    <3> QED
      BY <3>2, NextRequest
  <2>3. AnsweredIsIndexed
    BY DEF AInv
  <2> QED
    BY <1>1, <2>2, <2>3 DEF AnsweredIsIndexed
<1> QED
  BY <1>1 DEF AnsweredIsIndexed, InRing

(* put_buffered puts the record behind the others of the active buffer.     *)
LEMMA IntoBuffer ==
  ASSUME AInv, NEW k \in Keys, NEW pages \in PutPages, PutIntoBuffer(k, pages)
  PROVE  RequestTypes' /\ OnlyIssuedHeld' /\ AnsweredIsIndexed'
         /\ HeldOrAnswered'
<1> DEFINE m == CheckBackpressure(manager)
<1>1. RequestTypes /\ OnlyIssuedHeld /\ HeldOrAnswered
  BY DEF AInv
<1>2. Pool(m, Out)
  BY Checking DEF AInv, IInv
<1>3. PICK a \in Buffers, offset \in Nat : a = m.active /\ offset = m.used[m.active]
  <2>1. m \in Manager /\ m.active # NoBuffer
    BY <1>2 DEF PutIntoBuffer, Pool, HasRoom
  <2> HIDE DEF m
  <2> QED
    BY <2>1 DEF Manager
<1>4. /\ Len(requests) < MaxSequence /\ requests' = Append(requests, k)
      /\ UNCHANGED <<wait_queue, direct, resumeVars, state, mem_index, replies>>
  BY DEF PutIntoBuffer
<1>5. PICK n \in Sequence :
        /\ n = Len(requests) + 1 /\ Len(requests') = n
        /\ requests' \in Seq(Keys) /\ Len(requests') <= MaxSequence
        /\ Holders(n) = {} /\ n \notin Waiting /\ n \notin direct
        /\ replies[n] = <<>>
  BY <1>4, NextRequest
<1> DEFINE w == [seq |-> n, buffer_offset |-> offset, pages |-> pages]
           old == buffer_pending_writes[a]
<1>6. buffer_pending_writes' =
         [buffer_pending_writes EXCEPT ![a] = Append(@, w)]
  BY <1>3, <1>5 DEF PutIntoBuffer
<1> HIDE DEF m
<1>7. w \in PendingWrite
  <2>1. pages \in Nat \ {0}
    BY PoolAssumption
  <2> QED
    BY <1>3, <1>5, <2>1 DEF PendingWrite
<1> HIDE DEF w
<1>8. w.seq = n
  BY DEF w
<1>9. old \in Seq(PendingWrite)
  BY <1>1, <1>3 DEF RequestTypes
<1>10. /\ buffer_pending_writes' \in [Buffers -> Seq(PendingWrite)]
      /\ buffer_pending_writes'[a] = Append(old, w)
      /\ \A b \in Buffers : b # a =>
           buffer_pending_writes'[b] = buffer_pending_writes[b]
  BY <1>1, <1>7, <1>9, <1>6 DEF RequestTypes
<1>11. SequencesIn(a)' = SequencesIn(a) \cup {n}
  <2> DEFINE new == Append(old, w)
  <2>1. /\ DOMAIN new = DOMAIN old \cup {Len(old) + 1}
        /\ new[Len(old) + 1] = w
        /\ \A i \in DOMAIN old : new[i] = old[i]
    BY <1>7, <1>9
  <2> HIDE DEF new, old
  <2>2. { new[i].seq : i \in DOMAIN new } = { old[i].seq : i \in DOMAIN old } \cup {n}
    BY <1>8, <2>1
  <2> QED
    BY <1>10, <2>2 DEF SequencesIn, new, old
<1>12. \A b \in Buffers : b # a => SequencesIn(b)' = SequencesIn(b)
  BY <1>10 DEF SequencesIn
<1>13. Holders(n)' = {a}
  BY <1>3, <1>5, <1>11, <1>12 DEF Holders
<1>14. \A s \in Sequence : s # n => Holders(s)' = Holders(s)
  BY <1>11, <1>12 DEF Holders
<1>15. Waiting' = Waiting
  BY <1>4 DEF Waiting
<1>16. Len(requests) \in Nat /\ n = Len(requests) + 1
  BY <1>1, <1>5 DEF RequestTypes
<1>17. RequestTypes'
  BY <1>1, <1>4, <1>5, <1>10 DEF RequestTypes, resumeVars
<1>18. OnlyIssuedHeld'
  <2> SUFFICES ASSUME NEW s \in Sequence, s > n
               PROVE  /\ \A c \in Buffers : s \notin SequencesIn(c)'
                      /\ s \notin Waiting /\ s \notin direct
                      /\ replies[s] = <<>>
    BY <1>4, <1>5, <1>15 DEF OnlyIssuedHeld
  <2>1. s > Len(requests) /\ s # n
    BY <1>16 DEF Sequence
  <2> QED
    BY <1>1, <1>11, <1>12, <2>1 DEF OnlyIssuedHeld
<1>19. HeldOrAnswered'
  <2> SUFFICES ASSUME state \in {"ready", "polling"}, NEW s \in 1 .. n
               PROVE  (InBuffer(s) \/ InWaitQueue(s) \/ InDirectPath(s)
                         \/ Answered(s))'
    BY <1>4, <1>5 DEF HeldOrAnswered
  <2>1. CASE s = n
    BY <1>3, <1>4, <1>5, <1>13, <1>15, <2>1 DEF InBuffer
  <2>2. CASE s # n
    <3>1. s \in 1 .. Len(requests) /\ s \in Sequence
      BY <1>5, <1>16, <2>2, PoolAssumption DEF Sequence
    <3>2. InBuffer(s) \/ InWaitQueue(s) \/ InDirectPath(s) \/ Answered(s)
      BY <1>1, <3>1 DEF HeldOrAnswered
    <3> QED
      BY <1>4, <1>14, <1>15, <2>2, <3>1, <3>2
      DEF InBuffer, InWaitQueue, InDirectPath, Answered
  <2> QED
    BY <2>1, <2>2
<1>20. AnsweredIsIndexed'
  BY <1>4, NothingAnswered
<1> QED
  BY <1>17, <1>18, <1>19, <1>20

(* put_buffered finds no room, and the put waits behind the others.         *)
LEMMA IntoWaitQueue ==
  ASSUME AInv, NEW k \in Keys, NEW pages \in PutPages, PutToWaitQueue(k, pages)
  PROVE  RequestTypes' /\ OnlyIssuedHeld' /\ AnsweredIsIndexed'
         /\ HeldOrAnswered'
<1> DEFINE n == Len(requests) + 1
<1>1. RequestTypes /\ OnlyIssuedHeld /\ HeldOrAnswered
  BY DEF AInv
<1>2. /\ Len(requests) < MaxSequence /\ requests' = Append(requests, k)
      /\ wait_queue' = Append(wait_queue, n)
      /\ buffer_pending_writes' = buffer_pending_writes /\ direct' = direct
      /\ was_backpressure_active' = was_backpressure_active /\ state' = state
      /\ mem_index' = mem_index /\ replies' = replies
  BY DEF PutToWaitQueue
<1>3. Len(requests) \in Nat
  BY <1>1 DEF RequestTypes
<1>4. n > Len(requests)
  BY <1>3
<1>5. /\ n \in Sequence /\ Len(requests') = n
      /\ requests' \in Seq(Keys) /\ Len(requests') <= MaxSequence
      /\ Holders(n) = {} /\ n \notin Waiting /\ n \notin direct
      /\ replies[n] = <<>>
  BY <1>2, NextRequest
<1>6. \A s \in 1 .. n : s # n => s \in 1 .. Len(requests) /\ s \in Sequence
  BY <1>3, <1>5, PoolAssumption DEF Sequence
<1>7. \A s \in Sequence : s > n => s > Len(requests) /\ s # n
  BY <1>3 DEF Sequence
<1> HIDE DEF n
<1>8. wait_queue \in Seq(Sequence) /\ wait_queue' \in Seq(Sequence)
  BY <1>1, <1>2, <1>5 DEF RequestTypes
<1>9. Waiting' = Waiting \cup {n}
  <2> DEFINE old == wait_queue
             new == Append(old, n)
  <2>1. wait_queue' = new
    BY <1>2
  <2>2. /\ DOMAIN new = DOMAIN old \cup {Len(old) + 1}
        /\ new[Len(old) + 1] = n
        /\ \A i \in DOMAIN old : new[i] = old[i]
    BY <1>5, <1>8
  <2> HIDE DEF new, old
  <2>3. { new[i] : i \in DOMAIN new } = { old[i] : i \in DOMAIN old } \cup {n}
    BY <2>2
  <2> QED
    BY <2>1, <2>3 DEF Waiting, old
<1>10. resume_callbacks' \in 0 .. ResumeSlots
  <2>1. Register
    BY DEF PutToWaitQueue
  <2> QED
    BY <1>1, <2>1 DEF RequestTypes, Register, ResumeSlots
<1>11. /\ \A b \in Buffers : SequencesIn(b)' = SequencesIn(b)
       /\ \A s \in Sequence : Holders(s)' = Holders(s)
  BY <1>2 DEF SequencesIn, Holders
<1>12. RequestTypes'
  BY <1>1, <1>2, <1>5, <1>8, <1>10 DEF RequestTypes
<1>13. OnlyIssuedHeld'
  <2> SUFFICES ASSUME NEW s \in Sequence, s > n
               PROVE  /\ \A c \in Buffers : s \notin SequencesIn(c)
                      /\ s \notin Waiting' /\ s \notin direct
                      /\ replies[s] = <<>>
    BY <1>2, <1>5, <1>11 DEF OnlyIssuedHeld
  <2> QED
    BY <1>1, <1>7, <1>9 DEF OnlyIssuedHeld
<1>14. HeldOrAnswered'
  <2> SUFFICES ASSUME state \in {"ready", "polling"}, NEW s \in 1 .. n
               PROVE  (InBuffer(s) \/ InWaitQueue(s) \/ InDirectPath(s)
                         \/ Answered(s))'
    BY <1>2, <1>5 DEF HeldOrAnswered
  <2>1. CASE s = n
    BY <1>2, <1>5, <1>9, <1>11, <2>1 DEF InWaitQueue
  <2>2. CASE s # n
    <3>1. s \in 1 .. Len(requests) /\ s \in Sequence
      BY <1>6, <2>2
    <3>2. InBuffer(s) \/ InWaitQueue(s) \/ InDirectPath(s) \/ Answered(s)
      BY <1>1, <3>1 DEF HeldOrAnswered
    <3>3. s \in Waiting' <=> s \in Waiting
      BY <1>9, <2>2
    <3> QED
      BY <1>2, <1>11, <3>1, <3>2, <3>3
      DEF InBuffer, InWaitQueue, InDirectPath, Answered
  <2> QED
    BY <2>1, <2>2
<1>15. AnsweredIsIndexed'
  BY <1>2, NothingAnswered
<1> QED
  BY <1>12, <1>13, <1>14, <1>15

(* poll hands the puts that wait to the direct path, or leaves them.        *)
LEMMA WaitersHandedOn ==
  ASSUME AInv, PollEnd
  PROVE  RequestTypes' /\ OnlyIssuedHeld' /\ AnsweredIsIndexed'
         /\ HeldOrAnswered'
<1>1. RequestTypes /\ OnlyIssuedHeld /\ AnsweredIsIndexed /\ HeldOrAnswered
  BY DEF AInv
<1>2. /\ state = "polling" /\ state' = "ready"
      /\ UNCHANGED <<buffer_pending_writes, requests, mem_index, replies>>
  BY DEF PollEnd
<1>3. /\ \A b \in Buffers : SequencesIn(b)' = SequencesIn(b)
      /\ \A s \in Sequence : Holders(s)' = Holders(s)
  BY <1>2 DEF SequencesIn, Holders
<1>4. Waiting \subseteq Sequence
  BY <1>1 DEF RequestTypes, Waiting
<1>5. \/ wait_queue' = <<>> /\ Waiting' = {} /\ direct' = direct \cup Waiting
      \/ wait_queue' = wait_queue /\ Waiting' = Waiting /\ direct' = direct
  BY DEF PollEnd, ProcessWaitQueue, Waiting
<1>6. RequestTypes'
  <2>1. wait_queue' \in Seq(Sequence) /\ direct' \subseteq Sequence
    <3>1. <<>> \in Seq(Sequence)
      OBVIOUS
    <3> QED
      BY <1>1, <1>4, <1>5, <3>1 DEF RequestTypes
  <2>2. resume_callbacks' \in 0 .. ResumeSlots
    BY <1>1 DEF PollEnd, RequestTypes, ResumeSlots
  <2>3. was_backpressure_active' \in BOOLEAN
    BY DEF PollEnd, AInv, IInv, Pool, Manager
  <2> QED
    BY <1>1, <1>2, <2>1, <2>2, <2>3 DEF RequestTypes
<1>7. OnlyIssuedHeld'
  BY <1>1, <1>2, <1>3, <1>5 DEF OnlyIssuedHeld
<1>8. AnsweredIsIndexed'
  BY <1>1, <1>2 DEF AnsweredIsIndexed, InRing
<1>9. HeldOrAnswered'
  <2> SUFFICES ASSUME NEW s \in 1 .. Len(requests)
               PROVE  (InBuffer(s) \/ InWaitQueue(s) \/ InDirectPath(s)
                         \/ Answered(s))'
    BY <1>2 DEF HeldOrAnswered
  <2>1. s \in Sequence
    BY <1>1, PoolAssumption DEF RequestTypes, Sequence
  <2>2. InBuffer(s) \/ InWaitQueue(s) \/ InDirectPath(s) \/ Answered(s)
    BY <1>1, <1>2 DEF HeldOrAnswered
  <2> QED
    BY <1>2, <1>3, <1>5, <2>1, <2>2
    DEF InBuffer, InWaitQueue, InDirectPath, Answered
<1> QED
  BY <1>6, <1>7, <1>8, <1>9

(* close refuses the puts that wait and forgets the writes in flight.       *)
LEMMA WaitersRefused ==
  ASSUME AInv, CloseFlushed
  PROVE  RequestTypes' /\ OnlyIssuedHeld' /\ AnsweredIsIndexed'
         /\ HeldOrAnswered'
<1>1. RequestTypes /\ OnlyIssuedHeld /\ AnsweredIsIndexed
  BY DEF AInv
<1>2. /\ state' = "blobs_closing"
      /\ replies' = Answer(Waiting, "not_ready")
      /\ wait_queue' = <<>>
      /\ buffer_pending_writes' = [b \in Buffers |-> <<>>]
      /\ UNCHANGED <<direct, resumeVars, requests, mem_index>>
  BY DEF CloseFlushed
<1>3. Waiting \in SUBSET Sequence /\ "not_ready" \in Statuses
      /\ "not_ready" # "ok"
  BY <1>1 DEF RequestTypes, Waiting, Statuses
<1>4. /\ replies' \in [Sequence -> Seq(Statuses)]
      /\ \A s \in Sequence \ Waiting : replies'[s] = replies[s]
  BY <1>1, <1>2, <1>3, Answering
<1>5. /\ Waiting' = {}
      /\ \A b \in Buffers : SequencesIn(b)' = {}
  BY <1>2 DEF Waiting, SequencesIn
<1>6. RequestTypes'
  BY <1>1, <1>2, <1>4 DEF RequestTypes, resumeVars
<1>7. OnlyIssuedHeld'
  BY <1>1, <1>2, <1>4, <1>5 DEF OnlyIssuedHeld
<1>8. AnsweredIsIndexed'
  BY <1>1, <1>2, <1>3, IndexingAnswers
<1>9. HeldOrAnswered'
  BY <1>2 DEF HeldOrAnswered
<1> QED
  BY <1>6, <1>7, <1>8, <1>9

(* Steps that only move buffers.                                            *)
LEMMA RequestsKept ==
  ASSUME AInv,
         UNCHANGED <<buffer_pending_writes, wait_queue, direct, resumeVars,
                     requests, mem_index, replies>>,
         \/ state' = state
         \/ state' = "polling" /\ state = "ready"
         \/ state' \in {"closing", "closed"}
  PROVE  RequestTypes' /\ OnlyIssuedHeld' /\ AnsweredIsIndexed'
         /\ HeldOrAnswered'
<1>1. RequestTypes /\ OnlyIssuedHeld /\ AnsweredIsIndexed /\ HeldOrAnswered
  BY DEF AInv
<1>2. /\ \A b \in Buffers : SequencesIn(b)' = SequencesIn(b)
      /\ \A s : Holders(s)' = Holders(s)
      /\ Waiting' = Waiting
  BY DEF SequencesIn, Holders, Waiting
<1>3. RequestTypes'
  BY <1>1 DEF RequestTypes, resumeVars
<1>4. OnlyIssuedHeld'
  BY <1>1, <1>2 DEF OnlyIssuedHeld
<1>5. AnsweredIsIndexed'
  BY <1>1 DEF AnsweredIsIndexed, InRing
<1>6. HeldOrAnswered'
  BY <1>1, <1>2
  DEF HeldOrAnswered, InBuffer, InWaitQueue, InDirectPath, Answered
<1> QED
  BY <1>3, <1>4, <1>5, <1>6

(* No request is held when the engine opens.                                *)
LEMMA InitAInv == ASSUME Init PROVE AInv
<1>1. IInv
  BY InitIInv
<1>2. /\ buffer_pending_writes = [b \in Buffers |-> <<>>]
      /\ wait_queue = <<>> /\ direct = {} /\ resume_callbacks = 0
      /\ was_backpressure_active = FALSE /\ state = "ready" /\ requests = <<>>
      /\ mem_index = [k \in Keys |-> 0] /\ replies = [s \in Sequence |-> <<>>]
  BY DEF Init
<1>3. MaxSequence \in Nat /\ Len(requests) = 0
  BY <1>2, PoolAssumption
<1>4. RequestTypes
  <2>1. /\ <<>> \in Seq(PendingWrite) /\ <<>> \in Seq(Sequence)
        /\ <<>> \in Seq(Keys) /\ <<>> \in Seq(Statuses)
    OBVIOUS
  <2>2. 0 \in 0 .. ResumeSlots /\ 0 \in 0 .. MaxSequence
    BY <1>3 DEF ResumeSlots
  <2>3. Len(requests) <= MaxSequence
    BY <1>3
  <2> QED
    BY <1>2, <2>1, <2>2, <2>3 DEF RequestTypes
<1>5. OnlyIssuedHeld
  BY <1>2 DEF OnlyIssuedHeld, SequencesIn, Waiting
<1>6. 1 .. Len(requests) = {}
  BY <1>3
<1>7. AnsweredIsIndexed /\ HeldOrAnswered
  BY <1>6 DEF AnsweredIsIndexed, HeldOrAnswered
<1> QED
  BY <1>1, <1>4, <1>5, <1>7 DEF AInv

LEMMA NextAInv ==
  ASSUME AInv, [Next]_vars
  PROVE  AInv'
<1> DEFINE Requests == RequestTypes /\ OnlyIssuedHeld /\ AnsweredIsIndexed
                         /\ HeldOrAnswered
<1>1. IInv'
  BY NextIInv DEF AInv
<1>2. io \subseteq Buffers
  <2>1. Pool(manager, Out)
    BY DEF AInv, IInv
  <2>2. /\ manager.buffer_count \in 0 .. MaxBufferCount
        /\ Out \subseteq 1 .. manager.buffer_count
    BY <2>1 DEF Pool
  <2> QED
    BY <2>2, PoolAssumption DEF Out, Buffers
<1>3. ASSUME NEW k \in Keys, NEW pages \in PutPages,
             PutIntoBuffer(k, pages) \/ PutToWaitQueue(k, pages)
      PROVE  Requests'
  BY <1>3, IntoBuffer, IntoWaitQueue
<1>4. ASSUME SubmitBufferIoNoSpace
      PROVE  Requests'
  <2>1. Head(batch) \in Buffers
    BY <1>4, Dequeueing DEF SubmitBufferIoNoSpace, AInv, IInv
  <2>2. "no_space" \in Statuses /\ "no_space" # "ok"
    BY DEF Statuses
  <2> QED
    BY <1>4, <2>1, <2>2, BufferOver DEF SubmitBufferIoNoSpace
<1>5. ASSUME NEW b \in io, BufferCompletion(b)
      PROVE  Requests'
  <2>1. "ok" \in Statuses /\ "io_error" \in Statuses /\ "io_error" # "ok"
    BY DEF Statuses
  <2>2. CASE BufferIoComplete(b)
    BY <1>2, <2>1, <2>2, BufferOver DEF BufferIoComplete
  <2>3. CASE BufferIoFailed(b)
    BY <1>2, <2>1, <2>3, BufferOver DEF BufferIoFailed
  <2> QED
    BY <1>5, <2>2, <2>3 DEF BufferCompletion
<1>6. ASSUME NEW s \in direct, DirectCompletion(s)
      PROVE  Requests'
  <2>1. CASE DirectComplete(s)
    <3>1. "ok" \in Statuses
      BY DEF Statuses
    <3> QED
      BY <2>1, <3>1, DirectOver DEF DirectComplete
  <2>2. CASE DirectFailed(s)
    <3>1. PICK status \in {"io_error", "no_space", "internal_error"} :
            replies' = Answer({s}, status)
      BY <2>2 DEF DirectFailed
    <3>2. status \in Statuses /\ status # "ok"
      BY DEF Statuses
    <3> QED
      BY <2>2, <3>1, <3>2, DirectOver DEF DirectFailed
  <2> QED
    BY <1>6, <2>1, <2>2 DEF DirectCompletion
<1>7. ASSUME \/ \E flush \in BOOLEAN : PollBegin(flush)
             \/ SubmitBufferIo \/ CloseBegin \/ CloseEnd \/ UNCHANGED vars
      PROVE  Requests'
  BY <1>7, RequestsKept
  DEF PollBegin, SubmitBufferIo, CloseBegin, CloseEnd, vars, resumeVars
<1>8. ASSUME PollEnd \/ CloseFlushed
      PROVE  Requests'
  BY <1>8, WaitersHandedOn, WaitersRefused
<1>9. Requests'
  BY <1>3, <1>4, <1>5, <1>6, <1>7, <1>8
  DEF Next, Put, Poll, Submission, Completion, Close
<1> QED
  BY <1>1, <1>9 DEF AInv

LEMMA AnswersInvariance == Spec => []AInv
<1>1. Init => AInv
  BY InitAInv
<1>2. AInv /\ [Next]_vars => AInv'
  BY NextAInv
<1> QED
  BY <1>1, <1>2, PTL DEF Spec

(* Every variable keeps its type; the rings hold buffers of the pool.       *)
THEOREM TypeCorrect == Spec => []TypeOK
<1>1. AInv => TypeOK
  <2> SUFFICES ASSUME AInv PROVE TypeOK
    OBVIOUS
  <2>1. /\ manager \in Manager /\ batch \in Seq(Buffers)
        /\ manager.buffer_count \in 0 .. MaxBufferCount
        /\ io \subseteq 1 .. manager.buffer_count
    BY DEF AInv, IInv, Pool, Out
  <2>2. io \subseteq Buffers
    BY <2>1, PoolAssumption DEF Buffers
  <2> QED
    BY <2>1, <2>2 DEF AInv, RequestTypes, TypeOK
<1> QED
  BY <1>1, AnswersInvariance, PTL

(* A put answered with success is in the index, or a newer one of its key   *)
(* is, in whichever order buffers and direct writes complete.               *)
THEOREM AnsweredStaysIndexed == Spec => []AnsweredIsIndexed
<1>1. AInv => AnsweredIsIndexed
  BY DEF AInv
<1> QED
  BY <1>1, AnswersInvariance, PTL

(* No put is answered twice or lost, whichever of the three ways it takes   *)
(* through the engine.                                                      *)
THEOREM AnsweredExactlyOnce == Spec => []OneReplyEach
<1>1. AInv => OneReplyEach
  <2> SUFFICES ASSUME AInv, state \in {"ready", "polling"},
                      NEW s \in 1 .. Len(requests)
               PROVE  Cardinality(Holders(s)) + Cardinality(Waiting \cap {s})
                        + Cardinality(direct \cap {s}) + Len(replies[s]) = 1
    BY DEF OneReplyEach
  <2>1. InBuffer(s) \/ InWaitQueue(s) \/ InDirectPath(s) \/ Answered(s)
    BY DEF AInv, HeldOrAnswered
  <2>2. /\ Cardinality({}) = 0 /\ Cardinality({s}) = 1
        /\ \A b \in Buffers : Cardinality({b}) = 1
    BY FS_EmptySet, FS_Singleton
  <2>3. /\ Waiting \cap {s} = IF s \in Waiting THEN {s} ELSE {}
        /\ direct \cap {s} = IF s \in direct THEN {s} ELSE {}
    OBVIOUS
  <2>4. /\ Cardinality(Waiting \cap {s}) = IF s \in Waiting THEN 1 ELSE 0
        /\ Cardinality(direct \cap {s}) = IF s \in direct THEN 1 ELSE 0
    BY <2>2, <2>3
  <2>5. replies[s] = <<>> => Len(replies[s]) = 0
    OBVIOUS
  <2>6. CASE InBuffer(s)
    BY <2>2, <2>4, <2>5, <2>6 DEF InBuffer
  <2>7. CASE InWaitQueue(s)
    BY <2>2, <2>4, <2>5, <2>7 DEF InWaitQueue
  <2>8. CASE InDirectPath(s)
    BY <2>2, <2>4, <2>5, <2>8 DEF InDirectPath
  <2>9. CASE Answered(s)
    BY <2>2, <2>4, <2>9 DEF Answered
  <2> QED
    BY <2>1, <2>6, <2>7, <2>8, <2>9
<1> QED
  BY <1>1, AnswersInvariance, PTL
=============================================================================
