--------------------------- MODULE MemIndexProofs ---------------------------
(***************************************************************************)
(* find of MemIndex reaches every live entry, for every table that has a   *)
(* free slot, every home function and every order of upserts and removes   *)
(* (EntriesAreFound). When upserts come in the order of their sequences,   *)
(* no key keeps two entries (EveryKeyOnce), and the table implements       *)
(* IndexMap as long as it has a free slot (TableIsAMap).                   *)
(*                                                                         *)
(* No slot on the way from the home of a stored key to its entry has a psl *)
(* below its distance from that home. Upserts keep that, because psl never *)
(* decreases and an entry is stored with at least its distance. The one    *)
(* place where this is not plain is UpdateHere with the entry of another   *)
(* key in hand, which takes over a psl made for op.key: what is in hand    *)
(* then has a home that is not before the home of op.key (OnChain).        *)
(*                                                                         *)
(* Two entries of a key: an upsert of k may store its entry in a slot      *)
(* before the old one, and goes on with the entry that was there. Chain is *)
(* the distance at which an upsert comes to each slot as long as it meets  *)
(* no psl below its distance; where the two are equal it exchanges entries *)
(* and goes on two further. Up to a stored entry no psl is below the chain *)
(* and the entries to exchange are newer than the stored one (Way). So the *)
(* upsert comes to the old entry of k also after it exchanged entries, its *)
(* exchanges up to there leave every psl as it was, and what it has in     *)
(* hand when it comes there is newer and overwrites the old entry. That is *)
(* also why no entry is lost; without a free slot the upsert could come    *)
(* round to the new entry of k with one in hand that is older.             *)
(***************************************************************************)
EXTENDS MemIndex, WellFoundedInduction, FiniteSetTheorems, TLAPS

(* A table with a free slot: an upsert does not go round it.                *)
Roomy == \E i \in Slots : entries[i] = NoEntry

Holds(i, k) == entries[i] # NoEntry /\ entries[i].key = k

(* No slot before slot i on the probe of k stops find.                      *)
WayOpen(k, i) ==
  \A t \in Slots : Distance(Home[k], t) < Distance(Home[k], i)
                     => psl[t] >= Distance(Home[k], t)

(* find comes from the home of k to slot i and may stop there.              *)
Reachable(k, i) == /\ WayOpen(k, i)
                   /\ psl[i] >= Distance(Home[k], i)
                   /\ Distance(Home[k], i) <= MaxDist

StoredReachable == \A i \in Slots, k \in Keys : Holds(i, k) => Reachable(k, i)

EmptyIsZero == \A i \in Slots : entries[i] = NoEntry => psl[i] = 0

(* The entry of g in hand could be stored in slot i, with d or more.        *)
HandFits(g, i, d) == WayOpen(g, i) /\ d >= Distance(Home[g], i)

(* The entry of k itself is in hand: it has gone by slots of other keys.    *)
OnFirst(k, i, d) ==
  /\ d = Distance(Home[k], i)
  /\ \A t \in Slots : Distance(Home[k], t) < Distance(Home[k], i)
                        => entries[t] # NoEntry /\ ~Holds(t, k)

(* The entry of k was stored in slot j with its bare distance, and the      *)
(* displaced entry of g has come to slot i by slots of other keys.          *)
OnChain(j, k, g, i) ==
  /\ i # j
  /\ psl[j] = Distance(Home[k], j)
  /\ \A t \in Slots : Distance(j, t) < Distance(j, i) => entries[t] # NoEntry
  /\ \A t \in Slots :
       /\ t # j
       /\ Distance(Home[k], t) < Distance(Home[k], j) \/ Distance(j, t) < Distance(j, i)
       => ~Holds(t, k)
  /\ Distance(Home[k], i) > Distance(Home[k], j)
       => Distance(Home[g], i) <= Distance(Home[k], i)

ProbeInv(k, g, i, d) ==
  /\ HandFits(g, i, d)
  /\ g = k => OnFirst(k, i, d)
  /\ g # k => \E j \in Slots : OnChain(j, k, g, i)

UpsertInv == op # NoOp => ProbeInv(op.key, op.hand.key, op.idx, op.dist)

IInv == TypeOK /\ StoredReachable /\ EmptyIsZero /\ UpsertInv

-----------------------------------------------------------------------------
(* Slots and distances *)

(* The next slot is one further from any home, or is the home.              *)
LEMMA NextSlotFurther ==
  ASSUME NEW h \in Slots, NEW i \in Slots
  PROVE  /\ NextSlot(i) \in Slots
         /\ \/ Distance(h, NextSlot(i)) = Distance(h, i) + 1
            \/ NextSlot(i) = h /\ Distance(h, NextSlot(i)) = 0
  BY TableAssumption DEF Slots, NextSlot, Distance

(* Distances are less than the capacity, and different slots have different *)
(* distances.                                                               *)
LEMMA DistanceRange ==
  ASSUME NEW h \in Slots, NEW i \in Slots
  PROVE  /\ Distance(h, i) \in 0 .. Capacity - 1
         /\ Distance(h, i) \in Nat
         /\ Distance(h, h) = 0
         /\ \A j \in Slots : Distance(h, j) = Distance(h, i) => j = i
  BY TableAssumption DEF Slots, Distance

(* The d-th slot of a probe is at distance d.                               *)
LEMMA SlotAtDistance ==
  ASSUME NEW h \in Slots, NEW d \in 0 .. Capacity - 1
  PROVE  /\ SlotAt(h, d) \in Slots
         /\ Distance(h, SlotAt(h, d)) = d
  BY TableAssumption DEF Slots, SlotAt, Distance

(* The slots before the next slot are the ones before this one and itself.  *)
LEMMA BeforeNext ==
  ASSUME NEW h \in Slots, NEW i \in Slots, NEW t \in Slots,
         Distance(h, t) < Distance(h, NextSlot(i))
  PROVE  Distance(h, t) < Distance(h, i) \/ t = i
  BY TableAssumption DEF Slots, NextSlot, Distance

(* When the next slot is the home, every slot has been visited.             *)
LEMMA FullLap ==
  ASSUME NEW h \in Slots, NEW i \in Slots, NextSlot(i) = h, NEW t \in Slots
  PROVE  Distance(h, t) < Distance(h, i) \/ t = i
  BY TableAssumption DEF Slots, NextSlot, Distance

(* A home g before the home h sees the slots after h at larger distances.   *)
LEMMA EarlierHome ==
  ASSUME NEW h \in Slots, NEW g \in Slots, NEW j \in Slots, NEW m \in Slots,
         Distance(h, j) < Distance(h, m), Distance(h, m) < Distance(g, m)
  PROVE  Distance(h, j) < Distance(g, j) /\ Distance(g, j) < Distance(g, m)
  BY TableAssumption DEF Slots, Distance

LEMMA HomeIsSlot == \A k \in Keys : Home[k] \in Slots
  BY TableAssumption

(* A probe that goes by slot i, whose psl is large enough, finds the way to *)
(* the next slot open.                                                      *)
LEMMA WayGoesOn ==
  ASSUME NEW k \in Keys, NEW i \in Slots,
         WayOpen(k, i), psl[i] >= Distance(Home[k], i)
  PROVE  WayOpen(k, NextSlot(i))
  BY HomeIsSlot, BeforeNext DEF WayOpen

(* When find succeeds there is a first probe that hits.                     *)
LEMMA FoundSlot ==
  ASSUME NEW k \in Keys, Found(k)
  PROVE  FindSlot(k) \in Slots /\ IsLive(FindSlot(k), k)
  <1>1. Hits(k) \subseteq Nat /\ Hits(k) # {}
    BY TableAssumption DEF Found, Hits, Probes
  <1>2. PICK m \in Hits(k) : \A c \in Hits(k) : <<c, m>> \notin OpToRel(<, Nat)
    BY <1>1, WFMin, NatLessThanWellFounded, Zenon
  <1>3. \A c \in Hits(k) : m <= c
    <2>1. \A c \in Hits(k) : ~(c < m)
      BY <1>1, <1>2, Zenon DEF OpToRel
    <2>2. m \in Nat
      BY <1>1, <1>2, Zenon
    <2> QED
      BY <1>1, <2>1, <2>2
  <1> DEFINE d == CHOOSE d \in Hits(k) : \A c \in Hits(k) : d <= c
  <1>4. d \in Hits(k)
    BY <1>2, <1>3
  <1> HIDE DEF d
  <1>5. d \in 0 .. Capacity - 1 /\ IsLive(SlotAt(Home[k], d), k)
    BY <1>4, TableAssumption DEF Hits, Probes
  <1>6. SlotAt(Home[k], d) \in Slots
    BY <1>5, SlotAtDistance, HomeIsSlot
  <1> QED
    BY <1>5, <1>6 DEF FindSlot, d

-----------------------------------------------------------------------------
(* Type correctness *)

LEMMA NumberType ==
  ASSUME NEW n \in Nat
  PROVE  Number(n) \in 0 .. Modulus - 1
  BY SequenceAssumption DEF Number

(* The parts of an upsert that is running.                                  *)
LEMMA OpType ==
  ASSUME TypeOK, op # NoOp
  PROVE  /\ op \in Op
         /\ op.key \in Keys
         /\ op.idx \in Slots
         /\ op.hand \in Entry
         /\ op.hand.key \in Keys
         /\ op.dist \in 0 .. MaxDist
         /\ psl[op.idx] \in 0 .. MaxDist + 1
         /\ NextSlot(op.idx) \in Slots
  BY HomeIsSlot, NextSlotFurther DEF TypeOK, Op, Entry

(* What Advance makes of the locals, by its two outcomes.                   *)
LEMMA AdvanceType ==
  ASSUME TypeOK, op # NoOp, NEW e \in Entry, NEW d \in Nat, Advance(e, d)
  PROVE  /\ ok' \in BOOLEAN
         /\ \/ op' = NoOp
            \/ op' = [key |-> op.key, hand |-> e, idx |-> NextSlot(op.idx), dist |-> d]
         /\ op' \in Op \cup {NoOp}
  <1>1. CASE op' = NoOp /\ ok' = FALSE
    BY <1>1
  <1>2. CASE /\ d <= MaxDist
             /\ op' = [op EXCEPT !.hand = e, !.idx = NextSlot(op.idx), !.dist = d]
             /\ UNCHANGED ok
    <2>1. op' = [key |-> op.key, hand |-> e, idx |-> NextSlot(op.idx), dist |-> d]
      BY <1>2, OpType DEF Op
    <2>2. d \in 0 .. MaxDist
      BY <1>2, TableAssumption
    <2> QED
      BY <1>2, <2>1, <2>2, OpType DEF Op, TypeOK
  <1> QED
    BY <1>1, <1>2 DEF Advance

LEMMA TypeInit == Init => TypeOK
  BY TableAssumption, SequenceAssumption DEF Init, TypeOK, Slots

LEMMA TypeNext == TypeOK /\ [Next]_vars => TypeOK'
  <1> SUFFICES ASSUME TypeOK, [Next]_vars PROVE TypeOK'
    OBVIOUS
  <1>1. CASE AllocateSequence
    <2>1. global_sequence' \in 0 .. MaxSequence
      BY <1>1, SequenceAssumption DEF AllocateSequence, TypeOK
    <2>2. pending' \subseteq 0 .. Modulus - 1
      <3>1. Number(global_sequence) \in 0 .. Modulus - 1
        BY NumberType, SequenceAssumption DEF TypeOK
      <3> QED
        BY <1>1, <3>1 DEF AllocateSequence, TypeOK
    <2> QED
      BY <1>1, <2>1, <2>2 DEF AllocateSequence, TypeOK
  <1>2. ASSUME NEW k \in Keys, NEW s \in pending, BeginUpsert(k, s)
        PROVE  TypeOK'
    <2>1. [key |-> k, seq |-> s, deleted |-> FALSE] \in Entry
      BY DEF TypeOK, Entry
    <2>2. op' \in Op
      BY <1>2, <2>1, HomeIsSlot, TableAssumption DEF BeginUpsert, Op
    <2> QED
      BY <1>2, <2>2 DEF BeginUpsert, TypeOK
  <1>3. ASSUME NEW k \in Keys, Remove(k)
        PROVE  TypeOK'
    <2>1. \A i \in Slots : entries[i] # NoEntry =>
                             [entries[i] EXCEPT !.deleted = TRUE] \in Entry
      BY DEF TypeOK, Entry
    <2>2. FindSlot(k) \in Slots /\ entries[FindSlot(k)] # NoEntry
      BY <1>3, FoundSlot DEF Remove, IsLive
    <2>3. entries' \in [Slots -> Entry \cup {NoEntry}]
      BY <1>3, <2>1, <2>2 DEF Remove, TypeOK
    <2> QED
      BY <1>3, <2>3 DEF Remove, TypeOK
  <1>4. CASE InsertHere
    <2>1. op.dist + 1 \in 0 .. MaxDist + 1
      BY <1>4, OpType, TableAssumption DEF InsertHere
    <2> QED
      BY <1>4, <2>1, OpType DEF InsertHere, TypeOK
  <1>5. CASE UpdateHere
    BY <1>5, OpType DEF UpdateHere, TypeOK
  <1>6. CASE Displace
    <2>1. op # NoOp /\ entries[op.idx] \in Entry /\ psl[op.idx] + 2 \in Nat
      BY <1>6, OpType DEF Displace, Elsewhere, TypeOK
    <2>2. op' \in Op \cup {NoOp} /\ ok' \in BOOLEAN
      BY <1>6, <2>1, AdvanceType DEF Displace
    <2>3. op.dist \in 0 .. MaxDist + 1
      BY <2>1, OpType, TableAssumption
    <2> QED
      BY <1>6, <2>1, <2>2, <2>3, OpType DEF Displace, TypeOK
  <1>7. CASE PassBy
    <2>1. op # NoOp /\ op.hand \in Entry /\ op.dist + 1 \in Nat
      BY <1>7, OpType DEF PassBy, Elsewhere
    <2>2. op' \in Op \cup {NoOp} /\ ok' \in BOOLEAN
      BY <1>7, <2>1, AdvanceType DEF PassBy
    <2> QED
      BY <1>7, <2>2 DEF PassBy, TypeOK
  <1>8. CASE UNCHANGED vars
    BY <1>8 DEF vars, TypeOK
  <1> QED
    BY <1>1, <1>2, <1>3, <1>4, <1>5, <1>6, <1>7, <1>8 DEF Next, Calls, Probe

(* The variables keep their types; the psl of a slot stays in a byte.       *)
THEOREM TypeCorrect == Spec => []TypeOK
  <1> QED
    BY TypeInit, TypeNext, PTL DEF Spec

-----------------------------------------------------------------------------
(* A live entry of a table that satisfies the invariant is found *)

LEMMA ReachableIsFound ==
  ASSUME TypeOK, StoredReachable
  PROVE  EveryLiveEntryIsFound
  <1>1. SUFFICES ASSUME NEW i \in Slots, entries[i] # NoEntry,
                        ~entries[i].deleted
                 PROVE  Found(entries[i].key)
    BY DEF EveryLiveEntryIsFound
  <1>2. PICK k \in Keys : k = entries[i].key
    BY <1>1 DEF TypeOK, Entry
  <1> DEFINE d == Distance(Home[k], i)
  <1>3. Home[k] \in Slots
    BY HomeIsSlot
  <1>4. WayOpen(k, i) /\ psl[i] >= d /\ d <= MaxDist
    BY <1>1, <1>2 DEF StoredReachable, Reachable, Holds
  <1>5. d \in 0 .. Capacity - 1 /\ d \in Nat
    BY <1>3, DistanceRange
  <1>6. SlotAt(Home[k], d) = i
    BY <1>3, <1>5, SlotAtDistance, DistanceRange
  <1>7. d \in Probes /\ IsLive(SlotAt(Home[k], d), k)
    BY <1>1, <1>2, <1>4, <1>5, <1>6, TableAssumption DEF Probes, IsLive
  <1>8. ASSUME NEW j \in 0 .. d
        PROVE  psl[SlotAt(Home[k], j)] >= j
    <2>1. j \in 0 .. Capacity - 1
      BY <1>5, TableAssumption
    <2>2. SlotAt(Home[k], j) \in Slots /\ Distance(Home[k], SlotAt(Home[k], j)) = j
      BY <1>3, <2>1, SlotAtDistance
    <2>3. CASE j = d
      BY <1>4, <1>6, <2>3
    <2>4. CASE j < d
      BY <1>4, <2>2, <2>4 DEF WayOpen
    <2> QED
      BY <1>5, <2>3, <2>4
  <1>9. d \in Hits(k)
    BY <1>7, <1>8 DEF Hits
  <1> QED
    BY <1>2, <1>9 DEF Found

-----------------------------------------------------------------------------
(* How the table changes *)

(* psl only grows, so what was reachable stays so.                          *)
LEMMA WayStaysOpen ==
  ASSUME TypeOK, TypeOK', \A t \in Slots : psl'[t] >= psl[t],
         NEW k \in Keys, NEW i \in Slots
  PROVE  /\ WayOpen(k, i) => WayOpen(k, i)'
         /\ Reachable(k, i) => Reachable(k, i)'
  <1>1. \A t \in Slots : /\ psl[t] \in Int
                         /\ psl'[t] \in Int
                         /\ Distance(Home[k], t) \in Int
    BY DistanceRange, HomeIsSlot, TableAssumption DEF TypeOK
  <1> QED
    BY <1>1 DEF WayOpen, Reachable

(* The entry in hand is stored in slot op.idx, whose psl becomes p.         *)
LEMMA StoreHand ==
  ASSUME IInv, TypeOK', op # NoOp, NEW p \in 0 .. MaxDist + 1,
         p >= psl[op.idx], p >= Distance(Home[op.hand.key], op.idx),
         entries' = [entries EXCEPT ![op.idx] = op.hand],
         psl' = [psl EXCEPT ![op.idx] = p]
  PROVE  /\ StoredReachable'
         /\ EmptyIsZero'
         /\ \A t \in Slots : psl'[t] >= psl[t]
  <1>1. /\ TypeOK
        /\ op.idx \in Slots
        /\ op.hand \in Entry
        /\ op.dist \in 0 .. MaxDist
    BY OpType DEF IInv
  <1>2. PICK g \in Keys : g = op.hand.key
    BY <1>1 DEF Entry
  <1>3. \A t \in Slots : psl'[t] >= psl[t]
    BY <1>1, TableAssumption DEF TypeOK
  <1>4. ASSUME NEW i \in Slots, NEW k \in Keys, Holds(i, k)'
        PROVE  Reachable(k, i)'
    <2>1. CASE i = op.idx
      <3>1. k = g
        BY <1>1, <1>2, <1>4, <2>1 DEF Holds, TypeOK
      <3>2. WayOpen(k, i) /\ op.dist >= Distance(Home[k], i)
        BY <1>2, <2>1, <3>1 DEF IInv, UpsertInv, ProbeInv, HandFits
      <3>3. WayOpen(k, i)'
        BY <1>1, <1>3, <3>2, WayStaysOpen
      <3>4. psl'[i] = p
        BY <1>1, <2>1 DEF TypeOK
      <3>5. Distance(Home[k], i) <= MaxDist
        BY <1>1, <3>2, HomeIsSlot, DistanceRange, TableAssumption
      <3> QED
        BY <1>2, <2>1, <3>1, <3>3, <3>4, <3>5 DEF Reachable
    <2>2. CASE i # op.idx
      <3>1. Holds(i, k)
        BY <1>1, <1>4, <2>2 DEF Holds, TypeOK
      <3>2. Reachable(k, i)
        BY <3>1 DEF IInv, StoredReachable
      <3> QED
        BY <1>1, <1>3, <3>2, WayStaysOpen
    <2> QED
      BY <2>1, <2>2
  <1>5. EmptyIsZero'
    BY <1>1, NullAssumption DEF IInv, EmptyIsZero, TypeOK
  <1> QED
    BY <1>3, <1>4, <1>5 DEF StoredReachable

(* The table is left alone.                                                 *)
LEMMA TableKept ==
  ASSUME IInv, UNCHANGED <<entries, psl>>
  PROVE  StoredReachable' /\ EmptyIsZero'
  BY DEF IInv, StoredReachable, Reachable, Holds, WayOpen, EmptyIsZero

-----------------------------------------------------------------------------
(* How a probe goes on *)

(* The hand of an upsert that has gone by every slot has seen no free one.  *)
LEMMA NoFullLap ==
  ASSUME Roomy, NEW h \in Slots, NEW i \in Slots, entries[i] # NoEntry,
         \A t \in Slots : Distance(h, t) < Distance(h, i) => entries[t] # NoEntry
  PROVE  NextSlot(i) # h /\ Distance(h, NextSlot(i)) = Distance(h, i) + 1
  <1>1. NextSlot(i) # h
    BY FullLap DEF Roomy
  <1> QED
    BY <1>1, NextSlotFurther

(* A slot one further from a home is at most one further from another.      *)
LEMMA OneFurther ==
  ASSUME NEW h \in Slots, NEW i \in Slots
  PROVE  /\ Distance(h, NextSlot(i)) <= Distance(h, i) + 1
         /\ Distance(h, NextSlot(i)) > 0
              => Distance(h, NextSlot(i)) = Distance(h, i) + 1
  BY NextSlotFurther, DistanceRange

(* PassBy keeps what the probe knows.                                       *)
LEMMA PassByKeeps ==
  ASSUME TypeOK, Roomy, NEW k \in Keys, NEW g \in Keys, NEW i \in Slots,
         NEW d \in Nat, ProbeInv(k, g, i, d), entries[i] # NoEntry,
         ~Holds(i, k), psl[i] >= d + 1
  PROVE  ProbeInv(k, g, NextSlot(i), d + 1)
  <1> DEFINE h == Home[k]
             n == NextSlot(i)
  <1>1. h \in Slots /\ Home[g] \in Slots /\ n \in Slots
    BY HomeIsSlot, NextSlotFurther
  <1>2. WayOpen(g, i) /\ d >= Distance(Home[g], i)
    BY DEF ProbeInv, HandFits
  <1>3. HandFits(g, n, d + 1)
    <2>1. psl[i] \in Int /\ Distance(Home[g], i) \in Nat
      BY <1>1, DistanceRange, TableAssumption DEF TypeOK
    <2>2. WayOpen(g, n)
      BY <1>2, <2>1, WayGoesOn
    <2>3. Distance(Home[g], n) \in Nat /\ Distance(Home[g], n) <= Distance(Home[g], i) + 1
      BY <1>1, OneFurther, DistanceRange
    <2> QED
      BY <1>2, <2>1, <2>2, <2>3 DEF HandFits
  <1>4. ASSUME g = k PROVE OnFirst(k, n, d + 1)
    <2>1. OnFirst(k, i, d)
      BY <1>4 DEF ProbeInv
    <2>2. Distance(h, n) = Distance(h, i) + 1
      BY <1>1, <2>1, NoFullLap DEF OnFirst
    <2> QED
      BY <1>1, <2>1, <2>2, BeforeNext DEF OnFirst
  <1>5. ASSUME g # k PROVE \E j \in Slots : OnChain(j, k, g, n)
    <2>1. PICK j \in Slots : OnChain(j, k, g, i)
      BY <1>5 DEF ProbeInv
    <2>2. n # j /\ Distance(j, n) = Distance(j, i) + 1
      BY <2>1, NoFullLap DEF OnChain
    <2>3. \A t \in Slots : Distance(j, t) < Distance(j, n)
                             => Distance(j, t) < Distance(j, i) \/ t = i
      BY BeforeNext
    <2>4. ASSUME Distance(h, n) > Distance(h, j)
          PROVE  Distance(Home[g], n) <= Distance(h, n)
      <3>1. /\ Distance(h, n) \in Nat /\ Distance(h, j) \in Nat
            /\ Distance(h, i) \in Nat /\ Distance(Home[g], i) \in Nat
            /\ Distance(Home[g], n) \in Nat
            /\ Distance(h, i) # Distance(h, j)
        BY <1>1, <2>1, DistanceRange DEF OnChain
      <3>2. Distance(h, n) = Distance(h, i) + 1
        BY <1>1, <2>4, <3>1, OneFurther
      <3>3. Distance(Home[g], i) <= Distance(h, i)
        BY <2>1, <2>4, <3>1, <3>2 DEF OnChain
      <3>4. Distance(Home[g], n) <= Distance(Home[g], i) + 1
        BY <1>1, OneFurther
      <3> QED
        BY <3>1, <3>2, <3>3, <3>4
    <2>5. OnChain(j, k, g, n)
      BY <2>1, <2>2, <2>3, <2>4 DEF OnChain
    <2> QED
      BY <2>5
  <1> QED
    BY <1>3, <1>4, <1>5 DEF ProbeInv

(* Displace leaves the entry of k in slot i or j, and goes on with that of f*)
LEMMA DisplaceKeeps ==
  ASSUME IInv, TypeOK', Roomy, NEW k \in Keys, NEW g \in Keys, NEW f \in Keys,
         NEW i \in Slots, NEW n \in Slots, NEW d \in Nat, NEW c \in Nat,
         n = NextSlot(i), c = psl[i] + 2,
         ProbeInv(k, g, i, d), Holds(i, f), f # k, psl[i] < d + 1, Holds(i, g)',
         \A t \in Slots : t # i => entries'[t] = entries[t] /\ psl'[t] = psl[t],
         psl'[i] = d
  PROVE  ProbeInv(k, f, n, c)'
  <1> DEFINE h == Home[k]
  <1>1. /\ TypeOK /\ h \in Slots /\ Home[g] \in Slots /\ Home[f] \in Slots
        /\ psl[i] \in Nat /\ Distance(Home[f], i) \in Nat
        /\ Distance(Home[f], n) \in Nat
        /\ Distance(Home[f], n) <= Distance(Home[f], i) + 1
    BY HomeIsSlot, OneFurther, DistanceRange, TableAssumption DEF IInv, TypeOK
  <1>2. WayOpen(f, i) /\ psl[i] >= Distance(Home[f], i)
    BY DEF IInv, StoredReachable, Reachable
  <1>3. \A t \in Slots : psl'[t] >= psl[t]
    <2>1. \A t \in Slots : psl[t] \in Int
      BY <1>1, TableAssumption DEF TypeOK
    <2> QED
      BY <2>1
  <1>4. HandFits(f, n, c)'
    <2>1. WayOpen(f, n)'
      BY <1>1, <1>2, <1>3, WayGoesOn, WayStaysOpen
    <2> QED
      BY <1>1, <1>2, <2>1 DEF HandFits
  <1>5. entries[i] # NoEntry /\ entries'[i] # NoEntry
    BY DEF Holds
  <1>6. ASSUME g = k PROVE OnChain(i, k, f, n)'
    <2>1. OnFirst(k, i, d)
      BY <1>6 DEF ProbeInv
    <2>2. Distance(i, i) = 0 /\ \A t \in Slots : Distance(i, t) \in Nat
      BY DistanceRange
    <2>3. n # i /\ Distance(i, n) = 1
      BY <1>5, <2>1, <2>2, <1>1, NoFullLap DEF OnFirst
    <2>4. \A t \in Slots : Distance(i, t) < Distance(i, n) => t = i
      BY <2>2, <2>3, DistanceRange
    <2>5. ASSUME Distance(h, n) > Distance(h, i)
          PROVE  Distance(Home[f], n) <= Distance(h, n)
      <3>1. Distance(h, n) \in Nat /\ Distance(h, i) \in Nat
        BY <1>1, DistanceRange
      <3>2. Distance(h, n) = d + 1
        BY <1>1, <2>1, <2>5, <3>1, OneFurther DEF OnFirst
      <3> QED
        BY <1>1, <1>2, <3>2
    <2>6. \A t \in Slots : t # i /\ Distance(h, t) < Distance(h, i) => ~Holds(t, k)'
      BY <2>1 DEF OnFirst, Holds
    <2>7. psl'[i] = Distance(h, i)
      BY <2>1 DEF OnFirst
    <2> QED
      BY <1>5, <2>3, <2>4, <2>5, <2>6, <2>7 DEF OnChain
  <1>7. ASSUME g # k PROVE \E j \in Slots : OnChain(j, k, f, n)'
    <2>1. PICK j \in Slots : OnChain(j, k, g, i)
      BY <1>7 DEF ProbeInv
    <2>2. n # j /\ Distance(j, n) = Distance(j, i) + 1
      BY <1>5, <2>1, NoFullLap DEF OnChain
    <2>3. \A t \in Slots : Distance(j, t) < Distance(j, n)
                             => Distance(j, t) < Distance(j, i) \/ t = i
      BY BeforeNext
    <2>4. ASSUME Distance(h, n) > Distance(h, j)
          PROVE  Distance(Home[f], n) <= Distance(h, n)
      <3>1. /\ Distance(h, n) \in Nat /\ Distance(h, j) \in Nat
            /\ Distance(h, i) \in Nat /\ Distance(Home[f], j) \in Nat
            /\ Distance(h, i) # Distance(h, j)
        BY <1>1, <2>1, DistanceRange DEF OnChain
      <3>2. Distance(h, n) = Distance(h, i) + 1
        BY <1>1, <2>4, <3>1, OneFurther
      <3>3. Distance(Home[f], i) <= Distance(h, i)
        <4>1. SUFFICES ASSUME Distance(h, i) < Distance(Home[f], i) PROVE FALSE
          BY <1>1, <3>1
        <4>2. Distance(h, j) < Distance(h, i)
          BY <2>4, <3>1, <3>2
        <4>3. /\ Distance(h, j) < Distance(Home[f], j)
              /\ Distance(Home[f], j) < Distance(Home[f], i)
          BY <1>1, <4>1, <4>2, EarlierHome
        <4>4. psl[j] >= Distance(Home[f], j)
          BY <1>2, <4>3 DEF WayOpen
        <4> QED
          BY <2>1, <3>1, <4>3, <4>4 DEF OnChain
      <3> QED
        BY <1>1, <3>1, <3>2, <3>3
    <2>5. psl'[j] = Distance(h, j)
      BY <2>1 DEF OnChain
    <2>6. \A t \in Slots : Distance(j, t) < Distance(j, n) => entries'[t] # NoEntry
      BY <1>5, <2>1, <2>3 DEF OnChain
    <2>7. ~Holds(i, k)'
      BY <1>7 DEF Holds
    <2>8. \A t \in Slots :
            /\ t # j
            /\ Distance(h, t) < Distance(h, j) \/ Distance(j, t) < Distance(j, n)
            => ~Holds(t, k)'
      <3>1. \A t \in Slots : t # i => (Holds(t, k)' <=> Holds(t, k))
        BY DEF Holds
      <3> QED
        BY <2>1, <2>3, <2>7, <3>1 DEF OnChain
    <2>9. OnChain(j, k, f, n)'
      BY <2>2, <2>4, <2>5, <2>6, <2>8 DEF OnChain
    <2> QED
      BY <2>9
  <1>8. f # k => \E j \in Slots : OnChain(j, k, f, n)'
    BY <1>6, <1>7
  <1> QED
    BY <1>4, <1>8 DEF ProbeInv

(* The psl of the slot UpdateHere writes is enough for what is in hand.     *)
LEMMA UpdateFits ==
  ASSUME IInv, NEW k \in Keys, NEW g \in Keys, NEW i \in Slots, NEW d \in Nat,
         ProbeInv(k, g, i, d), Holds(i, k)
  PROVE  psl[i] >= Distance(Home[g], i)
  <1> DEFINE h == Home[k]
  <1>1. psl[i] >= Distance(h, i)
    BY DEF IInv, StoredReachable, Reachable
  <1>2. ASSUME g # k PROVE Distance(Home[g], i) <= Distance(h, i)
    <2>1. PICK j \in Slots : OnChain(j, k, g, i)
      BY <1>2 DEF ProbeInv
    <2>2. /\ Distance(h, i) \in Nat /\ Distance(h, j) \in Nat
          /\ Distance(h, i) # Distance(h, j)
      BY <2>1, HomeIsSlot, DistanceRange DEF OnChain
    <2>3. ~(Distance(h, i) < Distance(h, j))
      BY <2>1 DEF OnChain
    <2> QED
      BY <2>1, <2>2, <2>3 DEF OnChain
  <1>3. /\ psl[i] \in Int /\ Distance(h, i) \in Int /\ Distance(Home[g], i) \in Int
    BY HomeIsSlot, DistanceRange, TableAssumption DEF IInv, TypeOK
  <1> QED
    BY <1>1, <1>2, <1>3

-----------------------------------------------------------------------------
(* The invariant is inductive *)

(* The locals of an upsert that goes on, and what they satisfy.             *)
LEMMA ProbeGoesOn ==
  ASSUME NEW k \in Keys, NEW e \in Entry, NEW g, g = e.key, NEW n \in Slots,
         NEW d \in Nat,
         op' = NoOp \/ op' = [key |-> k, hand |-> e, idx |-> n, dist |-> d],
         ProbeInv(k, g, n, d)'
  PROVE  UpsertInv'
  BY DEF UpsertInv

LEMMA InvInit == Init => IInv
  <1> SUFFICES ASSUME Init PROVE IInv
    OBVIOUS
  <1>1. TypeOK
    BY TypeInit
  <1>2. StoredReachable /\ EmptyIsZero
    BY DEF Init, StoredReachable, Holds, EmptyIsZero
  <1>3. UpsertInv
    BY DEF Init, UpsertInv
  <1> QED
    BY <1>1, <1>2, <1>3 DEF IInv

(* The actions outside the loop of upsert.                                  *)
LEMMA CallsKeep ==
  ASSUME IInv, TypeOK', AllocateSequence \/ Calls
  PROVE  IInv'
  <1>1. ASSUME AllocateSequence PROVE IInv'
    <2>1. StoredReachable' /\ EmptyIsZero' /\ UpsertInv'
      BY <1>1, TableKept DEF AllocateSequence, UpsertInv
    <2> QED
      BY <2>1 DEF IInv
  <1>2. ASSUME NEW k \in Keys, NEW s \in pending, BeginUpsert(k, s)
        PROVE  IInv'
    <2>1. StoredReachable' /\ EmptyIsZero'
      BY <1>2, TableKept DEF BeginUpsert
    <2>2. PICK i \in Slots : i = Home[k]
      BY HomeIsSlot
    <2>3. Distance(Home[k], i) = 0 /\ \A t \in Slots : Distance(Home[k], t) \in Nat
      BY <2>2, DistanceRange
    <2>4. ProbeInv(k, k, i, 0)'
      BY <2>3 DEF ProbeInv, HandFits, WayOpen, OnFirst
    <2>5. [key |-> k, seq |-> s, deleted |-> FALSE] \in Entry
      BY DEF IInv, TypeOK, Entry
    <2>6. UpsertInv'
      BY <1>2, <2>2, <2>4, <2>5, ProbeGoesOn DEF BeginUpsert
    <2> QED
      BY <2>1, <2>6 DEF IInv
  <1>3. ASSUME NEW k \in Keys, Remove(k)
        PROVE  IInv'
    <2>1. PICK m \in Slots : m = FindSlot(k) /\ entries[m] # NoEntry
      BY <1>3, FoundSlot DEF Remove, IsLive
    <2>2. entries' = [entries EXCEPT ![m].deleted = TRUE] /\ UNCHANGED <<psl, op>>
      BY <1>3, <2>1 DEF Remove
    <2>3. ASSUME NEW i \in Slots
          PROVE  /\ entries'[i] = NoEntry => entries[i] = NoEntry
                 /\ \A c \in Keys : Holds(i, c)' => Holds(i, c)
      <3>1. CASE i # m
        BY <2>2, <3>1 DEF Holds, IInv, TypeOK
      <3>2. CASE i = m
        <4>1. entries[m] \in Entry /\ entries[m] # NoEntry
          BY <2>1 DEF IInv, TypeOK
        <4>2. entries'[m] = [entries[m] EXCEPT !.deleted = TRUE]
          BY <2>2 DEF IInv, TypeOK
        <4>3. entries'[m].key = entries[m].key /\ entries'[m] \in Entry
          BY <4>1, <4>2 DEF Entry
        <4> QED
          BY <3>2, <4>1, <4>3, NullAssumption DEF Holds
      <3> QED
        BY <3>1, <3>2
    <2>4. StoredReachable' /\ EmptyIsZero'
      BY <2>2, <2>3 DEF IInv, StoredReachable, Reachable, WayOpen, EmptyIsZero
    <2>5. UpsertInv'
      BY <1>3, <2>2 DEF Remove, UpsertInv
    <2> QED
      BY <2>4, <2>5 DEF IInv
  <1> QED
    BY <1>1, <1>2, <1>3 DEF Calls

(* The iterations of upsert that end it.                                    *)
LEMMA StoreKeeps ==
  ASSUME IInv, TypeOK', InsertHere \/ UpdateHere
  PROVE  IInv'
  <1>1. op # NoOp /\ op' = NoOp
    BY DEF InsertHere, UpdateHere
  <1>2. PICK k \in Keys, g \in Keys, i \in Slots, d \in Nat :
          /\ k = op.key /\ g = op.hand.key /\ i = op.idx /\ d = op.dist
          /\ d <= MaxDist
    BY <1>1, OpType, TableAssumption DEF IInv
  <1>3. ProbeInv(k, g, i, d)
    BY <1>1, <1>2 DEF IInv, UpsertInv
  <1>4. psl[i] \in 0 .. MaxDist + 1
    BY DEF IInv, TypeOK
  <1>5. CASE InsertHere
    <2>1. psl[i] = 0
      BY <1>2, <1>5 DEF InsertHere, IInv, EmptyIsZero
    <2>2. d >= Distance(Home[g], i) /\ Distance(Home[g], i) \in Nat
      BY <1>3, HomeIsSlot, DistanceRange DEF ProbeInv, HandFits
    <2>3. PICK p \in 0 .. MaxDist + 1 : p = d + 1
      BY <1>2, TableAssumption
    <2>4. p >= psl[op.idx] /\ p >= Distance(Home[op.hand.key], op.idx)
      BY <1>2, <2>1, <2>2, <2>3
    <2>5. /\ entries' = [entries EXCEPT ![op.idx] = op.hand]
          /\ psl' = [psl EXCEPT ![op.idx] = p]
      BY <1>2, <1>5, <2>3 DEF InsertHere
    <2>6. StoredReachable' /\ EmptyIsZero'
      BY <1>1, <2>4, <2>5, StoreHand
    <2> QED
      BY <1>1, <2>6 DEF IInv, UpsertInv
  <1>6. CASE UpdateHere
    <2>1. psl[i] >= Distance(Home[g], i)
      BY <1>2, <1>3, <1>6, UpdateFits DEF UpdateHere, SameKey, Holds
    <2>2. CASE UNCHANGED entries
      <3>1. StoredReachable' /\ EmptyIsZero'
        BY <1>6, <2>2, TableKept DEF UpdateHere
      <3> QED
        BY <1>1, <3>1 DEF IInv, UpsertInv
    <2>3. CASE entries' = [entries EXCEPT ![op.idx] = op.hand]
      <3>1. psl' = [psl EXCEPT ![op.idx] = psl[i]]
        BY <1>2, <1>6 DEF UpdateHere, IInv, TypeOK
      <3>2. psl[i] >= psl[op.idx]
        BY <1>2, <1>4, TableAssumption
      <3>3. StoredReachable' /\ EmptyIsZero'
        BY <1>1, <1>2, <1>4, <2>1, <2>3, <3>1, <3>2, StoreHand
      <3> QED
        BY <1>1, <3>3 DEF IInv, UpsertInv
    <2> QED
      BY <1>6, <2>2, <2>3 DEF UpdateHere
  <1> QED
    BY <1>5, <1>6

(* The iterations of upsert that go on to the next slot.                    *)
LEMMA ProbeKeeps ==
  ASSUME IInv, TypeOK', Roomy, Displace \/ PassBy
  PROVE  IInv'
  <1>1. op # NoOp /\ TypeOK /\ entries[op.idx] # NoEntry /\ entries[op.idx].key # op.key
    BY DEF Displace, PassBy, Elsewhere, SameKey, IInv
  <1>2. PICK k \in Keys, g \in Keys, i \in Slots, d \in Nat, n \in Slots :
          /\ k = op.key /\ g = op.hand.key /\ i = op.idx /\ d = op.dist
          /\ n = NextSlot(i) /\ d <= MaxDist
    BY <1>1, OpType, TableAssumption
  <1>3. ProbeInv(k, g, i, d)
    BY <1>1, <1>2 DEF IInv, UpsertInv
  <1>4. ~Holds(i, k)
    BY <1>1, <1>2 DEF Holds
  <1>5. CASE PassBy
    <2>1. UNCHANGED <<entries, psl>> /\ psl[i] >= d + 1
      BY <1>2, <1>5 DEF PassBy
    <2>2. PICK c \in Nat : c = d + 1
      OBVIOUS
    <2>3. ProbeInv(k, g, n, c)
      BY <1>1, <1>2, <1>3, <1>4, <2>1, <2>2, PassByKeeps
    <2>4. ProbeInv(k, g, n, c)'
      BY <2>1, <2>3 DEF ProbeInv, HandFits, WayOpen, OnFirst, OnChain, Holds
    <2>5. PICK e \in Entry : e = op.hand
      BY <1>1, OpType
    <2>6. op' = NoOp \/ op' = [key |-> k, hand |-> e, idx |-> n, dist |-> c]
      BY <1>1, <1>2, <1>5, <2>5, <2>2, AdvanceType DEF PassBy
    <2>7. UpsertInv'
      BY <1>2, <2>4, <2>5, <2>6, ProbeGoesOn
    <2>8. StoredReachable' /\ EmptyIsZero'
      BY <2>1, TableKept
    <2> QED
      BY <2>7, <2>8 DEF IInv
  <1>6. CASE Displace
    <2>1. PICK e \in Entry : e = entries[i]
      BY <1>1, <1>2 DEF TypeOK
    <2>2. PICK f \in Keys : f = e.key
      BY DEF Entry
    <2>3. PICK c \in Nat : c = psl[i] + 2
      BY <1>1, TableAssumption DEF TypeOK
    <2>4. /\ psl[i] < d + 1
          /\ entries' = [entries EXCEPT ![i] = op.hand]
          /\ psl' = [psl EXCEPT ![i] = d]
          /\ Advance(e, c)
      BY <1>2, <1>6, <2>1, <2>3 DEF Displace
    <2>5. op.hand \in Entry /\ op.hand # NoEntry
      BY <1>1, OpType, NullAssumption
    <2>6. Holds(i, f) /\ f # k /\ Holds(i, g)'
      BY <1>1, <1>2, <2>1, <2>2, <2>4, <2>5 DEF Holds, TypeOK
    <2>7. /\ psl'[i] = d
          /\ \A t \in Slots : t # i => entries'[t] = entries[t] /\ psl'[t] = psl[t]
      BY <1>1, <2>4 DEF TypeOK
    <2>8. ProbeInv(k, f, n, c)'
      BY <1>2, <1>3, <2>3, <2>4, <2>6, <2>7, DisplaceKeeps
    <2>9. op' = NoOp \/ op' = [key |-> k, hand |-> e, idx |-> n, dist |-> c]
      BY <1>1, <1>2, <2>4, AdvanceType
    <2>10. UpsertInv'
      BY <2>2, <2>8, <2>9, ProbeGoesOn
    <2>11. StoredReachable' /\ EmptyIsZero'
      <3>1. d >= Distance(Home[op.hand.key], op.idx)
        BY <1>2, <1>3 DEF ProbeInv, HandFits
      <3>2. d \in 0 .. MaxDist + 1 /\ d >= psl[op.idx]
        BY <1>1, <1>2, <2>4, TableAssumption DEF TypeOK
      <3> QED
        BY <1>1, <1>2, <2>4, <3>1, <3>2, StoreHand
    <2> QED
      BY <2>10, <2>11 DEF IInv
  <1> QED
    BY <1>5, <1>6

LEMMA InvNext == IInv /\ Roomy /\ [Next]_vars => IInv'
  <1> SUFFICES ASSUME IInv, Roomy, [Next]_vars PROVE IInv'
    OBVIOUS
  <1>1. TypeOK'
    BY TypeNext DEF IInv
  <1>2. CASE UNCHANGED vars
    BY <1>1, <1>2, TableKept DEF vars, IInv, UpsertInv, ProbeInv, HandFits,
                                 WayOpen, OnFirst, OnChain, Holds
  <1> QED
    BY <1>1, <1>2, CallsKeep, StoreKeeps, ProbeKeeps DEF Next, Probe

LEMMA InvHolds == Spec /\ []Roomy => []IInv
  BY InvInit, InvNext, PTL DEF Spec

(* As long as the table has a free slot, every live entry between two calls *)
(* is reached by find: what upsert exchanges never hides an entry (find,    *)
(* upsert, remove of MemIndex).                                             *)
THEOREM EntriesAreFound == Spec /\ []Roomy => []EveryLiveEntryIsFound
  <1>1. IInv => EveryLiveEntryIsFound
    BY ReachableIsFound DEF IInv
  <1> QED
    BY <1>1, InvHolds, PTL

-----------------------------------------------------------------------------
(* The chain of a home: the distances of an upsert that displaces nothing. *)

(* The distance of a probe behind a slot with psl p where its distance is d *)
(* and where it stores its entry or passes by.                              *)
Bump(d, p) == IF p = d THEN d + 2 ELSE d + 1

(* c is the distance at each slot of an upsert of a key with home h, if it  *)
(* goes by the slots whose psl is greater.                                  *)
IsChain(h, p, c) ==
  /\ c \in [Slots -> Nat]
  /\ c[h] = 0
  /\ \A s \in Slots : NextSlot(s) # h => c[NextSlot(s)] = Bump(c[s], p[s])

Chain(h, p) == CHOOSE c : IsChain(h, p, c)

(* Induction over the distance, for sets.                                   *)
LEMMA EveryNatural ==
  ASSUME NEW T, 0 \in T, \A n \in Nat : n \in T => n + 1 \in T
  PROVE  \A n \in Nat : n \in T
  <1> DEFINE F == Nat \ T
  <1> SUFFICES ASSUME F # {} PROVE FALSE
    OBVIOUS
  <1>1. F \subseteq Nat
    OBVIOUS
  <1>2. \E x \in F : \A y \in F : <<y, x>> \notin OpToRel(<, Nat)
    <2> HIDE DEF F
    <2> QED
      BY <1>1, WFMin, NatLessThanWellFounded, Zenon
  <1>3. PICK m \in F : \A y \in F : <<y, m>> \notin OpToRel(<, Nat)
    BY <1>2
  <1>4. \A y \in F : ~(y < m)
    BY <1>1, <1>3, Zenon DEF OpToRel
  <1>5. m \in Nat /\ m # 0
    OBVIOUS
  <1>6. m - 1 \in Nat /\ m - 1 < m
    BY <1>5
  <1>7. m - 1 \in T
    BY <1>4, <1>6
  <1>8. (m - 1) + 1 \in T
    BY <1>6, <1>7
  <1>9. (m - 1) + 1 = m
    BY <1>5
  <1> QED
    BY <1>8, <1>9

(* A slot that is not the home has one before it.                           *)
LEMMA Predecessor ==
  ASSUME NEW h \in Slots, NEW s \in Slots, s # h
  PROVE  \E u \in Slots : NextSlot(u) = s /\ Distance(h, s) = Distance(h, u) + 1
  <1>1. CASE s = 0
    <2>1. Capacity - 1 \in Slots /\ NextSlot(Capacity - 1) = s
      BY <1>1, TableAssumption DEF Slots, NextSlot
    <2> QED
      BY <2>1, NextSlotFurther
  <1>2. CASE s # 0
    <2>1. s - 1 \in Slots /\ NextSlot(s - 1) = s
      BY <1>2, TableAssumption DEF Slots, NextSlot
    <2> QED
      BY <2>1, NextSlotFurther
  <1> QED
    BY <1>1, <1>2

(* Two slots with the same successor are the same.                          *)
LEMMA NextInjective ==
  ASSUME NEW s \in Slots, NEW u \in Slots, NextSlot(s) = NextSlot(u)
  PROVE  s = u
  BY TableAssumption DEF Slots, NextSlot

LEMMA ChainExists ==
  ASSUME NEW h \in Slots, NEW p \in [Slots -> Nat]
  PROVE  IsChain(h, p, Chain(h, p))
  <1> DEFINE Part(n) ==
        { c \in [Slots -> Nat] :
            /\ c[h] = 0
            /\ \A s \in Slots : Distance(h, s) < n /\ NextSlot(s) # h
                                  => c[NextSlot(s)] = Bump(c[s], p[s]) }
             T == { n \in Nat : Part(n) # {} }
  <1>1. 0 \in T
    <2>1. [s \in Slots |-> 0] \in Part(0)
      BY DistanceRange
    <2> QED
      BY <2>1
  <1>2. ASSUME NEW n \in Nat, n \in T PROVE n + 1 \in T
    <2>1. PICK c \in Part(n) : TRUE
      BY <1>2
    <2>2. CASE \E u \in Slots : Distance(h, u) = n /\ NextSlot(u) # h
      <3>1. PICK u \in Slots : Distance(h, u) = n /\ NextSlot(u) # h
        BY <2>2
      <3>2. NextSlot(u) \in Slots /\ Distance(h, NextSlot(u)) = n + 1
        BY <3>1, NextSlotFurther
      <3> DEFINE e == [c EXCEPT ![NextSlot(u)] = Bump(c[u], p[u])]
      <3>3. Bump(c[u], p[u]) \in Nat
        BY DEF Bump
      <3>4. e \in [Slots -> Nat] /\ e[h] = 0
        BY <3>1, <3>2, <3>3
      <3>5. ASSUME NEW s \in Slots, Distance(h, s) < n + 1, NextSlot(s) # h
            PROVE  e[NextSlot(s)] = Bump(e[s], p[s])
        <4>1. s # NextSlot(u) /\ Distance(h, s) \in Nat /\ NextSlot(s) \in Slots
          BY <3>2, <3>5, DistanceRange, NextSlotFurther
        <4>2. CASE s = u
          BY <3>2, <4>1, <4>2
        <4>3. CASE s # u
          <5>1. Distance(h, s) < n
            BY <3>1, <3>5, <4>1, <4>3, DistanceRange
          <5>2. NextSlot(s) # NextSlot(u)
            BY <4>3, NextInjective
          <5> QED
            BY <2>1, <3>5, <4>1, <5>1, <5>2
        <4> QED
          BY <4>2, <4>3
      <3>6. e \in Part(n + 1)
        BY <3>4, <3>5
      <3>7. Part(n + 1) # {}
        <4> HIDE DEF Part, e
        <4> QED
          BY <3>6
      <3> QED
        BY <3>7
    <2>3. CASE ~\E u \in Slots : Distance(h, u) = n /\ NextSlot(u) # h
      <3>1. \A s \in Slots : Distance(h, s) < n + 1 /\ NextSlot(s) # h
                               => Distance(h, s) < n
        BY <2>3, DistanceRange
      <3>2. c \in Part(n + 1)
        BY <2>1, <3>1
      <3>3. Part(n + 1) # {}
        <4> HIDE DEF Part
        <4> QED
          BY <3>2
      <3> QED
        BY <3>3
    <2> QED
      BY <2>2, <2>3
  <1>3. Capacity \in T
    <2> HIDE DEF T
    <2> QED
      BY <1>1, <1>2, EveryNatural, TableAssumption
  <1>4. PICK c \in Part(Capacity) : TRUE
    BY <1>3
  <1>5. IsChain(h, p, c)
    BY <1>4, DistanceRange, TableAssumption DEF IsChain
  <1> QED
    BY <1>5 DEF Chain

LEMMA ChainAt ==
  ASSUME NEW h \in Slots, NEW p \in [Slots -> Nat]
  PROVE  /\ Chain(h, p) \in [Slots -> Nat]
         /\ Chain(h, p)[h] = 0
         /\ \A s \in Slots : Chain(h, p)[s] \in Nat
         /\ \A s \in Slots : NextSlot(s) # h =>
              Chain(h, p)[NextSlot(s)] = Bump(Chain(h, p)[s], p[s])
  BY ChainExists DEF IsChain

(* It grows from slot to slot.                                              *)
LEMMA ChainGrows ==
  ASSUME NEW h \in Slots, NEW p \in [Slots -> Nat], NEW s \in Slots,
         NEW t \in Slots, Distance(h, s) <= Distance(h, t)
  PROVE  Chain(h, p)[s] <= Chain(h, p)[t]
  <1> DEFINE c == Chain(h, p)
             T == { n \in Nat : \A u, v \in Slots :
                      Distance(h, v) = n /\ Distance(h, u) <= n => c[u] <= c[v] }
  <1>1. \A u \in Slots : c[u] \in Nat /\ p[u] \in Nat /\ Distance(h, u) \in Nat
    BY ChainAt, DistanceRange
  <1>2. 0 \in T
    <2>1. ASSUME NEW u \in Slots, NEW v \in Slots,
                 Distance(h, v) = 0, Distance(h, u) <= 0
          PROVE  c[u] <= c[v]
      <3>1. u = v
        BY <1>1, <2>1, DistanceRange
      <3> QED
        BY <1>1, <3>1
    <2> HIDE DEF c
    <2> QED
      BY <2>1
  <1>3. ASSUME NEW n \in Nat, n \in T PROVE n + 1 \in T
    <2>1. ASSUME NEW u \in Slots, NEW v \in Slots,
                 Distance(h, v) = n + 1, Distance(h, u) <= n + 1
          PROVE  c[u] <= c[v]
      <3>1. v # h
        BY <2>1, DistanceRange
      <3>2. PICK w \in Slots : NextSlot(w) = v /\ Distance(h, v) = Distance(h, w) + 1
        BY <3>1, Predecessor
      <3>3. c[v] = Bump(c[w], p[w])
        BY <3>1, <3>2, ChainAt
      <3>4. CASE u = v
        BY <1>1, <3>4
      <3>5. CASE u # v
        <4>1. Distance(h, u) <= n /\ Distance(h, w) = n
          BY <1>1, <2>1, <3>2, <3>5, DistanceRange
        <4>2. c[u] <= c[w]
          BY <1>3, <4>1
        <4> HIDE DEF c
        <4> QED
          BY <1>1, <3>3, <4>2 DEF Bump
      <3> QED
        BY <3>4, <3>5
    <2> HIDE DEF c
    <2> QED
      BY <2>1
  <1>4. Distance(h, t) \in T
    <2> HIDE DEF T
    <2> QED
      BY <1>1, <1>2, <1>3, EveryNatural
  <1> QED
    BY <1>4

(* Where psl grows the probe is not further from its home.                  *)
LEMMA ChainFalls ==
  ASSUME NEW h \in Slots, NEW t \in Slots,
         NEW p \in [Slots -> Nat], NEW q \in [Slots -> Nat],
         \A s \in Slots : Distance(h, s) < Distance(h, t)
                            => Chain(h, p)[s] <= p[s] /\ p[s] <= q[s],
         NEW u \in Slots, Distance(h, u) <= Distance(h, t)
  PROVE  Chain(h, q)[u] <= Chain(h, p)[u]
  <1> DEFINE c == Chain(h, p)
             e == Chain(h, q)
             T == { n \in Nat : \A v \in Slots :
                      Distance(h, v) = n /\ n <= Distance(h, t) => e[v] <= c[v] }
  <1>1. \A v \in Slots : /\ c[v] \in Nat /\ e[v] \in Nat
                         /\ p[v] \in Nat /\ q[v] \in Nat /\ Distance(h, v) \in Nat
    BY ChainAt, DistanceRange
  <1>2. 0 \in T
    <2>1. ASSUME NEW v \in Slots, Distance(h, v) = 0
          PROVE  e[v] <= c[v]
      <3>1. v = h
        BY <2>1, DistanceRange
      <3> QED
        BY <3>1, ChainAt
    <2> HIDE DEF c, e
    <2> QED
      BY <2>1
  <1>3. ASSUME NEW n \in Nat, n \in T PROVE n + 1 \in T
    <2>1. ASSUME NEW v \in Slots, Distance(h, v) = n + 1, n + 1 <= Distance(h, t)
          PROVE  e[v] <= c[v]
      <3>1. v # h
        BY <2>1, DistanceRange
      <3>2. PICK w \in Slots : NextSlot(w) = v /\ Distance(h, v) = Distance(h, w) + 1
        BY <3>1, Predecessor
      <3>3. c[v] = Bump(c[w], p[w]) /\ e[v] = Bump(e[w], q[w])
        BY <3>1, <3>2, ChainAt
      <3>4. Distance(h, w) = n /\ Distance(h, w) < Distance(h, t)
        BY <1>1, <2>1, <3>2
      <3>5. e[w] <= c[w] /\ c[w] <= p[w] /\ p[w] <= q[w]
        BY <1>1, <1>3, <3>4
      <3> HIDE DEF c, e
      <3> QED
        BY <1>1, <3>3, <3>5 DEF Bump
    <2> HIDE DEF c, e
    <2> QED
      BY <2>1
  <1>4. Distance(h, u) \in T
    <2> HIDE DEF T
    <2> QED
      BY <1>1, <1>2, <1>3, EveryNatural
  <1> QED
    BY <1>4

(* f is e with the value v at slot i.                                       *)
Changed(f, e, i, v) == f[i] = v /\ \A s \in Slots : s # i => f[s] = e[s]

(* An upsert of a key with home h comes to slot t.                          *)
ComesTo(h, p, t) ==
  \A s \in Slots : Distance(h, s) < Distance(h, t) => Chain(h, p)[s] <= p[s]

(* The psl of slot i grows.                                                 *)
LEMMA ChainAfterRaise ==
  ASSUME NEW h \in Slots, NEW t \in Slots, NEW p \in [Slots -> Nat],
         NEW i \in Slots, NEW v \in Nat, v >= p[i],
         NEW q \in [Slots -> Nat], Changed(q, p, i, v),
         ComesTo(h, p, t)
  PROVE  /\ \A s \in Slots : Distance(h, s) <= Distance(h, t)
                              => Chain(h, q)[s] <= Chain(h, p)[s]
         /\ Distance(h, i) <= Distance(h, t) => Chain(h, q)[i] = Chain(h, p)[i]
  <1>1. q[i] = v /\ \A s \in Slots : s # i => q[s] = p[s]
    BY DEF Changed
  <1>2. \A s \in Slots : /\ p[s] \in Nat /\ q[s] \in Nat /\ Distance(h, s) \in Nat
                         /\ Chain(h, p)[s] \in Nat /\ Chain(h, q)[s] \in Nat
    BY <1>1, ChainAt, DistanceRange
  <1>3. \A s \in Slots : p[s] <= q[s]
    BY <1>1, <1>2
  <1>4. \A s \in Slots : Distance(h, s) <= Distance(h, t)
                           => Chain(h, q)[s] <= Chain(h, p)[s]
    BY <1>1, <1>3, ChainFalls DEF ComesTo
  <1>5. ASSUME Distance(h, i) <= Distance(h, t)
        PROVE  Chain(h, q)[i] = Chain(h, p)[i]
    <2>1. ASSUME NEW s \in Slots, Distance(h, s) < Distance(h, i)
          PROVE  Chain(h, q)[s] <= q[s] /\ q[s] <= p[s]
      <3>1. s # i /\ Distance(h, s) < Distance(h, t)
        BY <1>2, <1>5, <2>1
      <3>2. Chain(h, q)[s] <= Chain(h, p)[s] /\ Chain(h, p)[s] <= p[s]
        BY <1>2, <1>4, <3>1 DEF ComesTo
      <3> QED
        BY <1>1, <1>2, <3>1, <3>2
    <2>2. Chain(h, p)[i] <= Chain(h, q)[i]
      BY <1>1, <1>2, <2>1, ChainFalls
    <2> QED
      BY <1>2, <1>4, <1>5, <2>2
  <1> QED
    BY <1>4, <1>5

-----------------------------------------------------------------------------
(* Stored entries are on the way of an upsert of their key. *)

Newer(e, f) == AllocatedLater(e.seq, f.seq)

Tables == [Slots -> Entry \cup {NoEntry}]

HomeOf(e) == Home[e.key]

(* An upsert of the key of e would come from its home to slot t, and        *)
(* displace only entries that are newer than e.                             *)
Way(tab, p, e, t) ==
  \A s \in Slots :
    Distance(HomeOf(e), s) < Distance(HomeOf(e), t) =>
      /\ tab[s] # NoEntry
      /\ Chain(HomeOf(e), p)[s] <= p[s]
      /\ Chain(HomeOf(e), p)[s] = p[s] => Newer(tab[s], e)

(* It would come to the slot of each stored entry.                          *)
EntriesOnWay(tab, p) ==
  \A t \in Slots :
    tab[t] # NoEntry =>
      /\ Way(tab, p, tab[t], t)
      /\ Chain(HomeOf(tab[t]), p)[t] <= p[t]
      /\ Chain(HomeOf(tab[t]), p)[t] <= MaxDist

(* The entry g in hand, at slot i with distance d.                          *)
HandOnWay(tab, p, g, i, d) == Way(tab, p, g, i) /\ Chain(HomeOf(g), p)[i] <= d

(* g is newer than the entries an upsert would look for as g does.          *)
HandNewer(tab, p, g, i, d) ==
  \A t \in Slots :
    /\ tab[t] # NoEntry
    /\ Distance(HomeOf(tab[t]), i) <= Distance(HomeOf(tab[t]), t)
    /\ d = Chain(HomeOf(tab[t]), p)[i]
    => Newer(g, tab[t])

LEMMA HomeOfType == \A e \in Entry : HomeOf(e) \in Slots
  BY HomeIsSlot DEF HomeOf, Entry

(* What every step knows of the slots and the entries.                      *)
LEMMA Basics ==
  ASSUME NEW tab \in Tables, NEW p \in [Slots -> Nat], NEW t \in Slots,
         tab[t] # NoEntry
  PROVE  /\ tab[t] \in Entry
         /\ HomeOf(tab[t]) \in Slots
         /\ \A s \in Slots : /\ p[s] \in Nat
                             /\ Distance(HomeOf(tab[t]), s) \in Nat
                             /\ Chain(HomeOf(tab[t]), p)[s] \in Nat
  <1>1. tab[t] \in Entry
    BY DEF Tables
  <1> QED
    BY <1>1, HomeOfType, ChainAt, DistanceRange

(* The way of e to slot t stays open when slot i gets the entry g and psl v. *)
LEMMA WayKept ==
  ASSUME NEW tab \in Tables, NEW p \in [Slots -> Nat], NEW e \in Entry,
         NEW t \in Slots, NEW i \in Slots, NEW g \in Entry, NEW v \in Nat,
         v >= p[i], Way(tab, p, e, t),
         NEW new \in Tables, Changed(new, tab, i, g),
         NEW q \in [Slots -> Nat], Changed(q, p, i, v),
         /\ Distance(HomeOf(e), i) < Distance(HomeOf(e), t)
         /\ v = Chain(HomeOf(e), p)[i]
         => Newer(g, e)
  PROVE  /\ Way(new, q, e, t)
         /\ Chain(HomeOf(e), q)[t] <= Chain(HomeOf(e), p)[t]
  <1>0. PICK h : h = HomeOf(e)
    OBVIOUS
  <1>1. /\ new[i] = g /\ q[i] = v
        /\ \A s \in Slots : s # i => new[s] = tab[s] /\ q[s] = p[s]
        /\ q \in [Slots -> Nat] /\ h \in Slots /\ g # NoEntry
    BY <1>0, HomeOfType, NullAssumption DEF Changed
  <1>2. \A s \in Slots : /\ p[s] \in Nat /\ q[s] \in Nat /\ Distance(h, s) \in Nat
                         /\ Chain(h, p)[s] \in Nat /\ Chain(h, q)[s] \in Nat
    BY <1>1, ChainAt, DistanceRange
  <1>3. ComesTo(h, p, t)
    BY <1>0 DEF Way, ComesTo
  <1>4. \A s \in Slots : Distance(h, s) <= Distance(h, t)
                           => Chain(h, q)[s] <= Chain(h, p)[s]
    BY <1>1, <1>3, ChainAfterRaise
  <1>5. ASSUME NEW s \in Slots, Distance(h, s) < Distance(h, t)
        PROVE  /\ new[s] # NoEntry
               /\ Chain(h, q)[s] <= q[s]
               /\ Chain(h, q)[s] = q[s] => Newer(new[s], e)
    <2>1. /\ tab[s] # NoEntry
          /\ Chain(h, p)[s] <= p[s]
          /\ Chain(h, p)[s] = p[s] => Newer(tab[s], e)
      BY <1>0, <1>5 DEF Way
    <2>2. Chain(h, q)[s] <= Chain(h, p)[s]
      BY <1>2, <1>4, <1>5
    <2>3. CASE s = i
      BY <1>0, <1>1, <1>2, <1>5, <2>1, <2>2, <2>3
    <2>4. CASE s # i
      BY <1>1, <1>2, <2>1, <2>2, <2>4
    <2> QED
      BY <2>3, <2>4
  <1> QED
    BY <1>0, <1>1, <1>2, <1>4, <1>5, DistanceRange DEF Way

(* The entry in hand is stored in slot i, whose psl becomes v.              *)
LEMMA StoreOnWay ==
  ASSUME NEW tab \in Tables, NEW p \in [Slots -> Nat], NEW g \in Entry,
         NEW i \in Slots, NEW d \in 0 .. MaxDist, NEW v \in Nat,
         v >= p[i], v >= d, EntriesOnWay(tab, p), HandOnWay(tab, p, g, i, d),
         \A t \in Slots :
           /\ tab[t] # NoEntry
           /\ Distance(HomeOf(tab[t]), i) < Distance(HomeOf(tab[t]), t)
           /\ v = Chain(HomeOf(tab[t]), p)[i]
           => Newer(g, tab[t]),
         NEW new \in Tables, Changed(new, tab, i, g),
         NEW q \in [Slots -> Nat], Changed(q, p, i, v)
  PROVE  EntriesOnWay(new, q)
  <1>1. /\ new[i] = g /\ q[i] = v
        /\ \A s \in Slots : s # i => new[s] = tab[s] /\ q[s] = p[s]
        /\ q \in [Slots -> Nat] /\ g # NoEntry /\ MaxDist \in Nat /\ p[i] \in Nat
    BY NullAssumption, TableAssumption DEF Changed, Tables
  <1>2. ASSUME NEW t \in Slots, new[t] # NoEntry
        PROVE  /\ Way(new, q, new[t], t)
               /\ Chain(HomeOf(new[t]), q)[t] <= q[t]
               /\ Chain(HomeOf(new[t]), q)[t] <= MaxDist
    <2>1. CASE t = i
      <3>1. /\ Way(tab, p, g, i) /\ Chain(HomeOf(g), p)[i] <= d
            /\ ~(Distance(HomeOf(g), i) < Distance(HomeOf(g), i))
            /\ HomeOf(g) \in Slots
        BY HomeOfType, DistanceRange DEF HandOnWay
      <3>2. Way(new, q, g, i) /\ Chain(HomeOf(g), q)[i] <= Chain(HomeOf(g), p)[i]
        BY <3>1, WayKept
      <3>3. Chain(HomeOf(g), p)[i] \in Nat /\ Chain(HomeOf(g), q)[i] \in Nat
        BY <1>1, <3>1, ChainAt
      <3> QED
        BY <1>1, <2>1, <3>1, <3>2, <3>3
    <2>2. CASE t # i
      <3> DEFINE x == tab[t]
      <3>1. tab[t] # NoEntry /\ new[t] = x /\ q[t] = p[t]
        BY <1>1, <1>2, <2>2
      <3>2. /\ x \in Entry /\ HomeOf(x) \in Slots /\ p[t] \in Nat
            /\ Chain(HomeOf(x), p)[t] \in Nat
        BY <3>1, Basics
      <3>3. Chain(HomeOf(x), q)[t] \in Nat
        BY <1>1, <3>2, ChainAt
      <3>4. /\ Way(tab, p, x, t)
            /\ Chain(HomeOf(x), p)[t] <= p[t]
            /\ Chain(HomeOf(x), p)[t] <= MaxDist
        BY <3>1 DEF EntriesOnWay
      <3>5. /\ Way(new, q, x, t)
            /\ Chain(HomeOf(x), q)[t] <= Chain(HomeOf(x), p)[t]
        BY <3>1, <3>2, <3>4, WayKept
      <3> HIDE DEF x
      <3> QED
        BY <1>1, <3>1, <3>2, <3>3, <3>4, <3>5
    <2> QED
      BY <2>1, <2>2
  <1> QED
    BY <1>2 DEF EntriesOnWay

(* The hand goes by slot i, whose psl is greater.                           *)
LEMMA PassByOnWay ==
  ASSUME NEW tab \in Tables, NEW p \in [Slots -> Nat], NEW g \in Entry,
         NEW i \in Slots, NEW d \in Nat, tab[i] # NoEntry, p[i] >= d + 1,
         EntriesOnWay(tab, p), HandOnWay(tab, p, g, i, d),
         HandNewer(tab, p, g, i, d)
  PROVE  /\ HandOnWay(tab, p, g, NextSlot(i), d + 1)
         /\ HandNewer(tab, p, g, NextSlot(i), d + 1)
  <1> DEFINE n == NextSlot(i)
             h == HomeOf(g)
  <1>1. n \in Slots /\ h \in Slots
    BY NextSlotFurther, HomeOfType
  <1>2. \A s \in Slots : /\ p[s] \in Nat /\ Distance(h, s) \in Nat
                         /\ Chain(h, p)[s] \in Nat
    BY <1>1, ChainAt, DistanceRange
  <1>3. HandOnWay(tab, p, g, n, d + 1)
    <2>1. CASE n = h
      <3>1. Distance(h, n) = 0 /\ Chain(h, p)[n] = 0
        BY <1>1, <2>1, DistanceRange, ChainAt
      <3> QED
        BY <1>2, <3>1 DEF HandOnWay, Way
    <2>2. CASE n # h
      <3>1. Chain(h, p)[i] <= d
        BY DEF HandOnWay
      <3>2. Chain(h, p)[n] = Bump(Chain(h, p)[i], p[i])
        BY <1>1, <2>2, ChainAt
      <3>3. Chain(h, p)[n] <= d + 1 /\ Chain(h, p)[i] < p[i]
        BY <1>2, <3>1, <3>2 DEF Bump
      <3>4. ASSUME NEW s \in Slots, Distance(h, s) < Distance(h, n)
            PROVE  Distance(h, s) < Distance(h, i) \/ s = i
        BY <1>1, <3>4, BeforeNext
      <3>5. Way(tab, p, g, n)
        BY <1>2, <3>3, <3>4 DEF HandOnWay, Way
      <3> QED
        BY <3>3, <3>5 DEF HandOnWay
    <2> QED
      BY <2>1, <2>2
  <1>4. ASSUME NEW t \in Slots, tab[t] # NoEntry,
               Distance(HomeOf(tab[t]), n) <= Distance(HomeOf(tab[t]), t),
               d + 1 = Chain(HomeOf(tab[t]), p)[n]
        PROVE  Newer(g, tab[t])
    <2> DEFINE m == HomeOf(tab[t])
    <2>1. m \in Slots /\ \A s \in Slots : /\ p[s] \in Nat /\ Distance(m, s) \in Nat
                                          /\ Chain(m, p)[s] \in Nat
      BY <1>4, Basics
    <2>2. n # m
      BY <1>4, <2>1, ChainAt
    <2>3. /\ Distance(m, n) = Distance(m, i) + 1
          /\ Chain(m, p)[n] = Bump(Chain(m, p)[i], p[i])
      BY <2>1, <2>2, NextSlotFurther, ChainAt
    <2>4. Distance(m, i) < Distance(m, t)
      BY <1>1, <1>4, <2>1, <2>3
    <2>5. Chain(m, p)[i] <= p[i]
      BY <1>4, <2>4 DEF EntriesOnWay, Way
    <2>6. d = Chain(m, p)[i]
      BY <1>4, <2>1, <2>3, <2>5 DEF Bump
    <2> QED
      BY <1>4, <2>1, <2>4, <2>6 DEF HandNewer
  <1> QED
    BY <1>3, <1>4 DEF HandNewer

(* The hand g is stored in slot i; the entry that was there goes on.        *)
LEMMA DisplaceOnWay ==
  ASSUME NEW tab \in Tables, NEW p \in [Slots -> Nat], NEW g \in Entry,
         NEW i \in Slots, NEW d \in 0 .. MaxDist, tab[i] # NoEntry, p[i] < d + 1,
         EntriesOnWay(tab, p), HandOnWay(tab, p, g, i, d),
         HandNewer(tab, p, g, i, d),
         NEW new \in Tables, Changed(new, tab, i, g),
         NEW q \in [Slots -> Nat], Changed(q, p, i, d),
         NEW f, f = tab[i], NEW n, n = NextSlot(i), NEW c, c = p[i] + 2
  PROVE  /\ EntriesOnWay(new, q)
         /\ HandOnWay(new, q, f, n, c)
         /\ HandNewer(new, q, f, n, c)
  <1>0. PICK h : h = HomeOf(f)
    OBVIOUS
  <1>1. /\ n \in Slots /\ f \in Entry /\ h \in Slots /\ d \in Nat
        /\ new[i] = g /\ q[i] = d /\ p[i] \in Nat /\ p[i] <= d
        /\ \A s \in Slots : s # i => new[s] = tab[s] /\ q[s] = p[s]
        /\ q \in [Slots -> Nat] /\ new \in Tables /\ g # NoEntry
    BY <1>0, NextSlotFurther, HomeOfType, NullAssumption, TableAssumption DEF Changed, Tables
  <1>2. \A s \in Slots : /\ p[s] \in Nat /\ q[s] \in Nat /\ Distance(h, s) \in Nat
                         /\ Chain(h, p)[s] \in Nat /\ Chain(h, q)[s] \in Nat
    BY <1>1, ChainAt, DistanceRange
  <1>3. EntriesOnWay(new, q)
    <2>1. \A t \in Slots :
            /\ tab[t] # NoEntry
            /\ Distance(HomeOf(tab[t]), i) < Distance(HomeOf(tab[t]), t)
            /\ d = Chain(HomeOf(tab[t]), p)[i]
            => Newer(g, tab[t])
      BY Basics DEF HandNewer
    <2> QED
      BY <1>1, <2>1, StoreOnWay
  <1>4. /\ Way(tab, p, f, i) /\ Chain(h, p)[i] <= p[i]
    BY <1>0 DEF EntriesOnWay
  <1>5. /\ Way(new, q, f, i) /\ Chain(h, q)[i] = Chain(h, p)[i]
    <2>1. Way(new, q, f, i)
      BY <1>0, <1>1, <1>2, <1>4, WayKept
    <2>2. ComesTo(h, p, i)
      BY <1>0, <1>4 DEF Way, ComesTo
    <2>3. d >= p[i] /\ Distance(h, i) <= Distance(h, i) /\ h \in Slots /\ d \in Nat
      BY <1>1, <1>2
    <2>4. Chain(h, q)[i] = Chain(h, p)[i]
      BY <2>2, <2>3, ChainAfterRaise
    <2> QED
      BY <2>1, <2>4
  <1>6. HandOnWay(new, q, f, n, c)
    <2>1. CASE n = h
      <3>1. Distance(h, n) = 0 /\ Chain(h, q)[n] = 0
        BY <1>1, <2>1, DistanceRange, ChainAt
      <3> QED
        BY <1>0, <1>1, <1>2, <3>1 DEF HandOnWay, Way
    <2>2. CASE n # h
      <3>1. Chain(h, q)[n] = Bump(Chain(h, q)[i], d)
        BY <1>1, <2>2, ChainAt
      <3>2. d = Chain(h, p)[i] => Newer(g, f)
        BY <1>0, <1>2 DEF HandNewer
      <3>3. ASSUME NEW s \in Slots, Distance(h, s) < Distance(h, n)
            PROVE  /\ new[s] # NoEntry
                   /\ Chain(h, q)[s] <= q[s]
                   /\ Chain(h, q)[s] = q[s] => Newer(new[s], f)
        <4>1. CASE s = i
                  BY <1>1, <1>2, <1>4, <1>5, <3>2, <4>1
        <4>2. CASE s # i
          <5>1. Distance(h, s) < Distance(h, i)
            BY <1>1, <3>3, <4>2, BeforeNext
          <5> QED
            BY <1>0, <1>1, <1>5, <4>2, <5>1 DEF Way
        <4> QED
          BY <4>1, <4>2
      <3>4. Way(new, q, f, n)
        BY <1>0, <3>3 DEF Way
      <3>5. Chain(h, q)[n] <= c
              BY <1>1, <1>2, <1>4, <1>5, <3>1 DEF Bump
      <3> QED
        BY <1>0, <3>4, <3>5 DEF HandOnWay
    <2> QED
      BY <2>1, <2>2
  <1>7. ASSUME NEW t \in Slots, new[t] # NoEntry,
               Distance(HomeOf(new[t]), n) <= Distance(HomeOf(new[t]), t),
               c = Chain(HomeOf(new[t]), q)[n]
        PROVE  Newer(f, new[t])
    <2>0. PICK m : m = HomeOf(new[t])
      OBVIOUS
    <2>1. m \in Slots /\ \A s \in Slots :
            /\ p[s] \in Nat /\ Distance(m, s) \in Nat
            /\ Chain(m, p)[s] \in Nat /\ Chain(m, q)[s] \in Nat
      <3>1. m \in Slots
        BY <1>1, <1>7, <2>0, Basics
      <3> QED
        BY <1>1, <3>1, ChainAt, DistanceRange
    <2>2. n # m
      BY <1>1, <1>7, <2>0, <2>1, ChainAt
    <2>3. /\ Distance(m, n) = Distance(m, i) + 1
          /\ Chain(m, q)[n] = Bump(Chain(m, q)[i], d)
      BY <1>1, <2>1, <2>2, NextSlotFurther, ChainAt
    <2>4. Distance(m, i) < Distance(m, t) /\ t # i
      <3>1. Distance(m, n) <= Distance(m, t)
        BY <1>7, <2>0
      <3> QED
        BY <1>1, <2>1, <2>3, <3>1
    <2>5. new[t] = tab[t] /\ tab[t] # NoEntry
      BY <1>1, <1>7, <2>4
    <2>6. /\ Way(tab, p, tab[t], t)
          /\ m = HomeOf(tab[t])
          /\ \A s \in Slots : Distance(m, s) < Distance(m, t) =>
               /\ Chain(m, p)[s] <= p[s]
               /\ Chain(m, p)[s] = p[s] => Newer(tab[s], tab[t])
      BY <2>0, <2>5 DEF EntriesOnWay, Way
    <2>7. Chain(m, q)[i] = Chain(m, p)[i]
      <3>1. d >= p[i] /\ Distance(m, i) <= Distance(m, t) /\ m \in Slots /\ d \in Nat
        BY <1>1, <2>1, <2>4
      <3>2. ComesTo(m, p, t)
        BY <2>6 DEF ComesTo
      <3> QED
        BY <3>1, <3>2, ChainAfterRaise
    <2>8. Chain(m, p)[i] = p[i]
      <3>1. c = Chain(m, q)[n] /\ Chain(m, p)[i] <= p[i]
        BY <1>7, <2>0, <2>4, <2>6
      <3> QED
        BY <1>1, <2>1, <2>3, <2>7, <3>1 DEF Bump
    <2> QED
      BY <2>4, <2>5, <2>6, <2>8
  <1>8. HandNewer(new, q, f, n, c)
    BY <1>7 DEF HandNewer
  <1> QED
    BY <1>3, <1>6, <1>8

-----------------------------------------------------------------------------
(* The order of sequence numbers. *)

(* A number less than twice the modulus, or as little below 0.              *)
LEMMA ModuloOnce ==
  ASSUME NEW x \in Int, NEW m \in Nat \ {0}
  PROVE  /\ 0 <= x /\ x < m => x % m = x
         /\ m <= x /\ x < 2 * m => x % m = x - m
         /\ 0 - m <= x /\ x < 0 => x % m = x + m
  OBVIOUS

LEMMA NumberIs ==
  ASSUME NEW n \in 0 .. MaxSequence - 1
  PROVE  /\ Number(n) \in Int
         /\ Number(n) = FirstSequence + n \/ Number(n) = FirstSequence + n - Modulus
         /\ 0 <= Number(n) /\ Number(n) < Modulus
  <1>1. PICK x \in Int : x = FirstSequence + n
    BY SequenceAssumption
  <1>2. /\ Modulus \in Nat \ {0} /\ 0 <= x /\ x < 2 * Modulus
        /\ Number(n) = x % Modulus
    BY <1>1, SequenceAssumption DEF Number
  <1>3. CASE x < Modulus
    <2>1. x % Modulus = x
      BY <1>2, <1>3, ModuloOnce
    <2> QED
      BY <1>1, <1>2, <1>3, <2>1
  <1>4. CASE Modulus <= x
    <2>1. x % Modulus = x - Modulus
      BY <1>2, <1>4, ModuloOnce
    <2> QED
      BY <1>1, <1>2, <1>4, <2>1, SequenceAssumption
  <1> QED
    BY <1>2, <1>3, <1>4

(* Different allocations have different numbers.                            *)
LEMMA NumberInjective ==
  ASSUME NEW n \in 0 .. MaxSequence - 1, NEW m \in 0 .. MaxSequence - 1,
         Number(n) = Number(m)
  PROVE  n = m
  BY NumberIs, SequenceAssumption

LEMMA LaterTransitive ==
  ASSUME NEW a, NEW b, NEW c, AllocatedLater(a, b), AllocatedLater(b, c)
  PROVE  AllocatedLater(a, c)
  <1>1. PICK n \in 0 .. MaxSequence - 1, m \in 0 .. MaxSequence - 1 :
          a = Number(n) /\ b = Number(m) /\ m < n
    BY DEF AllocatedLater
  <1>2. PICK l \in 0 .. MaxSequence - 1, r \in 0 .. MaxSequence - 1 :
          b = Number(l) /\ c = Number(r) /\ r < l
    BY DEF AllocatedLater
  <1>3. l = m
    BY <1>1, <1>2, NumberInjective
  <1>4. r < n
    BY <1>1, <1>2, <1>3, SequenceAssumption
  <1> QED
    BY <1>1, <1>2, <1>4 DEF AllocatedLater

(* sequence_newer says what was allocated later, across the wraparound.     *)
LEMMA LaterIsNewer ==
  ASSUME NEW a, NEW b, AllocatedLater(a, b)
  PROVE  SequenceNewer(a, b) /\ ~SequenceNewer(b, a)
  <1>1. PICK n \in 0 .. MaxSequence - 1, m \in 0 .. MaxSequence - 1 :
          a = Number(n) /\ b = Number(m) /\ m < n
    BY DEF AllocatedLater
  <1>2. /\ a \in Int /\ 0 <= a /\ a < Modulus
        /\ b \in Int /\ 0 <= b /\ b < Modulus
        /\ a - b = n - m \/ a - b = n - m - Modulus
        /\ n - m \in Int /\ 0 < n - m /\ 2 * (n - m) < Modulus
        /\ Modulus \in Nat \ {0}
    BY <1>1, NumberIs, SequenceAssumption
  <1>3. (a - b) % Modulus = n - m
    <2>1. CASE a - b = n - m
      <3>1. a - b \in Int /\ 0 <= a - b /\ a - b < Modulus
        BY <1>2, <2>1
      <3> QED
        BY <1>2, <2>1, <3>1, ModuloOnce
    <2>2. CASE a - b = n - m - Modulus
      <3>1. a - b \in Int /\ 0 - Modulus <= a - b /\ a - b < 0
        BY <1>2, <2>2
      <3>2. (a - b) % Modulus = a - b + Modulus
        BY <1>2, <3>1, ModuloOnce
      <3> QED
        BY <1>2, <2>2, <3>2
    <2> QED
      BY <1>2, <2>1, <2>2
  <1>4. (b - a) % Modulus = Modulus - (n - m)
    <2>1. CASE a - b = n - m
      <3>1. b - a \in Int /\ 0 - Modulus <= b - a /\ b - a < 0
        BY <1>2, <2>1
      <3>2. (b - a) % Modulus = b - a + Modulus
        BY <1>2, <3>1, ModuloOnce
      <3> QED
        BY <1>2, <2>1, <3>2
    <2>2. CASE a - b = n - m - Modulus
      <3>1. b - a \in Int /\ 0 <= b - a /\ b - a < Modulus
        BY <1>2, <2>2
      <3>2. (b - a) % Modulus = b - a
        BY <1>2, <3>1, ModuloOnce
      <3> QED
        BY <1>2, <2>2, <3>2
    <2> QED
      BY <1>2, <2>1, <2>2
  <1> QED
    BY <1>2, <1>3, <1>4 DEF SequenceNewer

-----------------------------------------------------------------------------
(* The copies of a key. *)

Has(tab, t, k) == tab[t] # NoEntry /\ tab[t].key = k

(* k has one entry in the table, or none.                                   *)
Once(tab, k) ==
  \A s, t \in Slots : Has(tab, s, k) /\ Has(tab, t, k) => s = t

(* The old entry of k in slot t is ahead of an upsert of k at slot i, which *)
(* has come the way to it.                                                  *)
Ahead(p, k, t, i, d) == /\ Distance(Home[k], i) <= Distance(Home[k], t)
                        /\ d = Chain(Home[k], p)[i]

(* An upsert of k that has its own entry g in hand.                         *)
OwnInHand(tab, p, k, g, i, d) ==
  /\ Once(tab, k)
  /\ \A t \in Slots : Has(tab, t, k) => Ahead(p, k, t, i, d)
  /\ \A t \in Slots : tab[t] # NoEntry => Newer(g, tab[t])

(* An upsert of k that has stored its entry in slot j.                      *)
OwnStored(tab, p, k, g, i, d, j) ==
  /\ Has(tab, j, k)
  /\ Newer(tab[j], g)
  /\ \A t \in Slots : t # j /\ tab[t] # NoEntry => Newer(tab[j], tab[t])
  /\ \A t \in Slots : t # j /\ Has(tab, t, k) =>
       Ahead(p, k, t, i, d) /\ Distance(Home[k], j) < Distance(Home[k], i)
  /\ \A s, t \in Slots : /\ s # j /\ Has(tab, s, k)
                         /\ t # j /\ Has(tab, t, k)
                         => s = t

(* While an upsert of k runs, k may have its old and its new entry, and the *)
(* entry in hand is nowhere else.                                           *)
OldAndNew(tab, p, k, g, i, d) ==
  /\ \A x \in Keys \ {k} : Once(tab, x)
  /\ g.key = k => OwnInHand(tab, p, k, g, i, d)
  /\ g.key # k => /\ \A t \in Slots : ~Has(tab, t, g.key)
                  /\ \E j \in Slots : OwnStored(tab, p, k, g, i, d, j)

-----------------------------------------------------------------------------
(* What an upsert that has its old entry ahead does at slot i.              *)
LEMMA OldWay ==
  ASSUME NEW tab \in Tables, NEW p \in [Slots -> Nat], EntriesOnWay(tab, p),
         NEW k \in Keys, NEW t \in Slots, NEW i \in Slots, NEW d \in Nat,
         Has(tab, t, k), t # i, Ahead(p, k, t, i, d),
         NEW n, n = NextSlot(i)
  PROVE  /\ tab[i] # NoEntry
         /\ d <= p[i]
         /\ Distance(Home[k], i) < Distance(Home[k], n)
         /\ Distance(Home[k], n) <= Distance(Home[k], t)
         /\ Chain(Home[k], p)[n] = Bump(d, p[i])
         /\ Bump(d, p[i]) <= MaxDist
  <1>0. PICK h \in Slots : h = Home[k]
    BY HomeIsSlot
  <1>1. /\ h = HomeOf(tab[t]) /\ tab[t] # NoEntry
        /\ n \in Slots /\ p[i] \in Nat
        /\ d = Chain(h, p)[i] /\ MaxDist \in Nat
        /\ \A s \in Slots : Distance(h, s) \in Nat /\ Chain(h, p)[s] \in Nat
    BY <1>0, NextSlotFurther, ChainAt, DistanceRange, TableAssumption
    DEF Has, HomeOf, Ahead
  <1>2. Distance(h, i) < Distance(h, t)
    BY <1>0, <1>1, DistanceRange DEF Ahead
  <1>3. /\ tab[i] # NoEntry /\ Chain(h, p)[i] <= p[i]
        /\ Chain(h, p)[t] <= MaxDist
    BY <1>1, <1>2 DEF EntriesOnWay, Way
  <1>4. n # h /\ Distance(h, n) = Distance(h, i) + 1
    <2>1. n # h
      <3>1. SUFFICES ASSUME NextSlot(i) = h PROVE FALSE
        OBVIOUS
      <3>2. Distance(h, t) < Distance(h, i) \/ t = i
        BY <1>0, <3>1, FullLap
      <3> QED
        BY <1>1, <1>2, <3>2
    <2>2. Distance(h, n) = Distance(h, i) + 1
      BY <1>0, <2>1, NextSlotFurther
    <2> QED
      BY <2>1, <2>2
  <1>5. Chain(h, p)[n] = Bump(d, p[i])
    BY <1>1, <1>4, ChainAt
  <1>6. Distance(h, n) <= Distance(h, t) /\ Distance(h, i) < Distance(h, n)
    BY <1>1, <1>2, <1>4
  <1>7. Chain(h, p)[n] <= Chain(h, p)[t]
    BY <1>1, <1>6, ChainGrows
  <1>8. Bump(d, p[i]) <= MaxDist
    BY <1>1, <1>3, <1>5, <1>7
  <1> QED
    BY <1>0, <1>1, <1>3, <1>5, <1>6, <1>8

(* It stays ahead when the upsert goes on.                                  *)
LEMMA AheadPassBy ==
  ASSUME NEW tab \in Tables, NEW p \in [Slots -> Nat], EntriesOnWay(tab, p),
         NEW k \in Keys, NEW t \in Slots, NEW i \in Slots, NEW d \in Nat,
         Has(tab, t, k), t # i, Ahead(p, k, t, i, d), p[i] >= d + 1
  PROVE  /\ Ahead(p, k, t, NextSlot(i), d + 1) /\ d + 1 <= MaxDist
         /\ Distance(Home[k], i) < Distance(Home[k], NextSlot(i))
  <1>1. p[i] \in Nat /\ Bump(d, p[i]) = d + 1
    BY DEF Bump
  <1> QED
    BY <1>1, OldWay DEF Ahead

LEMMA AheadDisplace ==
  ASSUME NEW tab \in Tables, NEW p \in [Slots -> Nat], EntriesOnWay(tab, p),
         NEW k \in Keys, NEW t \in Slots, NEW i \in Slots, NEW d \in Nat,
         Has(tab, t, k), t # i, Ahead(p, k, t, i, d), p[i] < d + 1,
         NEW q \in [Slots -> Nat], Changed(q, p, i, d)
  PROVE  /\ Ahead(q, k, t, NextSlot(i), p[i] + 2) /\ p[i] + 2 <= MaxDist
         /\ Distance(Home[k], i) < Distance(Home[k], NextSlot(i))
  <1>1. p[i] \in Nat /\ p[i] = d
    BY OldWay
  <1>2. \A s \in Slots : q[s] = p[s]
    BY <1>1 DEF Changed
  <1>3. q = p
    BY <1>2
  <1>4. Bump(d, p[i]) = p[i] + 2
    BY <1>1 DEF Bump
  <1> QED
    BY <1>1, <1>3, <1>4, OldWay DEF Ahead

-----------------------------------------------------------------------------
(* The hand goes by a slot of another key.                                  *)
LEMMA CopiesPassBy ==
  ASSUME NEW tab \in Tables, NEW p \in [Slots -> Nat], EntriesOnWay(tab, p),
         NEW k \in Keys, NEW g \in Entry, NEW i \in Slots, NEW d \in Nat,
         OldAndNew(tab, p, k, g, i, d), ~Has(tab, i, k), p[i] >= d + 1
  PROVE  /\ OldAndNew(tab, p, k, g, NextSlot(i), d + 1)
         /\ d + 1 > MaxDist => \A x \in Keys : Once(tab, x)
  <1>0. \A t \in Slots : Has(tab, t, k) => t # i
    OBVIOUS
  <1>1. \A t \in Slots : Has(tab, t, k) /\ Ahead(p, k, t, i, d) =>
          /\ Ahead(p, k, t, NextSlot(i), d + 1) /\ d + 1 <= MaxDist
          /\ Distance(Home[k], i) < Distance(Home[k], NextSlot(i))
    BY <1>0, AheadPassBy
  <1>10. \A j \in Slots : /\ Distance(Home[k], j) < Distance(Home[k], i)
                          /\ Distance(Home[k], i) < Distance(Home[k], NextSlot(i))
                          => Distance(Home[k], j) < Distance(Home[k], NextSlot(i))
    BY HomeIsSlot, NextSlotFurther, DistanceRange
  <1>2. OldAndNew(tab, p, k, g, NextSlot(i), d + 1)
    BY <1>1, <1>10 DEF OldAndNew, OwnInHand, OwnStored
  <1>3. d + 1 > MaxDist => ~(d + 1 <= MaxDist)
    BY TableAssumption
  <1>4. d + 1 > MaxDist => Once(tab, k)
    BY <1>1, <1>3 DEF OldAndNew, OwnInHand, OwnStored, Once
  <1> QED
    BY <1>2, <1>4 DEF OldAndNew

(* The hand changes places with the entry of another key.                   *)
LEMMA CopiesDisplace ==
  ASSUME NEW tab \in Tables, NEW p \in [Slots -> Nat], EntriesOnWay(tab, p),
         NEW k \in Keys, NEW g \in Entry, NEW i \in Slots, NEW d \in Nat,
         OldAndNew(tab, p, k, g, i, d), tab[i] # NoEntry, ~Has(tab, i, k),
         p[i] < d + 1, NEW f, f = tab[i], NEW c, c = p[i] + 2,
         NEW new \in Tables, Changed(new, tab, i, g),
         NEW q \in [Slots -> Nat], Changed(q, p, i, d)
  PROVE  /\ OldAndNew(new, q, k, f, NextSlot(i), c)
         /\ c > MaxDist => \A x \in Keys : Once(new, x)
  <1> DEFINE n == NextSlot(i)
  <1>1. /\ f \in Entry /\ f.key # k /\ g # NoEntry /\ g.key \in Keys
        /\ new[i] = g /\ \A s \in Slots : s # i => new[s] = tab[s]
        /\ \A x : Has(new, i, x) <=> x = g.key
        /\ \A x : \A s \in Slots : s # i => (Has(new, s, x) <=> Has(tab, s, x))
    BY NullAssumption DEF Tables, Changed, Has, Entry
  <1>2. \A t \in Slots : Has(tab, t, k) /\ Ahead(p, k, t, i, d) =>
          /\ Ahead(q, k, t, n, c) /\ c <= MaxDist
          /\ Distance(Home[k], i) < Distance(Home[k], n)
    <2>1. \A t \in Slots : Has(tab, t, k) => t # i
      OBVIOUS
    <2> QED
      BY <2>1, AheadDisplace
  <1>12. \A j \in Slots : /\ Distance(Home[k], j) < Distance(Home[k], i)
                          /\ Distance(Home[k], i) < Distance(Home[k], n)
                          => Distance(Home[k], j) < Distance(Home[k], n)
    BY HomeIsSlot, NextSlotFurther, DistanceRange
  <1>3. c > MaxDist => ~(c <= MaxDist)
    <2>1. c \in Nat
      OBVIOUS
    <2> QED
      BY <2>1, TableAssumption
  <1>4. Has(tab, i, f.key)
    BY DEF Has
  <1>5. \A x \in Keys \ {k} : Once(tab, x)
    BY DEF OldAndNew
  <1>6. f.key \in Keys /\ g.key # f.key
    <2>1. CASE g.key = k
      BY <1>1, <2>1 DEF Entry
    <2>2. CASE g.key # k
      BY <1>1, <1>4, <2>2 DEF Entry, OldAndNew
    <2> QED
      BY <2>1, <2>2
  <1>7. ASSUME NEW x \in Keys \ {k} PROVE Once(new, x)
    <2>1. CASE x = g.key
      <3>1. \A t \in Slots : ~Has(tab, t, x)
        BY <2>1 DEF OldAndNew
      <3> QED
        BY <1>1, <3>1 DEF Once
    <2>2. CASE x # g.key
      BY <1>1, <1>5, <2>2 DEF Once
    <2> QED
      BY <2>1, <2>2
  <1>8. ASSUME NEW t \in Slots PROVE ~Has(new, t, f.key)
    <2>1. CASE t = i
      BY <1>1, <1>6, <2>1
    <2>2. CASE t # i
      BY <1>1, <1>4, <1>5, <1>6, <2>2 DEF Once
    <2> QED
      BY <2>1, <2>2
  <1>9. ASSUME g.key = k
        PROVE  /\ OwnStored(new, q, k, f, n, c, i)
               /\ c > MaxDist => Once(new, k)
    <2>1. OwnInHand(tab, p, k, g, i, d)
      BY <1>9 DEF OldAndNew
    <2>2. /\ Has(new, i, k) /\ Newer(new[i], f)
          /\ \A t \in Slots : t # i /\ new[t] # NoEntry => Newer(new[i], new[t])
      BY <1>1, <1>9, <2>1 DEF OwnInHand
    <2>3. \A t \in Slots : t # i /\ Has(new, t, k)
                             => /\ Ahead(q, k, t, n, c) /\ c <= MaxDist
                                /\ Distance(Home[k], i) < Distance(Home[k], n)
      BY <1>1, <1>2, <2>1 DEF OwnInHand
    <2>4. \A s, t \in Slots : /\ s # i /\ Has(new, s, k)
                              /\ t # i /\ Has(new, t, k)
                              => s = t
      BY <1>1, <2>1 DEF OwnInHand, Once
    <2>5. c > MaxDist => Once(new, k)
      BY <1>3, <2>3 DEF Once
    <2> QED
      BY <2>2, <2>3, <2>4, <2>5 DEF OwnStored
  <1>10. ASSUME g.key # k
         PROVE  /\ \E j \in Slots : OwnStored(new, q, k, f, n, c, j)
                /\ c > MaxDist => Once(new, k)
    <2>1. PICK j \in Slots : OwnStored(tab, p, k, g, i, d, j)
      BY <1>10 DEF OldAndNew
    <2>2. j # i
      BY <2>1 DEF OwnStored
    <2>3. /\ Has(new, j, k) /\ Newer(new[j], f)
          /\ \A t \in Slots : t # j /\ new[t] # NoEntry => Newer(new[j], new[t])
      BY <1>1, <2>1, <2>2 DEF OwnStored
    <2>4. \A t \in Slots : t # j /\ Has(new, t, k)
                             => /\ Ahead(q, k, t, n, c) /\ c <= MaxDist
                                /\ Distance(Home[k], j) < Distance(Home[k], n)
      BY <1>1, <1>2, <1>10, <1>12, <2>1 DEF OwnStored
    <2>5. \A s, t \in Slots : /\ s # j /\ Has(new, s, k)
                              /\ t # j /\ Has(new, t, k)
                              => s = t
      BY <1>1, <1>10, <2>1 DEF OwnStored
    <2>6. c > MaxDist => Once(new, k)
      BY <1>3, <2>4 DEF Once
    <2>7. OwnStored(new, q, k, f, n, c, j)
      BY <2>3, <2>4, <2>5 DEF OwnStored
    <2> QED
      BY <2>6, <2>7
  <1>11. OldAndNew(new, q, k, f, n, c)
    BY <1>1, <1>7, <1>8, <1>9, <1>10 DEF OldAndNew
  <1> QED
    BY <1>7, <1>9, <1>10, <1>11

(* An empty slot takes the hand.                                            *)
LEMMA CopiesInsert ==
  ASSUME NEW tab \in Tables, NEW p \in [Slots -> Nat], EntriesOnWay(tab, p),
         NEW k \in Keys, NEW g \in Entry, NEW i \in Slots, NEW d \in Nat,
         OldAndNew(tab, p, k, g, i, d), tab[i] = NoEntry,
         NEW new \in Tables, Changed(new, tab, i, g)
  PROVE  \A x \in Keys : Once(new, x)
  <1>1. /\ g # NoEntry /\ g.key \in Keys
        /\ \A x : Has(new, i, x) <=> x = g.key
        /\ \A x : \A s \in Slots : s # i => (Has(new, s, x) <=> Has(tab, s, x))
        /\ \A x : ~Has(tab, i, x)
    BY NullAssumption DEF Changed, Has, Entry
  <1>2. \A t \in Slots : Has(tab, t, k) => ~Ahead(p, k, t, i, d)
    BY <1>1, OldWay
  <1>3. ASSUME NEW x \in Keys \ {k} PROVE Once(new, x)
    <2>1. CASE x = g.key
      <3>1. \A t \in Slots : ~Has(tab, t, x)
        BY <2>1 DEF OldAndNew
      <3> QED
        BY <1>1, <3>1 DEF Once
    <2>2. CASE x # g.key
      BY <1>1, <2>2 DEF Once, OldAndNew
    <2> QED
      BY <2>1, <2>2
  <1>4. Once(new, k)
    <2>1. CASE g.key = k
      BY <1>1, <1>2, <2>1 DEF OldAndNew, OwnInHand, Once
    <2>2. CASE g.key # k
      BY <1>1, <1>2, <2>2 DEF OldAndNew, OwnStored, Once
    <2> QED
      BY <2>1, <2>2
  <1> QED
    BY <1>3, <1>4

(* An upsert of k meets an entry of k: its own, which stays, or the old     *)
(* one, which the hand replaces.                                            *)
LEMMA CopiesUpdate ==
  ASSUME NEW tab \in Tables, NEW p \in [Slots -> Nat], EntriesOnWay(tab, p),
         NEW k \in Keys, NEW g \in Entry, NEW i \in Slots, NEW d \in Nat,
         HandNewer(tab, p, g, i, d), OldAndNew(tab, p, k, g, i, d), Has(tab, i, k)
  PROVE  \/ /\ SequenceNewer(g.seq, tab[i].seq)
            /\ Newer(g, tab[i])
            /\ d <= p[i]
            /\ \A new \in Tables : Changed(new, tab, i, g) =>
                 \A x \in Keys : Once(new, x)
         \/ /\ ~SequenceNewer(g.seq, tab[i].seq)
            /\ \A x \in Keys : Once(tab, x)
  <1>1. /\ g # NoEntry /\ g.key \in Keys
        /\ \A x : Has(tab, i, x) <=> x = k
    BY NullAssumption DEF Has, Entry
  <1>2. Ahead(p, k, i, i, d) => d <= p[i]
    <2>1. /\ HomeOf(tab[i]) = Home[k] /\ tab[i] # NoEntry
      BY DEF Has, HomeOf
    <2> QED
      BY <2>1 DEF EntriesOnWay, Ahead
  <1>3. ASSUME g.key = k
        PROVE  /\ Newer(g, tab[i]) /\ d <= p[i]
               /\ \A new \in Tables : Changed(new, tab, i, g) =>
                    \A x \in Keys : Once(new, x)
    <2>1. OwnInHand(tab, p, k, g, i, d)
      BY <1>3 DEF OldAndNew
    <2>2. Newer(g, tab[i]) /\ d <= p[i]
      BY <1>1, <1>2, <2>1 DEF OwnInHand, Has
    <2>3. ASSUME NEW new \in Tables, Changed(new, tab, i, g), NEW x \in Keys
          PROVE  Once(new, x)
      <3>1. \A s \in Slots : Has(new, s, x) <=> Has(tab, s, x)
        BY <1>1, <1>3, <2>3 DEF Changed, Has
      <3>2. Once(tab, x)
        BY <2>1 DEF OldAndNew, OwnInHand
      <3> QED
        BY <3>1, <3>2 DEF Once
    <2> QED
      BY <2>2, <2>3
  <1>4. ASSUME g.key # k
        PROVE  \/ /\ Newer(g, tab[i]) /\ d <= p[i]
                  /\ \A new \in Tables : Changed(new, tab, i, g) =>
                       \A x \in Keys : Once(new, x)
               \/ /\ Newer(tab[i], g)
                  /\ \A x \in Keys : Once(tab, x)
    <2>1. PICK j \in Slots : OwnStored(tab, p, k, g, i, d, j)
      BY <1>4 DEF OldAndNew
    <2>2. \A t \in Slots : ~Has(tab, t, g.key)
      BY <1>4 DEF OldAndNew
    <2>3. CASE j = i
      <3>1. \A t \in Slots : t # i => ~Has(tab, t, k)
        BY <2>1, <2>3, HomeIsSlot, DistanceRange DEF OwnStored
      <3> QED
        BY <2>1, <2>3, <3>1 DEF OwnStored, OldAndNew, Once
    <2>4. CASE j # i
      <3>1. Ahead(p, k, i, i, d)
        BY <2>1, <2>4 DEF OwnStored
      <3>2. Newer(g, tab[i])
        <4>1. /\ HomeOf(tab[i]) = Home[k] /\ tab[i] # NoEntry
              /\ d = Chain(Home[k], p)[i]
          BY <3>1 DEF Has, HomeOf, Ahead
        <4>2. Distance(Home[k], i) <= Distance(Home[k], i)
          BY HomeIsSlot, DistanceRange
        <4> QED
          BY <4>1, <4>2 DEF HandNewer
      <3>3. ASSUME NEW new \in Tables, Changed(new, tab, i, g), NEW x \in Keys
            PROVE  Once(new, x)
        <4>1. /\ \A s \in Slots : s # i => (Has(new, s, x) <=> Has(tab, s, x))
              /\ Has(new, i, x) <=> x = g.key
          BY <1>1, <3>3 DEF Changed, Has
        <4>2. CASE x = g.key
          BY <2>2, <4>1, <4>2 DEF Once
        <4>3. CASE x = k
          BY <1>1, <1>4, <2>1, <2>4, <4>1, <4>3 DEF OwnStored, Once
        <4>4. CASE x # k /\ x # g.key
          BY <4>1, <4>4 DEF OldAndNew, Once
        <4> QED
          BY <4>2, <4>3, <4>4
      <3> QED
        BY <1>2, <3>1, <3>2, <3>3
    <2> QED
      BY <2>3, <2>4
  <1> QED
    BY <1>3, <1>4, LaterIsNewer DEF Newer

-----------------------------------------------------------------------------
(* The invariant, and the steps that start or end an upsert. *)

Allocated(s) == \E n \in 0 .. global_sequence - 1 : s = Number(n)

(* Upserts come in the order of their sequences.                            *)
SequencesInOrder ==
  /\ \A t \in Slots : entries[t] # NoEntry => Allocated(entries[t].seq)
  /\ op # NoOp => Allocated(op.hand.seq)
  /\ \A s \in pending :
       /\ pending = {s}
       /\ op = NoOp
       /\ Allocated(s)
       /\ \A t \in Slots : entries[t] # NoEntry => AllocatedLater(s, entries[t].seq)

HandInv ==
  op # NoOp =>
    /\ HandOnWay(entries, psl, op.hand, op.idx, op.dist)
    /\ HandNewer(entries, psl, op.hand, op.idx, op.dist)
    /\ OldAndNew(entries, psl, op.key, op.hand, op.idx, op.dist)

OnceInv == /\ TypeOK
           /\ SequencesInOrder
           /\ EmptyIsZero
           /\ EntriesOnWay(entries, psl)
           /\ op = NoOp => \A k \in Keys : Once(entries, k)
           /\ HandInv

LEMMA OnceType ==
  ASSUME TypeOK
  PROVE  entries \in Tables /\ psl \in [Slots -> Nat]
  BY TableAssumption DEF TypeOK, Tables

(* Sequences stay in order when the entries of the table and the hand are   *)
(* among those that were there and in hand.                                 *)
LEMMA OrderKept ==
  ASSUME TypeOK, SequencesInOrder, op # NoOp,
         UNCHANGED <<global_sequence, pending>>,
         \A t \in Slots : entries'[t] # NoEntry =>
           \/ entries'[t] = op.hand
           \/ \E s \in Slots : entries[s] # NoEntry /\ entries'[t] = entries[s],
         op' # NoOp => \/ op'.hand = op.hand
                       \/ \E s \in Slots : entries[s] # NoEntry /\ op'.hand = entries[s]
  PROVE  SequencesInOrder'
  <1>1. pending = {} /\ Allocated(op.hand.seq)
    BY DEF SequencesInOrder
  <1>2. \A s \in Slots : entries[s] # NoEntry => Allocated(entries[s].seq)
    BY DEF SequencesInOrder
  <1>3. \A t \in Slots : entries'[t] # NoEntry => Allocated(entries'[t].seq)
    BY <1>1, <1>2
  <1>4. op' # NoOp => Allocated(op'.hand.seq)
    BY <1>1, <1>2
  <1>5. \A s : Allocated(s) => Allocated(s)'
    BY DEF Allocated
  <1> QED
    BY <1>1, <1>3, <1>4, <1>5 DEF SequencesInOrder

LEMMA OnceInit == Init => OnceInv
  <1> SUFFICES ASSUME Init PROVE OnceInv
    OBVIOUS
  <1>1. TypeOK
    BY TypeInit
  <1>2. \A t \in Slots : entries[t] = NoEntry
    BY DEF Init
  <1> QED
    BY <1>1, <1>2 DEF Init, OnceInv, SequencesInOrder, EntriesOnWay, HandInv,
                      EmptyIsZero, Once, Has

LEMMA OnceAllocate ==
  ASSUME OnceInv, TypeOK', MaxPending = 1, AllocateSequence
  PROVE  OnceInv'
  <1>1. pending = {}
    <2>1. IsFiniteSet(pending)
      <3>1. IsFiniteSet(0 .. Modulus - 1)
        BY FS_Interval, SequenceAssumption
      <3> QED
        BY <3>1, FS_Subset DEF OnceInv, TypeOK
    <2>2. Cardinality(pending) < 1
      BY DEF AllocateSequence
    <2>3. Cardinality(pending) \in Nat
      BY <2>1, FS_CardinalityType
    <2> QED
      BY <2>1, <2>2, <2>3, FS_EmptySet
  <1>2. PICK n \in 0 .. MaxSequence - 1 : n = global_sequence
    BY SequenceAssumption DEF AllocateSequence, OnceInv, TypeOK
  <1>3. /\ pending' = {Number(n)} /\ global_sequence' = n + 1
        /\ UNCHANGED <<entries, psl, op>> /\ op = NoOp
    BY <1>1, <1>2 DEF AllocateSequence
  <1>4. \A s : Allocated(s) => Allocated(s)' /\ AllocatedLater(Number(n), s)
    <2>1. SUFFICES ASSUME NEW s, Allocated(s)
                   PROVE  Allocated(s)' /\ AllocatedLater(Number(n), s)
      OBVIOUS
    <2>2. PICK m \in 0 .. global_sequence - 1 : s = Number(m)
      BY <2>1 DEF Allocated
    <2>3. m \in 0 .. MaxSequence - 1 /\ m < n /\ m \in 0 .. (n + 1) - 1
      BY <1>2, <2>2, SequenceAssumption
    <2>4. Allocated(s)'
      BY <1>3, <2>2, <2>3 DEF Allocated
    <2> QED
      BY <2>2, <2>3, <2>4 DEF AllocatedLater
  <1>5. Allocated(Number(n))'
    BY <1>3 DEF Allocated
  <1>6. SequencesInOrder'
    BY <1>3, <1>4, <1>5 DEF SequencesInOrder, OnceInv
  <1> QED
    BY <1>3, <1>6 DEF OnceInv, HandInv, EmptyIsZero

LEMMA OnceBegin ==
  ASSUME OnceInv, TypeOK', NEW k \in Keys, NEW s \in pending, BeginUpsert(k, s)
  PROVE  OnceInv'
  <1> DEFINE g == [key |-> k, seq |-> s, deleted |-> FALSE]
  <1>1. /\ op' = [key |-> k, hand |-> g, idx |-> Home[k], dist |-> 0]
        /\ op = NoOp /\ pending' = {} /\ UNCHANGED <<entries, psl, global_sequence>>
    <2>1. pending = {s}
      BY DEF OnceInv, SequencesInOrder
    <2> QED
      BY <2>1 DEF BeginUpsert
  <1>2. /\ g.seq = s /\ g.key = k /\ HomeOf(g) = Home[k] /\ g \in Entry
        /\ Home[k] \in Slots
        /\ \A t \in Slots : Distance(Home[k], t) \in Nat
        /\ Distance(Home[k], Home[k]) = 0
    BY HomeIsSlot, DistanceRange DEF HomeOf, Entry, OnceInv, TypeOK
  <1>3. psl \in [Slots -> Nat] /\ entries \in Tables
    BY OnceType DEF OnceInv
  <1>4. Allocated(s) /\ \A t \in Slots : entries[t] # NoEntry => Newer(g, entries[t])
    BY <1>2 DEF OnceInv, SequencesInOrder, Newer
  <1> HIDE DEF g
  <1>5. SequencesInOrder'
    BY <1>1, <1>2, <1>4 DEF OnceInv, SequencesInOrder, Allocated
  <1>6. HandOnWay(entries, psl, g, Home[k], 0)
    BY <1>2, <1>3, ChainAt DEF HandOnWay, Way
  <1>7. HandNewer(entries, psl, g, Home[k], 0)
    BY <1>4 DEF HandNewer
  <1>8. OldAndNew(entries, psl, k, g, Home[k], 0)
    <2>1. \A x \in Keys : Once(entries, x)
      BY <1>1 DEF OnceInv
    <2>2. \A t \in Slots : Ahead(psl, k, t, Home[k], 0)
      BY <1>2, <1>3, ChainAt DEF Ahead
    <2> QED
      BY <1>2, <1>4, <2>1, <2>2 DEF OldAndNew, OwnInHand
  <1>9. HandInv'
    BY <1>1, <1>6, <1>7, <1>8 DEF HandInv
  <1>10. op' # NoOp
    BY <1>1, <1>2, NullAssumption, TableAssumption DEF Op
  <1> QED
    BY <1>1, <1>5, <1>9, <1>10 DEF OnceInv, EmptyIsZero

LEMMA OnceRemove ==
  ASSUME OnceInv, TypeOK', NEW k \in Keys, Remove(k)
  PROVE  OnceInv'
  <1>1. PICK m \in Slots : m = FindSlot(k) /\ entries[m] # NoEntry
    BY FoundSlot DEF Remove, IsLive
  <1>2. /\ entries' = [entries EXCEPT ![m].deleted = TRUE] /\ op = NoOp
        /\ UNCHANGED <<psl, op, global_sequence, pending>>
    BY <1>1 DEF Remove
  <1>3. ASSUME NEW t \in Slots
        PROVE  /\ entries'[t] = NoEntry <=> entries[t] = NoEntry
               /\ entries[t] # NoEntry => /\ entries'[t].key = entries[t].key
                                          /\ entries'[t].seq = entries[t].seq
    <2>1. CASE t # m
      BY <1>2, <2>1 DEF OnceInv, TypeOK
    <2>2. CASE t = m
      <3>1. entries[m] \in Entry
        BY <1>1 DEF OnceInv, TypeOK
      <3>2. entries'[m] = [entries[m] EXCEPT !.deleted = TRUE]
        BY <1>2 DEF OnceInv, TypeOK
      <3>3. /\ entries'[m].key = entries[m].key /\ entries'[m].seq = entries[m].seq
            /\ entries'[m] \in Entry
        BY <3>1, <3>2 DEF Entry
      <3> QED
        BY <1>1, <2>2, <3>3, NullAssumption
    <2> QED
      BY <2>1, <2>2
  <1>4. SequencesInOrder'
    <2>1. \A s : Allocated(s)' <=> Allocated(s)
      BY <1>2 DEF Allocated
    <2> QED
      BY <1>2, <1>3, <2>1 DEF OnceInv, SequencesInOrder
  <1>5. EntriesOnWay(entries, psl)'
    BY <1>2, <1>3 DEF OnceInv, EntriesOnWay, Way, HomeOf, Newer
  <1>6. \A x \in Keys : Once(entries, x)'
    BY <1>2, <1>3 DEF OnceInv, Once, Has
  <1> QED
    BY <1>2, <1>3, <1>4, <1>5, <1>6 DEF OnceInv, HandInv, EmptyIsZero

(* The locals of an upsert, by the names of the lemmas above.               *)
LEMMA Running ==
  ASSUME OnceInv, op # NoOp
  PROVE  \E k \in Keys, g \in Entry, i \in Slots, d \in 0 .. MaxDist :
           /\ k = op.key /\ g = op.hand /\ i = op.idx /\ d = op.dist /\ d \in Nat
           /\ HandOnWay(entries, psl, g, i, d)
           /\ HandNewer(entries, psl, g, i, d)
           /\ OldAndNew(entries, psl, k, g, i, d)
  <1>1. /\ op.key \in Keys /\ op.hand \in Entry /\ op.idx \in Slots
        /\ op.dist \in 0 .. MaxDist
    BY OpType DEF OnceInv
  <1> QED
    BY <1>1, TableAssumption DEF OnceInv, HandInv

LEMMA OnceInsert ==
  ASSUME OnceInv, TypeOK', InsertHere
  PROVE  OnceInv'
  <1>1. op # NoOp /\ op' = NoOp /\ UNCHANGED <<global_sequence, pending>>
    BY DEF InsertHere
  <1>2. PICK k \in Keys, g \in Entry, i \in Slots, d \in 0 .. MaxDist :
          /\ k = op.key /\ g = op.hand /\ i = op.idx /\ d = op.dist /\ d \in Nat
          /\ HandOnWay(entries, psl, g, i, d)
          /\ HandNewer(entries, psl, g, i, d)
          /\ OldAndNew(entries, psl, k, g, i, d)
    BY <1>1, Running
  <1>3. /\ entries \in Tables /\ psl \in [Slots -> Nat]
        /\ entries' \in Tables /\ psl' \in [Slots -> Nat]
    BY OnceType, TableAssumption DEF OnceInv, TypeOK, Tables
  <1>4. /\ entries[i] = NoEntry
        /\ Changed(entries', entries, i, g) /\ Changed(psl', psl, i, d + 1)
    BY <1>2, <1>3 DEF InsertHere, Changed, Tables
  <1>5. psl[i] = 0 /\ d + 1 \in Nat /\ d + 1 >= psl[i] /\ d + 1 >= d
    BY <1>2, <1>4 DEF OnceInv, EmptyIsZero
  <1>6. EntriesOnWay(entries, psl)
    BY DEF OnceInv
  <1>7. EntriesOnWay(entries', psl')
    <2>1. \A t \in Slots :
            /\ entries[t] # NoEntry
            /\ Distance(HomeOf(entries[t]), i) < Distance(HomeOf(entries[t]), t)
            /\ d + 1 = Chain(HomeOf(entries[t]), psl)[i]
            => Newer(g, entries[t])
      BY <1>4, <1>6 DEF EntriesOnWay, Way
    <2> QED
      BY <1>2, <1>3, <1>4, <1>5, <1>6, <2>1, StoreOnWay
  <1>8. \A x \in Keys : Once(entries', x)
    BY <1>2, <1>3, <1>4, <1>6, CopiesInsert
  <1>9. SequencesInOrder'
    <2>1. \A t \in Slots : t # i => entries'[t] = entries[t]
      BY <1>4 DEF Changed
    <2>2. entries'[i] = op.hand
      BY <1>2, <1>4 DEF Changed
    <2> QED
      BY <1>1, <2>1, <2>2, OrderKept DEF OnceInv
  <1>10. EmptyIsZero'
    BY <1>2, <1>4, NullAssumption DEF Changed, OnceInv, EmptyIsZero
  <1> QED
    BY <1>1, <1>7, <1>8, <1>9, <1>10 DEF OnceInv, HandInv

-----------------------------------------------------------------------------
(* The steps of an upsert, and the theorem. *)

LEMMA OnceUpdate ==
  ASSUME OnceInv, TypeOK', UpdateHere
  PROVE  OnceInv'
  <1>1. op # NoOp /\ op' = NoOp /\ UNCHANGED <<psl, global_sequence, pending>>
    BY DEF UpdateHere
  <1>2. PICK k \in Keys, g \in Entry, i \in Slots, d \in 0 .. MaxDist :
          /\ k = op.key /\ g = op.hand /\ i = op.idx /\ d = op.dist /\ d \in Nat
          /\ HandOnWay(entries, psl, g, i, d)
          /\ HandNewer(entries, psl, g, i, d)
          /\ OldAndNew(entries, psl, k, g, i, d)
    BY <1>1, Running
  <1>3. /\ entries \in Tables /\ psl \in [Slots -> Nat] /\ psl[i] \in Nat
        /\ entries' \in Tables /\ EntriesOnWay(entries, psl)
    BY OnceType DEF OnceInv, TypeOK, Tables
  <1>4. Has(entries, i, k)
    BY <1>2 DEF UpdateHere, SameKey, Has
  <1>5. CASE /\ SequenceNewer(g.seq, entries[i].seq)
             /\ Newer(g, entries[i])
             /\ d <= psl[i]
             /\ \A new \in Tables : Changed(new, entries, i, g) =>
                  \A x \in Keys : Once(new, x)
    <2>1. Changed(entries', entries, i, g) /\ Changed(psl', psl, i, psl[i])
      BY <1>1, <1>2, <1>3, <1>5 DEF UpdateHere, Changed, Tables
    <2>2. ASSUME NEW t \in Slots, entries[t] # NoEntry,
                 Distance(HomeOf(entries[t]), i) < Distance(HomeOf(entries[t]), t),
                 psl[i] = Chain(HomeOf(entries[t]), psl)[i]
          PROVE  Newer(g, entries[t])
      <3>1. Newer(entries[i], entries[t])
        BY <1>3, <2>2 DEF EntriesOnWay, Way
      <3> QED
        BY <1>5, <3>1, LaterTransitive DEF Newer
    <2>3. EntriesOnWay(entries', psl)
      <3>1. psl[i] >= psl[i] /\ psl[i] >= d /\ Changed(psl, psl, i, psl[i])
        BY <1>3, <1>5, <2>1 DEF Changed
      <3> QED
        BY <1>2, <1>3, <2>1, <2>2, <3>1, StoreOnWay
    <2>4. SequencesInOrder'
      <3>1. \A t \in Slots : t # i => entries'[t] = entries[t]
        BY <2>1 DEF Changed
      <3>2. entries'[i] = op.hand
        BY <1>2, <2>1 DEF Changed
      <3> QED
        BY <1>1, <3>1, <3>2, OrderKept DEF OnceInv
    <2>5. EmptyIsZero'
      BY <1>1, <2>1, NullAssumption DEF Changed, OnceInv, EmptyIsZero
    <2> QED
      BY <1>1, <1>3, <1>5, <2>1, <2>3, <2>4, <2>5 DEF OnceInv, HandInv
  <1>6. CASE /\ ~SequenceNewer(g.seq, entries[i].seq)
             /\ \A x \in Keys : Once(entries, x)
    <2>1. entries' = entries
      BY <1>2, <1>6 DEF UpdateHere
    <2>2. SequencesInOrder'
      BY <1>1, <2>1, OrderKept DEF OnceInv
    <2> QED
      BY <1>1, <1>6, <2>1, <2>2 DEF OnceInv, HandInv, EmptyIsZero
  <1> QED
    BY <1>2, <1>3, <1>4, <1>5, <1>6, CopiesUpdate

(* An upsert goes on with e in hand, or gives up.                           *)
LEMMA HandGoesOn ==
  ASSUME TypeOK, op # NoOp, NEW e \in Entry, NEW c \in Nat, Advance(e, c),
         HandOnWay(entries', psl', e, NextSlot(op.idx), c),
         HandNewer(entries', psl', e, NextSlot(op.idx), c),
         OldAndNew(entries', psl', op.key, e, NextSlot(op.idx), c),
         c > MaxDist => \A x \in Keys : Once(entries', x)
  PROVE  /\ HandInv'
         /\ op' = NoOp => \A x \in Keys : Once(entries', x)
         /\ op' # NoOp => op'.hand = e
  <1>1. CASE c > MaxDist /\ op' = NoOp
    BY <1>1 DEF HandInv
  <1>2. CASE /\ c <= MaxDist
             /\ op' = [op EXCEPT !.hand = e, !.idx = NextSlot(op.idx), !.dist = c]
    <2>1. op' = [key |-> op.key, hand |-> e, idx |-> NextSlot(op.idx), dist |-> c]
      BY <1>2, OpType DEF Op
    <2>2. op' # NoOp
      <3>1. op' \in Op
        BY <1>2, <2>1, OpType, TableAssumption DEF Op
      <3> QED
        BY <3>1, NullAssumption
    <2> QED
      BY <2>1, <2>2 DEF HandInv
  <1> QED
    BY <1>1, <1>2 DEF Advance

LEMMA OncePassBy ==
  ASSUME OnceInv, TypeOK', PassBy
  PROVE  OnceInv'
  <1>1. /\ op # NoOp /\ UNCHANGED <<entries, psl, global_sequence, pending>>
    BY DEF PassBy, Elsewhere
  <1>2. PICK k \in Keys, g \in Entry, i \in Slots, d \in 0 .. MaxDist :
          /\ k = op.key /\ g = op.hand /\ i = op.idx /\ d = op.dist /\ d \in Nat
          /\ HandOnWay(entries, psl, g, i, d)
          /\ HandNewer(entries, psl, g, i, d)
          /\ OldAndNew(entries, psl, k, g, i, d)
    BY <1>1, Running
  <1>3. /\ entries \in Tables /\ psl \in [Slots -> Nat]
        /\ EntriesOnWay(entries, psl)
    BY OnceType DEF OnceInv
  <1>4. /\ entries[i] # NoEntry /\ ~Has(entries, i, k) /\ psl[i] >= d + 1
        /\ Advance(g, d + 1)
    BY <1>2 DEF PassBy, Elsewhere, SameKey, Has
  <1>5. /\ HandOnWay(entries, psl, g, NextSlot(i), d + 1)
        /\ HandNewer(entries, psl, g, NextSlot(i), d + 1)
    BY <1>2, <1>3, <1>4, PassByOnWay
  <1>6. /\ OldAndNew(entries, psl, k, g, NextSlot(i), d + 1)
        /\ d + 1 > MaxDist => \A x \in Keys : Once(entries, x)
    BY <1>2, <1>3, <1>4, CopiesPassBy
  <1>7. entries' = entries /\ psl' = psl /\ d + 1 \in Nat /\ TypeOK
    BY <1>1 DEF OnceInv
  <1>8. /\ HandInv'
        /\ op' = NoOp => \A x \in Keys : Once(entries', x)
        /\ op' # NoOp => op'.hand = g
    BY <1>1, <1>2, <1>4, <1>5, <1>6, <1>7, HandGoesOn
  <1>9. SequencesInOrder'
    BY <1>1, <1>2, <1>8, OrderKept DEF OnceInv
  <1> QED
    BY <1>1, <1>3, <1>8, <1>9 DEF OnceInv, EmptyIsZero

LEMMA OnceDisplace ==
  ASSUME OnceInv, TypeOK', Displace
  PROVE  OnceInv'
  <1>1. op # NoOp /\ UNCHANGED <<global_sequence, pending>>
    BY DEF Displace, Elsewhere
  <1>2. PICK k \in Keys, g \in Entry, i \in Slots, d \in 0 .. MaxDist :
          /\ k = op.key /\ g = op.hand /\ i = op.idx /\ d = op.dist /\ d \in Nat
          /\ HandOnWay(entries, psl, g, i, d)
          /\ HandNewer(entries, psl, g, i, d)
          /\ OldAndNew(entries, psl, k, g, i, d)
    BY <1>1, Running
  <1>3. /\ entries \in Tables /\ psl \in [Slots -> Nat]
        /\ entries' \in Tables /\ psl' \in [Slots -> Nat]
        /\ EntriesOnWay(entries, psl) /\ TypeOK
    BY OnceType, TableAssumption DEF OnceInv, TypeOK, Tables
  <1>4. entries[i] # NoEntry /\ ~Has(entries, i, k) /\ psl[i] < d + 1
    BY <1>2 DEF Displace, Elsewhere, SameKey, Has
  <1>40. /\ entries' = [entries EXCEPT ![i] = g]
         /\ psl' = [psl EXCEPT ![i] = d]
         /\ Advance(entries[i], psl[i] + 2)
    BY <1>2 DEF Displace
  <1>5. Changed(entries', entries, i, g) /\ Changed(psl', psl, i, d)
    BY <1>3, <1>40 DEF Changed, Tables
  <1>6. PICK f \in Entry, c \in Nat : f = entries[i] /\ c = psl[i] + 2
    BY <1>3, <1>4 DEF Tables
  <1>8. /\ EntriesOnWay(entries', psl')
        /\ HandOnWay(entries', psl', f, NextSlot(i), c)
        /\ HandNewer(entries', psl', f, NextSlot(i), c)
    BY <1>2, <1>3, <1>4, <1>5, <1>6, DisplaceOnWay
  <1>9. /\ OldAndNew(entries', psl', k, f, NextSlot(i), c)
        /\ c > MaxDist => \A x \in Keys : Once(entries', x)
    BY <1>2, <1>3, <1>4, <1>5, <1>6, CopiesDisplace
  <1>10. /\ HandInv'
         /\ op' = NoOp => \A x \in Keys : Once(entries', x)
         /\ op' # NoOp => op'.hand = f
    BY <1>1, <1>2, <1>3, <1>40, <1>6, <1>8, <1>9, HandGoesOn
  <1>11. SequencesInOrder'
    <2>1. \A t \in Slots : t # i => entries'[t] = entries[t]
      BY <1>5 DEF Changed
    <2>2. entries'[i] = op.hand
      BY <1>2, <1>5 DEF Changed
    <2> QED
      BY <1>1, <1>3, <1>4, <1>40, <1>6, <1>10, <2>1, <2>2, OrderKept DEF OnceInv
  <1>12. EmptyIsZero'
    BY <1>5, NullAssumption DEF Changed, OnceInv, EmptyIsZero
  <1> QED
    BY <1>3, <1>8, <1>10, <1>11, <1>12 DEF OnceInv

LEMMA OnceNext ==
  ASSUME MaxPending = 1, OnceInv, [Next]_vars
  PROVE  OnceInv'
  <1>1. TypeOK'
    BY TypeNext DEF OnceInv
  <1>2. CASE UNCHANGED vars
    <2>1. \A s : Allocated(s)' <=> Allocated(s)
      BY <1>2 DEF vars, Allocated
    <2> QED
      BY <1>1, <1>2, <2>1 DEF vars, OnceInv, SequencesInOrder, EmptyIsZero, HandInv
  <1> QED
    BY <1>1, <1>2, OnceAllocate, OnceBegin, OnceRemove, OnceInsert, OnceUpdate,
       OncePassBy, OnceDisplace DEF Next, Calls, Probe

(* When upserts come in the order of their sequences, no key keeps two      *)
(* entries: an upsert of k that has put its entry in front of the old one   *)
(* overwrites that before it returns, or gives up only when there is none   *)
(* (upsert, remove of MemIndex).                                            *)
THEOREM EveryKeyOnce ==
  ASSUME MaxPending = 1
  PROVE  Spec => []OneEntryPerKey
  <1>1. Spec => []OnceInv
    BY OnceInit, OnceNext, PTL DEF Spec
  <1>2. OnceInv => OneEntryPerKey
    <2> SUFFICES ASSUME OnceInv, op = NoOp, NEW i \in Slots, NEW j \in Slots,
                        entries[i] # NoEntry, entries[j] # NoEntry,
                        entries[i].key = entries[j].key
                 PROVE  i = j
      BY DEF OneEntryPerKey
    <2>1. entries[i].key \in Keys
      BY DEF OnceInv, TypeOK, Entry
    <2> QED
      BY <2>1 DEF OnceInv, Once, Has
  <1> QED
    BY <1>1, <1>2, PTL

-----------------------------------------------------------------------------
(* The table as a map: a key stands for the newest of its copies.           *)

(* The entry of the call is in the table when another one is in hand, and   *)
(* the upsert does not come round to it.                                    *)
StoredBehind ==
  op # NoOp /\ op.hand.key # op.key =>
    \E j \in Slots :
      /\ Has(entries, j, op.key)
      /\ j # op.idx
      /\ \A t \in Slots : Distance(j, t) < Distance(j, op.idx) => entries[t] # NoEntry

MapInv == /\ OnceInv
          /\ op # NoOp => ok = TRUE
          /\ StoredBehind

MapStep == [Map!Next]_(Map!mapVars)

LEMMA CopyIs ==
  \A k, e : e \in Copies(k) <=>
    /\ e.key = k
    /\ \/ \E t \in Slots : entries[t] # NoEntry /\ e = entries[t]
       \/ op # NoOp /\ e = op.hand
  BY DEF Copies

LEMMA NewestIs ==
  ASSUME NEW C, NEW e \in C, \A f \in C : f = e \/ Newer(e, f)
  PROVE  Newest(C) = e
  <1> DEFINE P(c) == \A f \in C : f = c \/ AllocatedLater(c.seq, f.seq)
  <1>1. P(e)
    BY DEF Newer
  <1>2. \A c \in C : P(c) => c = e
    <2> SUFFICES ASSUME NEW c \in C, P(c), c # e PROVE FALSE
      OBVIOUS
    <2>1. AllocatedLater(c.seq, e.seq) /\ AllocatedLater(e.seq, c.seq)
      BY <1>1
    <2> QED
      BY <2>1, LaterIsNewer
  <1>3. Newest(C) = CHOOSE c \in C : P(c)
    BY DEF Newest
  <1> HIDE DEF P
  <1> QED
    BY <1>1, <1>2, <1>3

(* A step of the loop that the map does not see.                            *)
LEMMA Unseen ==
  ASSUME \A x \in Keys : EntryOf(x)' = EntryOf(x), UNCHANGED <<pending, ok>>
  PROVE  MapStep
  BY DEF MapStep, Map!mapVars

(* An upsert returns false and loses the entry of x.                        *)
LEMMA Lost ==
  ASSUME NEW x \in Keys, ok = TRUE, ok' = FALSE, UNCHANGED pending,
         Copies(x)' = {}, \A y \in Keys : y # x => Copies(y)' = Copies(y)
  PROVE  MapStep
  <1>1. EntryOf(x)' = NoEntry /\ \A y \in Keys : y # x => EntryOf(y)' = EntryOf(y)
    BY DEF EntryOf
  <1> DEFINE index == [y \in Keys |-> EntryOf(y)]
  <1>2. index' = [index EXCEPT ![x] = NoEntry]
    BY <1>1
  <1>3. Map!Refuse(x)
    BY <1>2 DEF Map!Refuse
  <1> QED
    BY <1>3 DEF MapStep, Map!Next

-----------------------------------------------------------------------------
LEMMA MapInit == Init => MapInv /\ Map!Init
  <1> SUFFICES ASSUME Init PROVE MapInv /\ Map!Init
    OBVIOUS
  <1>1. op = NoOp /\ pending = {} /\ ok = TRUE /\ \A t \in Slots : entries[t] = NoEntry
    BY DEF Init
  <1>2. \A x \in Keys : EntryOf(x) = NoEntry
    BY <1>1, CopyIs DEF EntryOf
  <1> QED
    BY <1>1, <1>2, OnceInit DEF MapInv, StoredBehind, Map!Init

LEMMA MapAllocate ==
  ASSUME MapInv, AllocateSequence, pending' \in SUBSET (0 .. Modulus - 1)
  PROVE  MapStep
  <1>1. \A x \in Keys : EntryOf(x)' = EntryOf(x)
    BY DEF AllocateSequence, EntryOf, Copies
  <1>2. PICK s \in 0 .. Modulus - 1 : s = Number(global_sequence)
    BY DEF AllocateSequence
  <1>3. pending' = pending \cup {s} /\ ok' = ok
    BY <1>2 DEF AllocateSequence
  <1>4. CASE s \in pending
    BY <1>1, <1>3, <1>4, Unseen
  <1>5. CASE s \notin pending
    <2>1. Map!Allocate(s)
      BY <1>1, <1>3, <1>5 DEF Map!Allocate
    <2> QED
      BY <2>1 DEF MapStep, Map!Next
  <1> QED
    BY <1>4, <1>5

LEMMA MapBegin ==
  ASSUME MapInv, NEW k \in Keys, NEW s \in pending, BeginUpsert(k, s)
  PROVE  MapStep /\ StoredBehind' /\ ok' = TRUE
  <1> DEFINE g == [key |-> k, seq |-> s, deleted |-> FALSE]
  <1>1. /\ op' # NoOp /\ op'.key = k /\ op'.hand = g /\ op = NoOp
        /\ UNCHANGED entries /\ pending' = pending \ {s} /\ ok' = TRUE
        /\ g.key = k /\ g.seq = s /\ g.deleted = FALSE
        /\ s \in 0 .. Modulus - 1
    <2>1. s \in 0 .. Modulus - 1 /\ g \in Entry
      BY DEF MapInv, OnceInv, TypeOK, Entry
    <2>2. op' \in Op
      BY <2>1, TableAssumption DEF BeginUpsert, Op
    <2> QED
      BY <2>1, <2>2, NullAssumption DEF BeginUpsert
  <1> HIDE DEF g
  <1>2. \A t \in Slots : entries[t] # NoEntry => Newer(g, entries[t])
    BY <1>1 DEF MapInv, OnceInv, SequencesInOrder, Newer
  <1>3. \A y \in Keys : y # k => EntryOf(y)' = EntryOf(y)
    BY <1>1 DEF EntryOf, Copies
  <1>4. EntryOf(k)' = [seq |-> s, deleted |-> FALSE]
    <2>1. g \in Copies(k)' /\ \A f \in Copies(k)' : f = g \/ Newer(g, f)
      BY <1>1, <1>2 DEF Copies
    <2>2. Newest(Copies(k)') = g
      BY <2>1, NewestIs
    <2>3. Newest(Copies(k))' = Newest(Copies(k)')
      BY DEF Newest, AllocatedLater, Number
    <2> QED
      BY <1>1, <2>1, <2>2, <2>3 DEF EntryOf
  <1>5. EntryOf(k) # NoEntry => AllocatedLater(s, EntryOf(k).seq)
    <2> SUFFICES ASSUME Copies(k) # {} PROVE AllocatedLater(s, EntryOf(k).seq)
      BY DEF EntryOf
    <2>1. PICK e : e \in Copies(k)
      OBVIOUS
    <2>2. \A f \in Copies(k) : \E t \in Slots : Has(entries, t, k) /\ f = entries[t]
      BY <1>1, CopyIs DEF Has
    <2>3. \A f \in Copies(k) : f = e
      BY <1>1, <2>1, <2>2 DEF MapInv, OnceInv, Once
    <2>4. Newest(Copies(k)) = e
      BY <2>1, <2>3, NewestIs
    <2>5. Newer(g, e)
      BY <1>2, <2>1, <2>2 DEF Has
    <2> QED
      BY <1>1, <2>4, <2>5 DEF EntryOf, Newer
  <1> DEFINE index == [y \in Keys |-> EntryOf(y)]
  <1>6. index' = [index EXCEPT ![k] = [seq |-> s, deleted |-> FALSE]]
    BY <1>3, <1>4
  <1>7. index[k] = EntryOf(k)
    OBVIOUS
  <1>8. Map!Upsert(k, s)
    BY <1>1, <1>5, <1>6, <1>7 DEF Map!Upsert
  <1>9. MapStep
    BY <1>1, <1>8 DEF MapStep, Map!Next
  <1>10. StoredBehind'
    BY <1>1 DEF StoredBehind
  <1> QED
    BY <1>1, <1>9, <1>10

LEMMA MapRemove ==
  ASSUME MapInv, NEW k \in Keys, Remove(k)
  PROVE  MapStep /\ StoredBehind' /\ (op' # NoOp => ok' = TRUE)
  <1>1. PICK m \in Slots : /\ m = FindSlot(k) /\ entries[m] # NoEntry
                           /\ entries[m].key = k /\ ~entries[m].deleted
    BY FoundSlot DEF Remove, IsLive
  <1>2. op = NoOp /\ UNCHANGED <<op, pending, ok>>
    BY DEF Remove
  <1>3. PICK e \in Entry : e = entries[m]
    BY <1>1 DEF MapInv, OnceInv, TypeOK
  <1>4. PICK d \in Entry : d.key = e.key /\ d.seq = e.seq /\ d.deleted = TRUE
    <2> DEFINE c == [key |-> e.key, seq |-> e.seq, deleted |-> TRUE]
    <2>1. c \in Entry /\ c.key = e.key /\ c.seq = e.seq /\ c.deleted = TRUE
      BY DEF Entry
    <2> QED
      BY <2>1
  <1>5. /\ entries'[m] = d /\ d # NoEntry
        /\ \A t \in Slots : t # m => entries'[t] = entries[t]
    <2>1. entries' = [entries EXCEPT ![m].deleted = TRUE]
      BY <1>1 DEF Remove
    <2>2. entries'[m] = [entries[m] EXCEPT !.deleted = TRUE]
      BY <2>1 DEF MapInv, OnceInv, TypeOK
    <2>3. /\ entries'[m].key = e.key /\ entries'[m].seq = e.seq
          /\ entries'[m].deleted = TRUE /\ entries'[m] \in Entry
      BY <1>3, <2>2 DEF Entry
    <2>4. entries'[m] = d
      BY <1>4, <2>3 DEF Entry
    <2>5. \A t \in Slots : t # m => entries'[t] = entries[t]
      BY <2>1 DEF MapInv, OnceInv, TypeOK
    <2> QED
      BY <2>4, <2>5, NullAssumption
  <1>6. \A t \in Slots : Has(entries, t, k) => t = m
    <2>1. Once(entries, k) /\ Has(entries, m, k)
      BY <1>1, <1>2 DEF MapInv, OnceInv, Has
    <2> QED
      BY <2>1 DEF Once
  <1>7. Copies(k) = {e} /\ Copies(k)' = {d}
    <2>1. \A f : f \in Copies(k) <=> f = e
      BY <1>1, <1>2, <1>3, <1>6, CopyIs DEF Has
    <2>2. \A f : f \in Copies(k)' <=> f = d
      BY <1>1, <1>2, <1>3, <1>4, <1>5, <1>6 DEF Has, Copies
    <2> QED
      BY <2>1, <2>2
  <1>8. \A y \in Keys : y # k => EntryOf(y)' = EntryOf(y)
    <2>1. \A y \in Keys : y # k => Copies(y)' = Copies(y)
      BY <1>1, <1>2, <1>3, <1>4, <1>5 DEF Copies
    <2> QED
      BY <2>1 DEF EntryOf
  <1>9. EntryOf(k) = [seq |-> e.seq, deleted |-> e.deleted]
    <2>1. Newest({e}) = e
      BY NewestIs
    <2> QED
      BY <1>7, <2>1 DEF EntryOf
  <1>10. EntryOf(k)' = [seq |-> e.seq, deleted |-> TRUE]
    <2>1. Newest({d}) = d
      BY NewestIs
    <2>2. Newest(Copies(k))' = Newest({d})
      BY <1>7 DEF Newest, AllocatedLater, Number
    <2> QED
      BY <1>4, <1>7, <2>1, <2>2 DEF EntryOf
  <1> DEFINE index == [y \in Keys |-> EntryOf(y)]
  <1>11. PICK r \in MapEntry : /\ r = [seq |-> e.seq, deleted |-> FALSE]
                               /\ r.seq = e.seq /\ r.deleted = FALSE
    <2> DEFINE c == [seq |-> e.seq, deleted |-> FALSE]
    <2>1. c \in MapEntry /\ c.seq = e.seq /\ c.deleted = FALSE
      BY DEF Entry, MapEntry
    <2> QED
      BY <2>1
  <1>12. index[k] = r /\ r # NoEntry
    BY <1>1, <1>3, <1>9, <1>11, NullAssumption DEF Entry
  <1>13. index' = [index EXCEPT ![k].deleted = TRUE]
    <2>1. [r EXCEPT !.deleted = TRUE] = [seq |-> e.seq, deleted |-> TRUE]
      <3> DEFINE c == [r EXCEPT !.deleted = TRUE]
                 v == [seq |-> e.seq, deleted |-> TRUE]
      <3>1. c \in MapEntry /\ c.seq = r.seq /\ c.deleted = TRUE
        BY DEF MapEntry
      <3>2. v \in MapEntry /\ v.seq = e.seq /\ v.deleted = TRUE
        BY DEF Entry, MapEntry
      <3> HIDE DEF c, v
      <3>3. c = v
        BY <1>11, <3>1, <3>2 DEF MapEntry
      <3> QED
        BY <3>3 DEF c, v
    <2>2. [index EXCEPT ![k].deleted = TRUE]
            = [index EXCEPT ![k] = [index[k] EXCEPT !.deleted = TRUE]]
      OBVIOUS
    <2>3. [index EXCEPT ![k].deleted = TRUE]
            = [index EXCEPT ![k] = [seq |-> e.seq, deleted |-> TRUE]]
      BY <1>12, <2>1, <2>2, Zenon
    <2>4. index' = [index EXCEPT ![k] = [seq |-> e.seq, deleted |-> TRUE]]
      BY <1>8, <1>10
    <2> QED
      BY <2>3, <2>4
  <1>14. Map!Remove(k)
    BY <1>2, <1>11, <1>12, <1>13 DEF Map!Remove
  <1>15. MapStep
    BY <1>14 DEF MapStep, Map!Next
  <1>16. StoredBehind'
    BY <1>2 DEF StoredBehind
  <1> QED
    BY <1>2, <1>15, <1>16

LEMMA MapInsert ==
  ASSUME MapInv, InsertHere
  PROVE  MapStep /\ StoredBehind' /\ (op' # NoOp => ok' = TRUE)
  <1>1. PICK g \in Entry, i \in Slots : g = op.hand /\ i = op.idx /\ g # NoEntry
    BY OpType, NullAssumption DEF MapInv, OnceInv, InsertHere
  <1>2. /\ op # NoOp /\ op' = NoOp /\ UNCHANGED <<pending, ok>>
        /\ entries[i] = NoEntry /\ entries'[i] = g
        /\ \A t \in Slots : t # i => entries'[t] = entries[t]
    BY <1>1 DEF InsertHere, MapInv, OnceInv, TypeOK
  <1>3. \A x \in Keys : Copies(x)' = Copies(x)
    BY <1>1, <1>2 DEF Copies
  <1>4. MapStep
    BY <1>2, <1>3, Unseen DEF EntryOf
  <1> QED
    BY <1>2, <1>4 DEF StoredBehind

(* The entry that is newer than all others of its key stands for it.        *)
LEMMA ValueIs ==
  ASSUME NEW C, NEW D, NEW e, e \in C, e \in D,
         \A f \in C : f = e \/ Newer(e, f),
         \A f \in D : f = e \/ Newer(e, f)
  PROVE  Newest(C) = Newest(D)
  BY NewestIs

LEMMA MapUpdate ==
  ASSUME MapInv, UpdateHere
  PROVE  MapStep /\ StoredBehind' /\ (op' # NoOp => ok' = TRUE)
  <1>1. op # NoOp /\ op' = NoOp /\ UNCHANGED <<pending, ok>>
    BY DEF UpdateHere
  <1>2. PICK k \in Keys, g \in Entry, i \in Slots, d \in 0 .. MaxDist :
          /\ k = op.key /\ g = op.hand /\ i = op.idx /\ d = op.dist /\ d \in Nat
          /\ HandOnWay(entries, psl, g, i, d)
          /\ HandNewer(entries, psl, g, i, d)
          /\ OldAndNew(entries, psl, k, g, i, d)
    BY <1>1, Running DEF MapInv
  <1>3. entries \in Tables /\ g # NoEntry /\ EntriesOnWay(entries, psl) /\ psl \in [Slots -> Nat]
    BY OnceType, NullAssumption DEF MapInv, OnceInv
  <1>4. Has(entries, i, k)
    BY <1>2 DEF UpdateHere, SameKey, Has
  <1>5. g.key # k =>
          \E j \in Slots : j # i /\ OwnStored(entries, psl, k, g, i, d, j)
    <2> SUFFICES ASSUME g.key # k
                 PROVE  \E j \in Slots : j # i /\ OwnStored(entries, psl, k, g, i, d, j)
      OBVIOUS
    <2>1. PICK j \in Slots : OwnStored(entries, psl, k, g, i, d, j)
      BY <1>2 DEF OldAndNew
    <2>2. PICK s \in Slots : Has(entries, s, k) /\ s # i
      BY <1>1, <1>2 DEF MapInv, StoredBehind
    <2>3. ASSUME j = i PROVE FALSE
      <3>1. Distance(Home[k], i) < Distance(Home[k], i)
        BY <2>1, <2>2, <2>3 DEF OwnStored
      <3>2. Distance(Home[k], i) \in Nat
        BY HomeIsSlot, DistanceRange
      <3> QED
        BY <3>1, <3>2
    <2> QED
      BY <2>1, <2>3
  <1>6. Newer(g, entries[i])
    <2>1. CASE g.key = k
      BY <1>2, <1>4, <2>1 DEF OldAndNew, OwnInHand, Has
    <2>2. CASE g.key # k
      <3>1. Ahead(psl, k, i, i, d)
        BY <1>4, <1>5, <2>2 DEF OwnStored
      <3>2. HomeOf(entries[i]) = Home[k] /\ entries[i] # NoEntry
        BY <1>4 DEF Has, HomeOf
      <3> QED
        BY <1>2, <3>1, <3>2 DEF Ahead, HandNewer
    <2> QED
      BY <2>1, <2>2
  <1>7. /\ entries'[i] = g
        /\ \A t \in Slots : t # i => entries'[t] = entries[t]
    <2>1. SequenceNewer(g.seq, entries[i].seq)
      BY <1>6, LaterIsNewer DEF Newer
    <2> QED
      BY <1>2, <1>3, <2>1 DEF UpdateHere, Tables
  <1>8. \A x \in Keys : x # k => Copies(x)' = Copies(x)
    <2> SUFFICES ASSUME NEW x \in Keys, x # k, NEW e
                 PROVE  e \in Copies(x)' <=> e \in Copies(x)
      OBVIOUS
    <2>1. e \in Copies(x)' <=>
            e.key = x /\ \E t \in Slots : entries'[t] # NoEntry /\ e = entries'[t]
      BY <1>1 DEF Copies
    <2>2. e \in Copies(x) <=>
            /\ e.key = x
            /\ e = g \/ \E t \in Slots : entries[t] # NoEntry /\ e = entries[t]
      BY <1>1, <1>2, CopyIs
    <2> QED
      BY <1>3, <1>4, <1>7, <2>1, <2>2 DEF Has
  <1>9. EntryOf(k)' = EntryOf(k)
    <2>1. \A e : e \in Copies(k)' <=>
            e.key = k /\ \E t \in Slots : entries'[t] # NoEntry /\ e = entries'[t]
      BY <1>1 DEF Copies
    <2>2. \A e : e \in Copies(k) <=>
            /\ e.key = k
            /\ e = g \/ \E t \in Slots : entries[t] # NoEntry /\ e = entries[t]
      BY <1>1, <1>2, CopyIs
    <2>3. CASE g.key = k
      <3>1. \A t \in Slots : entries[t] # NoEntry => Newer(g, entries[t])
        BY <1>2, <2>3 DEF OldAndNew, OwnInHand
      <3>2. g \in Copies(k) /\ \A f \in Copies(k) : f = g \/ Newer(g, f)
        BY <2>2, <2>3, <3>1
      <3>3. g \in Copies(k)' /\ \A f \in Copies(k)' : f = g \/ Newer(g, f)
        BY <1>3, <1>7, <2>1, <2>3, <3>1
      <3>4. Newest(Copies(k)') = Newest(Copies(k))
        BY <3>2, <3>3, ValueIs
      <3> QED
        BY <3>2, <3>3, <3>4 DEF EntryOf
    <2>4. CASE g.key # k
      <3>1. PICK j \in Slots : j # i /\ OwnStored(entries, psl, k, g, i, d, j)
        BY <1>5, <2>4
      <3>2. PICK e : /\ e = entries[j] /\ e.key = k /\ e # NoEntry /\ e = entries'[j]
                     /\ \A t \in Slots : t # j /\ entries[t] # NoEntry => Newer(e, entries[t])
        BY <1>7, <3>1 DEF OwnStored, Has
      <3>3. e \in Copies(k) /\ \A f \in Copies(k) : f = e \/ Newer(e, f)
        <4>1. e \in Copies(k)
          BY <2>2, <3>2
        <4>2. ASSUME NEW f \in Copies(k) PROVE f = e \/ Newer(e, f)
          <5>1. f # g
            BY <2>2, <2>4
          <5>2. PICK t \in Slots : entries[t] # NoEntry /\ f = entries[t]
            BY <2>2, <5>1
          <5> QED
            BY <3>2, <5>2
        <4> QED
          BY <4>1, <4>2
      <3>4. e \in Copies(k)' /\ \A f \in Copies(k)' : f = e \/ Newer(e, f)
        BY <1>7, <2>1, <2>4, <3>2
      <3>5. Newest(Copies(k)') = Newest(Copies(k))
        BY <3>3, <3>4, ValueIs
      <3> QED
        BY <3>3, <3>4, <3>5 DEF EntryOf
    <2> QED
      BY <2>3, <2>4
  <1>10. \A x \in Keys : EntryOf(x)' = EntryOf(x)
    <2>1. \A x \in Keys : x # k => EntryOf(x)' = EntryOf(x)
      BY <1>8 DEF EntryOf
    <2> QED
      BY <1>9, <2>1
  <1>11. MapStep
    BY <1>1, <1>10, Unseen
  <1> QED
    BY <1>1, <1>11 DEF StoredBehind

(* In a table with a free slot the upsert does not come round to slot j.    *)
LEMMA NotRound ==
  ASSUME Roomy, NEW i \in Slots, NEW j \in Slots, entries[i] # NoEntry,
         \A t \in Slots : Distance(j, t) < Distance(j, i) => entries[t] # NoEntry
  PROVE  /\ j # NextSlot(i)
         /\ \A t \in Slots : Distance(j, t) < Distance(j, NextSlot(i))
                               => entries[t] # NoEntry
  <1>1. ASSUME NextSlot(i) = j PROVE FALSE
    <2>1. \A t \in Slots : entries[t] # NoEntry
      BY <1>1, FullLap
    <2> QED
      BY <2>1 DEF Roomy
  <1>2. ASSUME NEW t \in Slots, Distance(j, t) < Distance(j, NextSlot(i))
        PROVE  entries[t] # NoEntry
    BY <1>2, BeforeNext
  <1> QED
    BY <1>1, <1>2

(* What Advance does, with the locals of the upsert.                        *)
LEMMA AdvanceIs ==
  ASSUME TypeOK, op # NoOp, NEW e \in Entry, NEW c \in Nat, Advance(e, c)
  PROVE  \/ c > MaxDist /\ op' = NoOp /\ ok' = FALSE
         \/ /\ c <= MaxDist /\ op' # NoOp /\ ok' = ok
            /\ op'.key = op.key /\ op'.hand = e /\ op'.idx = NextSlot(op.idx)
  <1>1. CASE c > MaxDist /\ op' = NoOp /\ ok' = FALSE
    BY <1>1
  <1>2. CASE /\ c <= MaxDist /\ ok' = ok
             /\ op' = [op EXCEPT !.hand = e, !.idx = NextSlot(op.idx), !.dist = c]
    <2>1. op' = [key |-> op.key, hand |-> e, idx |-> NextSlot(op.idx), dist |-> c]
      BY <1>2, OpType DEF Op
    <2>2. op' \in Op
      BY <1>2, <2>1, OpType, NextSlotFurther, TableAssumption DEF Op
    <2> QED
      BY <1>2, <2>1, <2>2, NullAssumption
  <1> QED
    BY <1>1, <1>2 DEF Advance

LEMMA MapPassBy ==
  ASSUME MapInv, Roomy, PassBy
  PROVE  MapStep /\ StoredBehind' /\ (op' # NoOp => ok' = TRUE)
  <1>1. op # NoOp /\ ok = TRUE /\ TypeOK /\ UNCHANGED <<entries, psl, pending>>
    BY DEF PassBy, Elsewhere, MapInv, OnceInv
  <1>2. PICK k \in Keys, g \in Entry, i \in Slots, d \in 0 .. MaxDist :
          /\ k = op.key /\ g = op.hand /\ i = op.idx /\ d = op.dist /\ d \in Nat
          /\ HandOnWay(entries, psl, g, i, d)
          /\ HandNewer(entries, psl, g, i, d)
          /\ OldAndNew(entries, psl, k, g, i, d)
    BY <1>1, Running DEF MapInv
  <1>3. entries \in Tables /\ EntriesOnWay(entries, psl) /\ psl \in [Slots -> Nat]
    BY OnceType DEF MapInv, OnceInv
  <1>4. entries[i] # NoEntry /\ ~Has(entries, i, k) /\ psl[i] >= d + 1
    BY <1>2 DEF PassBy, Elsewhere, SameKey, Has
  <1>5. \/ d + 1 > MaxDist /\ op' = NoOp /\ ok' = FALSE
        \/ /\ op' # NoOp /\ ok' = ok
           /\ op'.key = k /\ op'.hand = g /\ op'.idx = NextSlot(i)
    <2>1. PICK c \in Nat : c = d + 1 /\ Advance(g, c)
      BY <1>2 DEF PassBy
    <2> QED
      BY <1>1, <1>2, <2>1, AdvanceIs
  <1>6. CASE op' # NoOp
    <2>1. ok' = ok /\ op'.key = k /\ op'.hand = g /\ op'.idx = NextSlot(i)
      BY <1>5, <1>6
    <2>2. \A x \in Keys : Copies(x)' = Copies(x)
      BY <1>1, <1>2, <1>6, <2>1 DEF Copies
    <2>3. MapStep
      BY <1>1, <2>1, <2>2, Unseen DEF EntryOf
    <2>4. StoredBehind'
      <3> SUFFICES ASSUME g.key # k
                   PROVE  \E j \in Slots :
                            /\ Has(entries', j, k)
                            /\ j # NextSlot(i)
                            /\ \A t \in Slots : Distance(j, t) < Distance(j, NextSlot(i))
                                                  => entries'[t] # NoEntry
        BY <2>1 DEF StoredBehind
      <3>1. PICK j \in Slots :
              /\ Has(entries, j, k)
              /\ \A t \in Slots : Distance(j, t) < Distance(j, i) => entries[t] # NoEntry
        BY <1>1, <1>2 DEF MapInv, StoredBehind
      <3> QED
        BY <1>1, <1>4, <3>1, NotRound
    <2> QED
      BY <1>1, <2>1, <2>3, <2>4
  <1>7. CASE d + 1 > MaxDist /\ op' = NoOp /\ ok' = FALSE
    <2>1. \A t \in Slots : ~Has(entries, t, g.key)
      <3> SUFFICES ASSUME NEW t \in Slots, Has(entries, t, g.key) PROVE FALSE
        OBVIOUS
      <3>1. g.key = k /\ Ahead(psl, k, t, i, d)
        BY <1>2 DEF OldAndNew, OwnInHand
      <3>2. t # i
        BY <1>4, <3>1
      <3>3. d + 1 <= MaxDist
        BY <1>2, <1>3, <1>4, <3>1, <3>2, AheadPassBy
      <3> QED
        BY <1>7, <3>3, TableAssumption
    <2>2. Copies(g.key)' = {}
      BY <1>1, <1>7, <2>1 DEF Copies, Has
    <2>3. \A y \in Keys : y # g.key => Copies(y)' = Copies(y)
      BY <1>1, <1>2, <1>7 DEF Copies
    <2>4. g.key \in Keys
      BY DEF Entry
    <2>5. MapStep
      BY <1>1, <1>7, <2>2, <2>3, <2>4, Lost
    <2> QED
      BY <1>7, <2>5 DEF StoredBehind
  <1> QED
    BY <1>5, <1>6, <1>7

LEMMA MapDisplace ==
  ASSUME MapInv, Roomy, Displace
  PROVE  MapStep /\ StoredBehind' /\ (op' # NoOp => ok' = TRUE)
  <1>1. op # NoOp /\ ok = TRUE /\ TypeOK /\ UNCHANGED pending
    BY DEF Displace, Elsewhere, MapInv, OnceInv
  <1>2. PICK k \in Keys, g \in Entry, i \in Slots, d \in 0 .. MaxDist :
          /\ k = op.key /\ g = op.hand /\ i = op.idx /\ d = op.dist /\ d \in Nat
          /\ HandOnWay(entries, psl, g, i, d)
          /\ HandNewer(entries, psl, g, i, d)
          /\ OldAndNew(entries, psl, k, g, i, d)
    BY <1>1, Running DEF MapInv
  <1>3. entries \in Tables /\ psl \in [Slots -> Nat] /\ g # NoEntry
    BY OnceType, NullAssumption DEF MapInv, OnceInv
  <1>4. entries[i] # NoEntry /\ ~Has(entries, i, k)
    BY <1>2 DEF Displace, Elsewhere, SameKey, Has
  <1>5. /\ entries'[i] = g
        /\ \A t \in Slots : t # i => entries'[t] = entries[t]
    BY <1>2, <1>3 DEF Displace, Tables
  <1>6. PICK f \in Entry, c \in Nat :
          f = entries[i] /\ c = psl[i] + 2 /\ f # NoEntry /\ f.key # k
    BY <1>3, <1>4 DEF Tables, Has
  <1>7. \/ c > MaxDist /\ op' = NoOp /\ ok' = FALSE
        \/ /\ op' # NoOp /\ ok' = ok
           /\ op'.key = k /\ op'.hand = f /\ op'.idx = NextSlot(i)
    BY <1>1, <1>2, <1>6, AdvanceIs DEF Displace
  <1>8. \A x, e : e \in Copies(x) <=>
          /\ e.key = x
          /\ e = g \/ \E t \in Slots : entries[t] # NoEntry /\ e = entries[t]
    BY <1>1, <1>2, CopyIs
  <1>9. CASE op' # NoOp
    <2>1. ok' = ok /\ op'.key = k /\ op'.hand = f /\ op'.idx = NextSlot(i)
      BY <1>7, <1>9
    <2>2. ASSUME NEW x \in Keys PROVE Copies(x)' = Copies(x)
      <3>1. \A e : e \in Copies(x)' <=>
              /\ e.key = x
              /\ e = f \/ \E t \in Slots : entries'[t] # NoEntry /\ e = entries'[t]
        BY <1>9, <2>1 DEF Copies
      <3>2. \A e : (e = f \/ \E t \in Slots : entries'[t] # NoEntry /\ e = entries'[t])
               <=> (e = g \/ \E t \in Slots : entries[t] # NoEntry /\ e = entries[t])
        BY <1>3, <1>5, <1>6
      <3>3. \A e : e \in Copies(x)' <=> e \in Copies(x)
        <4> SUFFICES ASSUME NEW e PROVE e \in Copies(x)' <=> e \in Copies(x)
          OBVIOUS
        <4> QED
          BY <1>8, <3>1, <3>2, Zenon
      <3> QED
        BY <3>3, Zenon
    <2>3. MapStep
      BY <1>1, <2>1, <2>2, Unseen DEF EntryOf
    <2>4. StoredBehind'
      <3> SUFFICES \E j \in Slots :
                     /\ Has(entries', j, k)
                     /\ j # NextSlot(i)
                     /\ \A t \in Slots : Distance(j, t) < Distance(j, NextSlot(i))
                                           => entries'[t] # NoEntry
        BY <2>1 DEF StoredBehind
      <3>1. \A t \in Slots : entries[t] # NoEntry => entries'[t] # NoEntry
        BY <1>3, <1>5
      <3>2. CASE g.key = k
        <4>1. \A t \in Slots : ~(Distance(i, t) < Distance(i, i))
          BY DistanceRange
        <4>2. /\ i # NextSlot(i)
              /\ \A t \in Slots : Distance(i, t) < Distance(i, NextSlot(i))
                                    => entries[t] # NoEntry
          BY <1>4, <4>1, NotRound
        <4> QED
          BY <1>3, <1>5, <3>1, <3>2, <4>2 DEF Has
      <3>3. CASE g.key # k
        <4>1. PICK j \in Slots :
                /\ Has(entries, j, k)
                /\ \A t \in Slots : Distance(j, t) < Distance(j, i)
                                      => entries[t] # NoEntry
          BY <1>1, <1>2, <3>3 DEF MapInv, StoredBehind
        <4>2. Has(entries', j, k)
          BY <1>4, <1>5, <4>1 DEF Has
        <4> QED
          BY <1>4, <3>1, <4>1, <4>2, NotRound
      <3> QED
        BY <3>2, <3>3
    <2> QED
      BY <1>1, <2>1, <2>3, <2>4
  <1>10. CASE op' = NoOp /\ ok' = FALSE
    <2>1. \A x, e : e \in Copies(x)' <=>
            e.key = x /\ \E t \in Slots : entries'[t] # NoEntry /\ e = entries'[t]
      BY <1>10 DEF Copies
    <2>2. f.key # g.key
      BY <1>2, <1>6 DEF OldAndNew, Has
    <2>3. f.key \in Keys
      BY DEF Entry
    <2>4. \A t \in Slots : t # i => ~Has(entries, t, f.key)
      BY <1>2, <1>6, <2>3 DEF OldAndNew, Once, Has
    <2>5. Copies(f.key)' = {}
      BY <1>3, <1>5, <2>1, <2>2, <2>4 DEF Has
    <2>6. ASSUME NEW y \in Keys, y # f.key PROVE Copies(y)' = Copies(y)
      <3>1. \A e : e.key = y =>
              ((\E t \in Slots : entries'[t] # NoEntry /\ e = entries'[t])
               <=> (e = g \/ \E t \in Slots : entries[t] # NoEntry /\ e = entries[t]))
        BY <1>3, <1>5, <1>6, <2>6
      <3>2. \A e : e \in Copies(y)' <=> e \in Copies(y)
        <4> SUFFICES ASSUME NEW e PROVE e \in Copies(y)' <=> e \in Copies(y)
          OBVIOUS
        <4> QED
          BY <1>8, <2>1, <3>1, Zenon
      <3> QED
        BY <3>2, Zenon
    <2>7. MapStep
      BY <1>1, <1>10, <2>3, <2>5, <2>6, Lost
    <2> QED
      BY <1>10, <2>7 DEF StoredBehind
  <1> QED
    BY <1>7, <1>9, <1>10

LEMMA MapNext ==
  ASSUME MaxPending = 1, MapInv, Roomy, [Next]_vars
  PROVE  MapInv' /\ MapStep
  <1>1. OnceInv'
    BY OnceNext DEF MapInv
  <1>2. CASE UNCHANGED vars
    <2>1. \A x \in Keys : EntryOf(x)' = EntryOf(x)
      BY <1>2 DEF vars, EntryOf, Copies
    <2>2. StoredBehind' /\ (op' # NoOp => ok' = TRUE)
      BY <1>2 DEF vars, MapInv, StoredBehind
    <2> QED
      BY <1>1, <1>2, <2>1, <2>2, Unseen DEF vars, MapInv
  <1>3. CASE AllocateSequence
    <2>1. pending' \in SUBSET (0 .. Modulus - 1)
      BY <1>1 DEF OnceInv, TypeOK
    <2>2. op' = NoOp
      BY <1>3 DEF AllocateSequence
    <2> QED
      BY <1>1, <1>3, <2>1, <2>2, MapAllocate DEF MapInv, StoredBehind
  <1> QED
    BY <1>1, <1>2, <1>3, MapBegin, MapRemove, MapInsert, MapUpdate, MapPassBy,
       MapDisplace DEF Next, Calls, Probe, MapInv

(* In a table with a free slot, and when upserts come in the order of their *)
(* sequences, the table is the map: an upsert replaces the entry of its key *)
(* and loses no entry of another, unless it returns false (upsert, remove). *)
THEOREM TableIsAMap ==
  ASSUME MaxPending = 1
  PROVE  Spec /\ []Roomy => ImplementsMap
  <1>1. Init => MapInv /\ Map!Init
    BY MapInit
  <1>2. MapInv /\ Roomy /\ [Next]_vars => MapInv' /\ [Map!Next]_(Map!mapVars)
    BY MapNext DEF MapStep
  <1> QED
    BY <1>1, <1>2, PTL DEF Spec, ImplementsMap, Map!Spec

=============================================================================
