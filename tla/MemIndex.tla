------------------------------ MODULE MemIndex ------------------------------
(***************************************************************************)
(* MemIndex (src/include/spdk_kv/mem_index.h): the Robin Hood hash table   *)
(* that maps keys to the newest place of their records. An upsert walks    *)
(* from the home slot of its key with an entry in hand and a distance;     *)
(* each iteration of its loop is a step here. find and remove are one step *)
(* each: the table has one thread.                                         *)
(*                                                                         *)
(* psl keeps what the code stores, which is not always the distance + 1:   *)
(* a swap stores the bare distance and lets the displaced entry continue   *)
(* two ahead of its stored value.                                          *)
(*                                                                         *)
(* An entry is its key, its sequence number (which stands for the place it *)
(* names) and the deleted flag. The tag is a function of the key.          *)
(***************************************************************************)
EXTENDS Integers, FiniteSets

CONSTANTS
  Keys,           (* user keys                                              *)
  Capacity,       (* capacity_: the number of slots                         *)
  Home,           (* compute_hash(key) & (capacity_ - 1)                    *)
  MaxDist,        (* the probe distance at which the loops give up: 128     *)
  Modulus,        (* 2^32: sequence numbers wrap around at it               *)
  FirstSequence,  (* the first sequence number of a behaviour               *)
  MaxSequence,    (* bound: the sequence numbers a behaviour allocates      *)
  MaxPending,     (* bound: writes that have a sequence number and are not
                     in the index yet; with 1 they complete in order        *)
  NoEntry,        (* an empty slot: entries_[i].is_empty() and psl_[i] = 0  *)
  NoOp            (* no upsert is running                                   *)

Slots == 0 .. Capacity - 1

(* An upsert gives up before it comes round to the slot it started from.    *)
ASSUME TableAssumption ==
  /\ Capacity \in Nat \ {0}
  /\ MaxDist \in 0 .. Capacity
  /\ Home \in [Keys -> Slots]

(* Sequence numbers in use at one time are less than half the modulus apart *)
ASSUME SequenceAssumption ==
  /\ Modulus \in Nat \ {0}
  /\ FirstSequence \in 0 .. Modulus - 1
  /\ MaxSequence \in Nat
  /\ 2 * MaxSequence <= Modulus
  /\ MaxPending \in Nat

VARIABLES
  entries,          (* entries_                                             *)
  psl,              (* psl_                                                 *)
  op,               (* the locals of the upsert that is running, or NoOp    *)
  global_sequence,  (* global_sequence_, as the count of allocations        *)
  pending,          (* allocated sequence numbers not in the index yet      *)
  ok                (* what the last upsert returned; TRUE while it runs    *)

vars == <<entries, psl, op, global_sequence, pending, ok>>

Entry == [key : Keys, seq : 0 .. Modulus - 1, deleted : BOOLEAN]

(* key, entry_to_insert, idx and dist                                       *)
Op == [key : Keys, hand : Entry, idx : Slots, dist : 0 .. MaxDist]

(* The entry of a key in the map that the table implements.                 *)
MapEntry == [seq : 0 .. Modulus - 1, deleted : BOOLEAN]

ASSUME NullAssumption == NoEntry \notin Entry \cup MapEntry /\ NoOp \notin Op

-----------------------------------------------------------------------------
(* Sequence numbers *)

(* The comparison without the wraparound.                                   *)
GreaterNumber(a, b) == a > b

(* sequence_newer: static_cast<int32_t>(a - b) > 0                          *)
SequenceNewer(a, b) ==
  LET diff == (a - b) % Modulus IN 0 < diff /\ 2 * diff < Modulus

(* allocate_sequence: the n-th number after FirstSequence.                  *)
Number(n) == (FirstSequence + n) % Modulus

(* a was allocated after b.                                                 *)
AllocatedLater(a, b) ==
  \E n, m \in 0 .. MaxSequence - 1 : a = Number(n) /\ b = Number(m) /\ m < n

-----------------------------------------------------------------------------
(* Probing *)

NextSlot(i) == IF i = Capacity - 1 THEN 0 ELSE i + 1

(* (home + d) & (capacity_ - 1)                                             *)
SlotAt(home, d) ==
  IF home + d < Capacity THEN home + d ELSE home + d - Capacity

(* The probe distance from home to slot i.                                  *)
Distance(home, i) == IF i >= home THEN i - home ELSE Capacity - home + i

IsLive(i, k) == /\ entries[i] # NoEntry
                /\ entries[i].key = k
                /\ ~entries[i].deleted

(* The probes of find_internal, up to the first slot it comes to twice.     *)
Probes == { d \in 0 .. MaxDist : d < Capacity }

(* The probes at which find_internal may stop at a live entry of k, the     *)
(* ones before the first slot whose psl is below the distance.              *)
Hits(k) ==
  { d \in Probes : /\ IsLive(SlotAt(Home[k], d), k)
                   /\ \A j \in 0 .. d : psl[SlotAt(Home[k], j)] >= j }

Found(k) == Hits(k) # {}

(* The slot of the entry find(k) returns.                                   *)
FindSlot(k) ==
  SlotAt(Home[k], CHOOSE d \in Hits(k) : \A c \in Hits(k) : d <= c)

-----------------------------------------------------------------------------
Init ==
  /\ entries = [i \in Slots |-> NoEntry]
  /\ psl = [i \in Slots |-> 0]
  /\ op = NoOp
  /\ global_sequence = 0
  /\ pending = {}
  /\ ok = TRUE

(* A write is accepted; its entry comes to the index when it completes.     *)
AllocateSequence ==
  /\ op = NoOp
  /\ global_sequence < MaxSequence
  /\ Cardinality(pending) < MaxPending
  /\ global_sequence' = global_sequence + 1
  /\ pending' = pending \cup {Number(global_sequence)}
  /\ UNCHANGED <<entries, psl, op, ok>>

(* upsert(k, entry), up to its loop.                                        *)
BeginUpsert(k, s) ==
  /\ op = NoOp
  /\ s \in pending
  /\ pending' = pending \ {s}
  /\ op' = [key |-> k, hand |-> [key |-> k, seq |-> s, deleted |-> FALSE],
            idx |-> Home[k], dist |-> 0]
  /\ ok' = TRUE
  /\ UNCHANGED <<entries, psl, global_sequence>>

(* The same without the limit on the distance.                              *)
AdvanceUnlimited(hand, dist) ==
  /\ op' = [op EXCEPT !.hand = hand, !.idx = NextSlot(op.idx), !.dist = dist]
  /\ UNCHANGED ok

(* The rest of an iteration: the next slot, or the return of false with the *)
(* entry in hand lost.                                                      *)
Advance(hand, dist) ==
  \/ /\ dist > MaxDist
     /\ op' = NoOp
     /\ ok' = FALSE
  \/ /\ dist <= MaxDist
     /\ op' = [op EXCEPT !.hand = hand, !.idx = NextSlot(op.idx), !.dist = dist]
     /\ UNCHANGED ok

(* An empty slot takes the entry in hand.                                   *)
InsertHere ==
  /\ op # NoOp
  /\ entries[op.idx] = NoEntry
  /\ entries' = [entries EXCEPT ![op.idx] = op.hand]
  /\ psl' = [psl EXCEPT ![op.idx] = op.dist + 1]
  /\ op' = NoOp
  /\ UNCHANGED <<global_sequence, pending, ok>>

(* The key test with the entry in hand, not the parameter of the call.      *)
SameKeyAsHand == entries[op.idx].key = op.hand.key

(* entries_[idx].key == key. What is in hand may by now be the entry of     *)
(* another key.                                                             *)
SameKey == entries[op.idx].key = op.key

UpdateHere ==
  /\ op # NoOp
  /\ entries[op.idx] # NoEntry
  /\ SameKey
  /\ entries' = IF SequenceNewer(op.hand.seq, entries[op.idx].seq)
                THEN [entries EXCEPT ![op.idx] = op.hand] ELSE entries
  /\ op' = NoOp
  /\ UNCHANGED <<psl, global_sequence, pending, ok>>

Elsewhere == /\ op # NoOp
             /\ entries[op.idx] # NoEntry
             /\ ~SameKey

(* psl_[idx] < dist + 1: exchange the entry and its psl with those in hand. *)
Displace ==
  /\ Elsewhere
  /\ psl[op.idx] < op.dist + 1
  /\ entries' = [entries EXCEPT ![op.idx] = op.hand]
  /\ psl' = [psl EXCEPT ![op.idx] = op.dist]
  /\ Advance(entries[op.idx], psl[op.idx] + 2)
  /\ UNCHANGED <<global_sequence, pending>>

(* The next slot without dist++.                                            *)
PassBySameDist ==
  /\ Elsewhere
  /\ psl[op.idx] >= op.dist + 1
  /\ Advance(op.hand, op.dist)
  /\ UNCHANGED <<entries, psl, global_sequence, pending>>

PassBy ==
  /\ Elsewhere
  /\ psl[op.idx] >= op.dist + 1
  /\ Advance(op.hand, op.dist + 1)
  /\ UNCHANGED <<entries, psl, global_sequence, pending>>

(* One iteration of the loop of upsert.                                     *)
Probe == InsertHere \/ UpdateHere \/ Displace \/ PassBy

(* remove(k) that empties the slot.                                         *)
RemoveAndEmpty(k) ==
  /\ op = NoOp
  /\ Found(k)
  /\ entries' = [entries EXCEPT ![FindSlot(k)] = NoEntry]
  /\ psl' = [psl EXCEPT ![FindSlot(k)] = 0]
  /\ UNCHANGED <<op, global_sequence, pending, ok>>

(* remove(k). The entry keeps its slot, its psl and its sequence.           *)
Remove(k) ==
  /\ op = NoOp
  /\ Found(k)
  /\ entries' = [entries EXCEPT ![FindSlot(k)].deleted = TRUE]
  /\ UNCHANGED <<psl, op, global_sequence, pending, ok>>

Calls == \E k \in Keys : \/ \E s \in pending : BeginUpsert(k, s)
                         \/ Remove(k)

Next == AllocateSequence \/ Calls \/ Probe

Spec == Init /\ [][Next]_vars

(* upsert is a loop of one thread: it goes on until it returns.             *)
FairSpec == Spec /\ WF_vars(Probe)

-----------------------------------------------------------------------------
(* Properties *)

TypeOK ==
  /\ entries \in [Slots -> Entry \cup {NoEntry}]
  /\ psl \in [Slots -> 0 .. MaxDist + 1]
  /\ op \in Op \cup {NoOp}
  /\ global_sequence \in 0 .. MaxSequence
  /\ pending \subseteq 0 .. Modulus - 1
  /\ ok \in BOOLEAN

(* Whatever order sequences come in and however entries were displaced, a   *)
(* live entry of the table is reached: find stops at no slot before it,     *)
(* although the stored psl is not the distance (find_internal).             *)
EveryLiveEntryIsFound ==
  op = NoOp =>
    \A i \in Slots : entries[i] # NoEntry /\ ~entries[i].deleted
                        => Found(entries[i].key)

(* upsert may put a new copy of a key in front of the old one; by the time  *)
(* it returns the old one is overwritten. A second copy would come back     *)
(* when the first is removed (upsert, remove).                              *)
OneEntryPerKey ==
  op = NoOp =>
    \A i, j \in Slots :
      /\ entries[i] # NoEntry
      /\ entries[j] # NoEntry
      /\ entries[i].key = entries[j].key
      => i = j

(* The entries of k in the table and in hand.                               *)
Copies(k) ==
  { e \in { entries[i] : i \in Slots } \ {NoEntry} : e.key = k }
  \cup (IF op # NoOp /\ op.hand.key = k THEN {op.hand} ELSE {})

Newest(copies) ==
  CHOOSE e \in copies :
    \A f \in copies : f = e \/ AllocatedLater(e.seq, f.seq)

EntryOf(k) ==
  IF Copies(k) = {} THEN NoEntry
  ELSE [seq |-> Newest(Copies(k)).seq, deleted |-> Newest(Copies(k)).deleted]

Map == INSTANCE IndexMap
         WITH Sequences <- 0 .. Modulus - 1,
              Newer <- AllocatedLater,
              index <- [k \in Keys |-> EntryOf(k)]

(* The table is the map: an upsert replaces the entry of its key if it is   *)
(* newer, and no entry of another key is lost or changed on the way, except *)
(* by an upsert that returns false (mem_index.h:358, "Only update if new    *)
(* sequence is newer").                                                     *)
ImplementsMap == Map!Spec

(* upsert returns: a displaced entry starts again at a smaller distance,    *)
(* but the loop does not go round the table for ever.                       *)
UpsertReturns == op # NoOp ~> op = NoOp

=============================================================================
