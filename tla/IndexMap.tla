------------------------------ MODULE IndexMap ------------------------------
(***************************************************************************)
(* What MemIndex (src/include/spdk_kv/mem_index.h) promises the engine: a  *)
(* map from keys to the newest entry that was upserted, which remove marks *)
(* deleted. Writes take a sequence number when they are accepted and come  *)
(* to the index, in any order, when they are complete.                     *)
(***************************************************************************)
CONSTANTS
  Keys,         (* user keys                                                *)
  Sequences,    (* the values of MemIndexEntry::sequence                    *)
  NoEntry,      (* the key has no entry                                     *)
  Newer(_, _)   (* the first number was allocated after the second          *)

VARIABLES
  index,    (* the entry of each key                                        *)
  pending,  (* allocated sequence numbers not in the index yet              *)
  ok        (* what the last upsert returns                                 *)

mapVars == <<index, pending, ok>>

Init == /\ index = [k \in Keys |-> NoEntry]
        /\ pending = {}
        /\ ok = TRUE

Allocate(s) == /\ s \notin pending
               /\ pending' = pending \cup {s}
               /\ UNCHANGED <<index, ok>>

(* An upsert replaces the entry of its key, unless that is a newer one.     *)
Upsert(k, s) ==
  /\ s \in pending
  /\ pending' = pending \ {s}
  /\ ok' = TRUE
  /\ index' = IF index[k] # NoEntry /\ ~Newer(s, index[k].seq) THEN index
              ELSE [index EXCEPT ![k] = [seq |-> s, deleted |-> FALSE]]

Remove(k) == /\ index[k] # NoEntry
             /\ ~index[k].deleted
             /\ index' = [index EXCEPT ![k].deleted = TRUE]
             /\ UNCHANGED <<pending, ok>>

(* An upsert that returns false may lose the entry of one key, whichever it *)
(* could not place.                                                         *)
Refuse(k) == /\ ok
             /\ ok' = FALSE
             /\ index' = [index EXCEPT ![k] = NoEntry]
             /\ UNCHANGED pending

Next == \/ \E s \in Sequences : Allocate(s) \/ \E k \in Keys : Upsert(k, s)
        \/ \E k \in Keys : Remove(k) \/ Refuse(k)

Spec == Init /\ [][Next]_mapVars

=============================================================================
