------------------------------ MODULE KVStore ------------------------------
(***************************************************************************)
(* What the asynchronous path of Engine (src/src/engine.cpp) promises the  *)
(* application, without files, blobs or an index: put_async, delete_async, *)
(* get_async and their callbacks.                                          *)
(*                                                                         *)
(* An accepted request is open until its one callback runs. A put takes    *)
(* effect when it is answered with success, and never over a put accepted  *)
(* after it. A delete takes effect when it is answered, on what the key    *)
(* holds then. A get returns what the key held when it was issued. The     *)
(* value of a put is its sequence number.                                  *)
(***************************************************************************)
EXTENDS Naturals

CONSTANTS
  Keys,         (* user keys                                                *)
  MaxSequence   (* bound: the puts and deletes of a behaviour               *)

VARIABLES
  issued,    (* the number of requests accepted                             *)
  open,      (* the accepted requests whose callback has not run            *)
  newest,    (* the value of each key, kept when it is deleted; 0: none yet *)
  live,      (* the keys that are there                                     *)
  reads,     (* gets on their way, with the value they will return          *)
  answers    (* what each callback was told                                 *)

storeVars == <<issued, open, newest, live, reads, answers>>

Answer(some, what) ==
  [s \in 1 .. MaxSequence |-> IF \E r \in some : r.seq = s
                              THEN what ELSE answers[s]]

Init == /\ issued = 0
        /\ open = {}
        /\ newest = [k \in Keys |-> 0]
        /\ live = {}
        /\ reads = {}
        /\ answers = [s \in 1 .. MaxSequence |-> "none"]

(* A call; any open requests, this one too, may fail with it.               *)
Accept(k, kind) ==
  /\ issued < MaxSequence
  /\ kind = "delete" => k \in live
  /\ issued' = issued + 1
  /\ LET all == open \cup {[seq |-> issued + 1, key |-> k, kind |-> kind]}
     IN \E failed \in SUBSET all : /\ open' = all \ failed
                                   /\ answers' = Answer(failed, "failed")
  /\ UNCHANGED <<newest, live, reads>>

Fail == /\ \E failed \in SUBSET open : /\ open' = open \ failed
                                       /\ answers' = Answer(failed, "failed")
        /\ UNCHANGED <<issued, newest, live, reads>>

Put(r) ==
  /\ r.kind = "put"
  /\ newest' = [newest EXCEPT ![r.key] = IF r.seq > @ THEN r.seq ELSE @]
  /\ live' = IF r.seq > newest[r.key] THEN live \cup {r.key} ELSE live

Delete(r) == /\ r.kind = "delete"
             /\ live' = live \ {r.key}
             /\ UNCHANGED newest

Apply(r) == /\ open' = open \ {r}
            /\ answers' = Answer({r}, "ok")
            /\ Put(r) \/ Delete(r)
            /\ UNCHANGED <<issued, reads>>

Get(k) == /\ k \in live
          /\ reads' = reads \cup {[key |-> k, value |-> newest[k]]}
          /\ UNCHANGED <<issued, open, newest, live, answers>>

Return(r) == /\ reads' = reads \ {r}
             /\ UNCHANGED <<issued, open, newest, live, answers>>

Next == \/ \E k \in Keys : Accept(k, "put") \/ Accept(k, "delete") \/ Get(k)
        \/ \E r \in open : Apply(r)
        \/ \E r \in reads : Return(r)
        \/ Fail

Spec == Init /\ [][Next]_storeVars

=============================================================================
