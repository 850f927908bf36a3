----------------------------- MODULE MCMemIndex -----------------------------
(* A table of four slots. The keys other than k4 have the last slot for     *)
(* home, so that their chain wraps around, and they displace k4.            *)
EXTENDS MemIndex

CONSTANT k4

MCHome == [k \in Keys |-> IF k = k4 THEN 0 ELSE Capacity - 1]

=============================================================================
