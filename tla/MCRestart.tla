------------------------------ MODULE MCRestart ------------------------------
(* Instances of Restart for TLC. *)
EXTENDS Restart, TLC

Symmetry == Permutations(Keys)
=============================================================================
