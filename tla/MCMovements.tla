------------------------------ MODULE MCMovements -----------------------------
(* Instances of Movements for TLC. *)
EXTENDS Movements, TLC

Symmetry == Permutations(Requests) \cup Permutations(Movements)
=============================================================================
