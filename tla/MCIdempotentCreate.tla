-------------------------- MODULE MCIdempotentCreate --------------------------
(* Instances of IdempotentCreate for TLC. *)
EXTENDS IdempotentCreate, TLC

Symmetry == Permutations(Requests) \cup Permutations(Resources)
              \cup Permutations(Payloads) \cup Permutations(Keys) \cup Permutations(Members)
=============================================================================
