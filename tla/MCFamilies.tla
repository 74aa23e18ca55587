------------------------------ MODULE MCFamilies ------------------------------
(* Instances of Families for TLC. *)
EXTENDS Families, TLC

Symmetry == Permutations(Accounts) \cup Permutations(FamilyIds)
              \cup Permutations(Codes) \cup Permutations(Requests)
=============================================================================
