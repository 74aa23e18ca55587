-------------------------- MODULE MCRefreshSessions --------------------------
(* Instances of RefreshSessions for TLC. *)
EXTENDS RefreshSessions, TLC

Symmetry == Permutations(Tokens) \cup Permutations(Requests) \cup Permutations(Accounts)
=============================================================================
