---------------------------- MODULE SessionChains ----------------------------
(***************************************************************************)
(* What the rotating refresh credentials of the API promise, without how.  *)
(* A chain is opened by one sign-in.  While it lasts it has exactly one    *)
(* usable token; a rotation hands the chain over to a token never seen     *)
(* before.  A chain that has ended (sign-out, reuse, password reset,       *)
(* removal) has no usable token and never has one again.                   *)
(***************************************************************************)
CONSTANTS Chains, Tokens

VARIABLES
  current,  \* current[c]: the usable tokens of chain c (none or one)
  opened,   \* the chains some sign-in has opened
  issued    \* the tokens handed to clients so far

chainVars == <<current, opened, issued>>

Init ==
  /\ current = [c \in Chains |-> {}]
  /\ opened = {}
  /\ issued = {}

(* A sign-in opens a chain nobody used before. *)
Open(c, t) ==
  /\ c \notin opened
  /\ t \notin issued
  /\ current' = [current EXCEPT ![c] = {t}]
  /\ opened' = opened \cup {c}
  /\ issued' = issued \cup {t}

(* A rotation: the one usable token gives way to a new one. *)
HandOver(c, t, n) ==
  /\ current[c] = {t}
  /\ n \notin issued
  /\ current' = [current EXCEPT ![c] = {n}]
  /\ issued' = issued \cup {n}
  /\ UNCHANGED opened

(* Some chains end together. *)
End(C) ==
  /\ current' = [c \in Chains |-> IF c \in C THEN {} ELSE current[c]]
  /\ UNCHANGED <<opened, issued>>

Next ==
  \/ \E c \in Chains, t \in Tokens : Open(c, t)
  \/ \E c \in Chains : \E t, n \in Tokens : HandOver(c, t, n)
  \/ \E C \in SUBSET Chains : End(C)

Spec == Init /\ [][Next]_chainVars
=============================================================================
