----------------------------- MODULE KeyedCreates -----------------------------
(***************************************************************************)
(* What Idempotency-Key promises a client of the API, without how.  At     *)
(* most one create is made under a key, and only that create is ever       *)
(* confirmed under it: to the payload it was made from, for the resource   *)
(* it made, once the audit log has its event.  A create that was made is   *)
(* never unmade or replaced while the key is retained; what its resource   *)
(* says by then, after edits of it, is not part of this promise.           *)
(***************************************************************************)
CONSTANTS Slots, Payloads, Resources

VARIABLES
  created,    \* created[s]: the creates made under s (none or one)
  confirmed,  \* confirmed[s]: the creates clients were told of under s
  taken,      \* the resources that have been made, under a key or without
  recorded    \* the resources whose event is in the audit log

createVars == <<created, confirmed, taken, recorded>>

Init ==
  /\ created = [s \in Slots |-> {}]
  /\ confirmed = [s \in Slots |-> {}]
  /\ taken = {}
  /\ recorded = {}

(* The first create under a key makes a new resource. *)
Make(s, p, x) ==
  /\ created[s] = {}
  /\ x \notin taken
  /\ created' = [created EXCEPT ![s] = {[payload |-> p, resource |-> x]}]
  /\ taken' = taken \cup {x}
  /\ UNCHANGED <<confirmed, recorded>>

(* A create without a key makes a new resource each time. *)
MakeUnkeyed(x) ==
  /\ x \notin taken
  /\ taken' = taken \cup {x}
  /\ UNCHANGED <<created, confirmed, recorded>>

(* The event of a resource that was made enters the log. *)
Record(x) ==
  /\ x \in taken
  /\ recorded' = recorded \cup {x}
  /\ UNCHANGED <<created, confirmed, taken>>

(* A client is told of the create made under its key. *)
Confirm(s, c) ==
  /\ created[s] = {c}
  /\ c.resource \in recorded
  /\ confirmed' = [confirmed EXCEPT ![s] = {c}]
  /\ UNCHANGED <<created, taken, recorded>>

(* The key is no longer retained: it may be used as if it were new. *)
Forget(s) ==
  /\ created' = [created EXCEPT ![s] = {}]
  /\ confirmed' = [confirmed EXCEPT ![s] = {}]
  /\ UNCHANGED <<taken, recorded>>

Next ==
  \/ \E s \in Slots, p \in Payloads, x \in Resources : Make(s, p, x)
  \/ \E x \in Resources : MakeUnkeyed(x) \/ Record(x)
  \/ \E s \in Slots : Forget(s) \/ \E c \in created[s] : Confirm(s, c)

Spec == Init /\ [][Next]_createVars
=============================================================================
