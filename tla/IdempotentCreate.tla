--------------------------- MODULE IdempotentCreate ---------------------------
(***************************************************************************)
(* Retry-safe creates: IdempotencyService.run around the create of a       *)
(* movement or a transfer.  A request reserves the key under a unique      *)
(* index, runs the create (checks, insert, audit event), completes the     *)
(* reservation, and releases it when any of those awaits throws; a request *)
(* that finds the key taken replays or is refused.                         *)
(*                                                                         *)
(* A payload stands for the operation with the fingerprint of its content. *)
(* A slot is one entry of the unique index: a member (in the family of the *)
(* session) with a key.                                                    *)
(***************************************************************************)
EXTENDS Naturals, FiniteSets

CONSTANTS
  Members, Keys, Payloads,
  Resources,   \* ids of the movements and transfers that can be created
  Requests,    \* requests in flight at once
  NoSlot, NoPayload, NoResource,
  Rejecting,   \* the awaited calls that may reject in this instance
  CanCrash     \* whether the server may die in the middle of a request

Slots == Members \X Keys
Calls == {"reserve", "validate", "insert", "audit", "complete", "release",
          "lookup", "reload"}

ASSUME CreateAssumption ==
  /\ NoSlot \notin Slots
  /\ NoPayload \notin Payloads
  /\ NoResource \notin Resources
  /\ Rejecting \subseteq Calls
  /\ CanCrash \in BOOLEAN

VARIABLES
  \* idempotencyRecords collection, by unique key
  state,     \* state[s]: "none" (no record), "pending" or "completed"
  payload,   \* payload[s]: operation and fingerprint of the record
  result,    \* result[s]: its resourceId
  \* movements and transfers collections
  content,   \* content[x]: what x was created from, NoPayload if it was not
  edited,    \* resources a member has edited since they were created
  deleted,   \* soft-deleted resources
  audited,   \* resources with a 'created' event
  \* requests in flight
  at,        \* at[r]: the call r awaits next, or "idle"
  slot,      \* slot[r]: its slot, NoSlot without the header
  asked,     \* asked[r]: its payload
  made,      \* made[r]: the resource it created or is about to reload
  \* history
  applied,   \* applied[s]: resources created under s since it was last purged
  replies,   \* answers about its resource under a slot since it was last purged
  abandoned  \* slots left pending by a crash or by a release that was rejected

recordVars == <<state, payload, result>>
resourceVars == <<content, edited, deleted, audited>>
requestVars == <<at, slot, asked, made>>
vars == <<state, payload, result, content, edited, deleted, audited,
          at, slot, asked, made, applied, replies, abandoned>>

(* An answer to a request: the resource as it was created, as it was       *)
(* edited since (both 201), or that it is gone (404).                      *)
Reply == [slot : Slots, payload : Payloads, resource : Resources,
          shown : {"original", "edited", "gone"}]

TypeOK ==
  /\ state \in [Slots -> {"none", "pending", "completed"}]
  /\ payload \in [Slots -> Payloads \cup {NoPayload}]
  /\ result \in [Slots -> Resources \cup {NoResource}]
  /\ content \in [Resources -> Payloads \cup {NoPayload}]
  /\ edited \subseteq Resources
  /\ deleted \subseteq Resources
  /\ audited \subseteq Resources
  /\ at \in [Requests -> Calls \cup {"idle"}]
  /\ slot \in [Requests -> Slots \cup {NoSlot}]
  /\ asked \in [Requests -> Payloads \cup {NoPayload}]
  /\ made \in [Requests -> Resources \cup {NoResource}]
  /\ applied \in [Slots -> SUBSET Resources]
  /\ replies \subseteq Reply
  /\ abandoned \subseteq Slots

Init ==
  /\ state = [s \in Slots |-> "none"]
  /\ payload = [s \in Slots |-> NoPayload]
  /\ result = [s \in Slots |-> NoResource]
  /\ content = [x \in Resources |-> NoPayload]
  /\ edited = {}
  /\ deleted = {}
  /\ audited = {}
  /\ at = [r \in Requests |-> "idle"]
  /\ slot = [r \in Requests |-> NoSlot]
  /\ asked = [r \in Requests |-> NoPayload]
  /\ made = [r \in Requests |-> NoResource]
  /\ applied = [s \in Slots |-> {}]
  /\ replies = {}
  /\ abandoned = {}

-----------------------------------------------------------------------------
Goto(r, call) ==
  /\ at' = [at EXCEPT ![r] = call]
  /\ UNCHANGED <<slot, asked, made>>

Leave(r) ==
  /\ at' = [at EXCEPT ![r] = "idle"]
  /\ slot' = [slot EXCEPT ![r] = NoSlot]
  /\ asked' = [asked EXCEPT ![r] = NoPayload]
  /\ made' = [made EXCEPT ![r] = NoResource]

(* The request is answered about the resource x; without the header there  *)
(* is nothing to retry.                                                    *)
Answer(r, x, shown) ==
  replies' = IF slot[r] = NoSlot
               THEN replies
               ELSE replies \cup {[slot |-> slot[r], payload |-> asked[r], resource |-> x,
                                  shown |-> shown]}

(* Bound: a create is accepted while an id is left for it. *)
IdLeft ==
  Cardinality({q \in Requests : at[q] \in {"reserve", "validate", "insert"}})
    < Cardinality({x \in Resources : content[x] = NoPayload})

(* A create request with a well-formed key, or with none.  A malformed key *)
(* is answered 400 before any call.                                        *)
Arrive(r, s, p) ==
  /\ at[r] = "idle"
  /\ IdLeft
  /\ at' = [at EXCEPT ![r] = IF s = NoSlot THEN "validate" ELSE "reserve"]
  /\ slot' = [slot EXCEPT ![r] = s]
  /\ asked' = [asked EXCEPT ![r] = p]
  /\ UNCHANGED <<made, recordVars, resourceVars, applied, replies, abandoned>>

(* Mutant of Reserve: the insert is not guarded by the unique index.       *)
ReserveNotUnique(r) ==
  /\ at[r] = "reserve"
  /\ state' = [state EXCEPT ![slot[r]] = "pending"]
  /\ payload' = [payload EXCEPT ![slot[r]] = asked[r]]
  /\ Goto(r, "validate")
  /\ UNCHANGED <<result, resourceVars, applied, replies, abandoned>>

(* reserve: the insert that wins the unique index goes on to create. *)
Reserve(r) ==
  /\ at[r] = "reserve"
  /\ IF state[slot[r]] = "none"
       THEN /\ state' = [state EXCEPT ![slot[r]] = "pending"]
            /\ payload' = [payload EXCEPT ![slot[r]] = asked[r]]
            /\ Goto(r, "validate")
       ELSE /\ UNCHANGED <<state, payload>>
            /\ Goto(r, "lookup")
  /\ UNCHANGED <<result, resourceVars, applied, replies, abandoned>>

(* The account and category checks of the create pass. *)
Validate(r) ==
  /\ at[r] = "validate"
  /\ Goto(r, "insert")
  /\ UNCHANGED <<recordVars, resourceVars, applied, replies, abandoned>>

Insert(r) ==
  /\ at[r] = "insert"
  /\ \E x \in Resources :
       /\ content[x] = NoPayload
       /\ content' = [content EXCEPT ![x] = asked[r]]
       /\ made' = [made EXCEPT ![r] = x]
       /\ applied' = IF slot[r] = NoSlot
                       THEN applied
                       ELSE [applied EXCEPT ![slot[r]] = @ \cup {x}]
  /\ at' = [at EXCEPT ![r] = "audit"]
  /\ UNCHANGED <<slot, asked, recordVars, edited, deleted, audited, replies, abandoned>>

(* appendEvent 'created'; without the header this ends the request. *)
Audit(r) ==
  /\ at[r] = "audit"
  /\ audited' = audited \cup {made[r]}
  /\ IF slot[r] = NoSlot THEN Leave(r) ELSE Goto(r, "complete")
  /\ UNCHANGED <<recordVars, content, edited, deleted, applied, replies, abandoned>>

(* complete, and the answer made from the document that was inserted. *)
Complete(r) ==
  /\ at[r] = "complete"
  /\ state' = [state EXCEPT ![slot[r]] = "completed"]
  /\ result' = [result EXCEPT ![slot[r]] = made[r]]
  /\ Answer(r, made[r], "original")
  /\ Leave(r)
  /\ UNCHANGED <<payload, resourceVars, applied, abandoned>>

(* The catch of run: delete the reservation and rethrow. *)
Release(r) ==
  /\ at[r] = "release"
  /\ state' = [state EXCEPT ![slot[r]] = "none"]
  /\ payload' = [payload EXCEPT ![slot[r]] = NoPayload]
  /\ result' = [result EXCEPT ![slot[r]] = NoResource]
  /\ Leave(r)
  /\ UNCHANGED <<resourceVars, applied, replies, abandoned>>

(* Mutant of Lookup: the payload of the record is not compared.            *)
LookupAnyPayload(r) ==
  /\ at[r] = "lookup"
  /\ LET s == slot[r] IN
     IF state[s] = "completed"
       THEN /\ at' = [at EXCEPT ![r] = "reload"]
            /\ made' = [made EXCEPT ![r] = result[s]]
            /\ UNCHANGED <<slot, asked>>
       ELSE Leave(r)
  /\ UNCHANGED <<recordVars, resourceVars, applied, replies, abandoned>>

(* findExisting: 409 unless the record is there, of the same payload and   *)
(* completed.                                                              *)
Lookup(r) ==
  /\ at[r] = "lookup"
  /\ LET s == slot[r] IN
     IF state[s] = "completed" /\ payload[s] = asked[r]
       THEN /\ at' = [at EXCEPT ![r] = "reload"]
            /\ made' = [made EXCEPT ![r] = result[s]]
            /\ UNCHANGED <<slot, asked>>
       ELSE Leave(r)
  /\ UNCHANGED <<recordVars, resourceVars, applied, replies, abandoned>>

(* What a read of the resource x returns now. *)
Shown(x) == IF x \in deleted THEN "gone" ELSE IF x \in edited THEN "edited" ELSE "original"

(* reload: the resource as it is now, or 404 when it was deleted since. *)
Reload(r) ==
  /\ at[r] = "reload"
  /\ Answer(r, made[r], Shown(made[r]))
  /\ Leave(r)
  /\ UNCHANGED <<recordVars, resourceVars, applied, abandoned>>

(* Calls inside the try block of run. *)
Guarded == {"validate", "insert", "audit", "complete"}

(* Request r holds the reservation of slot s. *)
Holds(r, s) == slot[r] = s /\ at[r] \in Guarded \cup {"release"}

(* Mutant of Reject: run has no catch block.                               *)
RejectKeepsKey(r) ==
  /\ at[r] \in Rejecting
  /\ Leave(r)
  /\ UNCHANGED <<recordVars, resourceVars, applied, replies, abandoned>>

(* The awaited call throws before taking effect: a failed check (4xx) or a *)
(* database error.                                                         *)
Reject(r) ==
  /\ at[r] \in Rejecting
  /\ IF at[r] \in Guarded /\ slot[r] # NoSlot
       THEN Goto(r, "release")
       ELSE Leave(r)
  /\ abandoned' = IF at[r] = "release" THEN abandoned \cup {slot[r]} ELSE abandoned
  /\ UNCHANGED <<recordVars, resourceVars, applied, replies>>

(* The server dies before the request's next call. *)
Crash(r) ==
  /\ CanCrash
  /\ at[r] # "idle"
  /\ Leave(r)
  /\ abandoned' = abandoned \cup {s \in Slots : Holds(r, s)}
  /\ UNCHANGED <<recordVars, resourceVars, applied, replies>>

(* The TTL index purges a record past its retention.  No request runs for  *)
(* as long as that (days).                                                 *)
Purge(s) ==
  /\ state[s] # "none"
  /\ \A r \in Requests : slot[r] # s
  /\ state' = [state EXCEPT ![s] = "none"]
  /\ payload' = [payload EXCEPT ![s] = NoPayload]
  /\ result' = [result EXCEPT ![s] = NoResource]
  /\ applied' = [applied EXCEPT ![s] = {}]
  /\ replies' = {a \in replies : a.slot # s}
  /\ abandoned' = abandoned \ {s}
  /\ UNCHANGED <<resourceVars, requestVars>>

(* A member edits the movement or transfer, or soft-deletes it. *)
Edit(x) ==
  /\ content[x] # NoPayload
  /\ x \notin deleted
  /\ edited' = edited \cup {x}
  /\ UNCHANGED <<recordVars, content, deleted, audited, requestVars, applied, replies, abandoned>>

Delete(x) ==
  /\ content[x] # NoPayload
  /\ x \notin deleted
  /\ deleted' = deleted \cup {x}
  /\ UNCHANGED <<recordVars, content, edited, audited, requestVars, applied, replies, abandoned>>

-----------------------------------------------------------------------------
Continue(r) ==
  \/ Reserve(r)
  \/ Validate(r)
  \/ Insert(r)
  \/ Audit(r)
  \/ Complete(r)
  \/ Release(r)
  \/ Lookup(r)
  \/ Reload(r)

Next ==
  \/ \E r \in Requests, s \in Slots \cup {NoSlot}, p \in Payloads : Arrive(r, s, p)
  \/ \E r \in Requests : Continue(r) \/ Reject(r) \/ Crash(r)
  \/ \E s \in Slots : Purge(s)
  \/ \E x \in Resources : Edit(x) \/ Delete(x)

Spec == Init /\ [][Next]_vars

(* An accepted request runs on; clients, purges, edits and deletions owe nothing. *)
Fairness == \A r \in Requests : WF_vars(Continue(r))
FairSpec == Spec /\ Fairness

-----------------------------------------------------------------------------
(* Properties *)

(* A key makes a create apply at most once while its record is retained,   *)
(* for every interleaving of retries (contracts/idempotency.md:48).        *)
AtMostOnce ==
  \A s \in Slots : \A x, y \in applied[s] : x = y

(* Whatever a key was answered with, first answer or replay, it is about   *)
(* the one resource created under that key from that very payload, whose   *)
(* 'created' event is in the audit log; and it shows something else than   *)
(* what was created only after a member edited or deleted that resource.   *)
(* The original answer itself, which 016 FR-002 promises, is not replayed: *)
(* run reloads the resource.                                               *)
RepliesNameTheCreate ==
  \A a \in replies :
    /\ applied[a.slot] = {a.resource}
    /\ content[a.resource] = a.payload
    /\ a.resource \in audited
    /\ a.shown = "edited" => a.resource \in edited
    /\ a.shown = "gone" => a.resource \in deleted

(* The local variables of run and of the create it wraps. *)
LocalsOK ==
  \A r \in Requests :
    /\ at[r] = "idle" => slot[r] = NoSlot
    /\ at[r] # "idle" => asked[r] \in Payloads
    /\ at[r] \in Calls \ {"validate", "insert", "audit"} => slot[r] \in Slots
    /\ at[r] \in {"audit", "complete", "reload"} => made[r] \in Resources
    /\ at[r] \in {"audit", "complete"} => content[made[r]] = asked[r]
    /\ at[r] = "complete" => made[r] \in audited
    /\ at[r] = "reload" => /\ state[slot[r]] = "completed"
                          /\ made[r] = result[slot[r]]
                          /\ payload[slot[r]] = asked[r]

(* One request at a time holds a reservation, which is pending while held; *)
(* what was created under it is what the holder has made.                  *)
HolderOK(s) ==
  \A r \in Requests : Holds(r, s) =>
    /\ state[s] = "pending"
    /\ payload[s] = asked[r]
    /\ applied[s] = IF at[r] \in {"audit", "complete"} THEN {made[r]} ELSE {}
    /\ \A q \in Requests : Holds(q, s) => q = r

(* A free slot has nothing to replay, a completed one names its resource;  *)
(* what was applied was created.                                           *)
RecordOK(s) ==
  /\ \A x \in applied[s] : content[x] \in Payloads
  /\ state[s] = "none" => applied[s] = {}
  /\ state[s] = "completed" => /\ result[s] \in Resources
                              /\ applied[s] = {result[s]}
                              /\ content[result[s]] = payload[s]
                              /\ payload[s] \in Payloads
                              /\ result[s] \in audited
  /\ \A a \in replies : a.slot = s => state[s] = "completed"

(* The inductive invariant. *)
OnceInv ==
  /\ TypeOK
  /\ LocalsOK
  /\ \A s \in Slots : HolderOK(s) /\ RecordOK(s)
  /\ AtMostOnce
  /\ RepliesNameTheCreate

(* Whatever fails and when, also after the insert: one request at a time   *)
(* holds a reservation, and a completed record is the one its answers      *)
(* name.                                                                   *)
SoleHolder(s) ==
  \A r \in Requests : Holds(r, s) =>
    /\ state[s] = "pending"
    /\ payload[s] = asked[r]
    /\ at[r] \in {"audit", "complete"} => made[r] \in applied[s]
    /\ \A q \in Requests : Holds(q, s) => q = r

CompletedOK(s) ==
  /\ \A x \in applied[s] : content[x] \in Payloads
  /\ state[s] = "completed" => /\ result[s] \in applied[s]
                              /\ content[result[s]] = payload[s]
                              /\ result[s] \in audited
  /\ \A a \in replies : a.slot = s => /\ state[s] = "completed"
                                     /\ a.payload = payload[s]
                                     /\ a.resource = result[s]

(* The inductive invariant that needs no clean failures. *)
ReservationInv ==
  /\ TypeOK
  /\ LocalsOK
  /\ \A s \in Slots : SoleHolder(s) /\ CompletedOK(s)

(* The answers under a key never disagree on what was created, even where  *)
(* a late failure made the create apply twice: they are about one          *)
(* resource, made under that key from that payload and recorded in the     *)
(* audit log.                                                              *)
AnswersAgree ==
  \A a \in replies :
    /\ \A b \in replies : b.slot = a.slot => b.payload = a.payload /\ b.resource = a.resource
    /\ a.resource \in applied[a.slot]
    /\ content[a.resource] = a.payload
    /\ a.resource \in audited

(* A create made under a slot, as a client knows it, and those it was told *)
(* of with a 201.                                                          *)
CreatedUnder(s) == {[payload |-> content[x], resource |-> x] : x \in applied[s]}
ConfirmedUnder(s) ==
  {[payload |-> a.payload, resource |-> a.resource] : a \in {b \in replies : b.slot = s /\ b.shown # "gone"}}

(* The reservation protocol makes the promise of the key.                  *)
Abstract == INSTANCE KeyedCreates WITH
  created <- [s \in Slots |-> CreatedUnder(s)],
  confirmed <- [s \in Slots |-> ConfirmedUnder(s)],
  taken <- {x \in Resources : content[x] # NoPayload},
  recorded <- audited
ImplementsKeyedCreates == Abstract!Spec

(* A key is not refused for ever: when its request runs on and can delete  *)
(* the record, a pending key is completed or freed.                        *)
PendingSettles ==
  \A s \in Slots : state[s] = "pending" ~> state[s] # "pending" \/ s \in abandoned
=============================================================================
