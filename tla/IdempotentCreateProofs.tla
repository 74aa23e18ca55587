------------------------ MODULE IdempotentCreateProofs ------------------------
(***************************************************************************)
(* Proofs about IdempotentCreate.  The at-most-once promise, and with it   *)
(* the refinement of KeyedCreates, rests on one assumption, named          *)
(* CleanFailures: a call rejects only where nothing was inserted yet.  The *)
(* argument: the unique index lets one request at a time hold a slot       *)
(* (HolderOK); the holder has made what was applied, and a completed       *)
(* record names it (RecordOK); a slot is freed only while nothing was      *)
(* applied under it.                                                       *)
(*                                                                         *)
(* What remains without it is proved at the end: one holder at a time,     *)
(* and answers that never contradict each other (ReservationInv,           *)
(* AnswersAgree).                                                          *)
(***************************************************************************)
EXTENDS IdempotentCreate, TLAPS

(* Neither the audit append nor the completion rejects. *)
CleanFailures == Rejecting \cap {"audit", "complete"} = {}

LEMMA OnceInit == Init => OnceInv
<1> SUFFICES ASSUME Init PROVE OnceInv
  OBVIOUS
<1> USE CreateAssumption DEF Init
<1>1. TypeOK
  BY DEF TypeOK, Reply
<1>2. LocalsOK
  BY DEF LocalsOK, Calls
<1>3. ASSUME NEW s \in Slots PROVE HolderOK(s) /\ RecordOK(s)
  BY DEF HolderOK, RecordOK, Holds, Guarded
<1>4. AtMostOnce /\ RepliesNameTheCreate
  BY DEF AtMostOnce, RepliesNameTheCreate
<1> QED
  BY <1>1, <1>2, <1>3, <1>4 DEF OnceInv

LEMMA TypeStep == TypeOK /\ LocalsOK /\ [Next]_vars => TypeOK'
<1> SUFFICES ASSUME TypeOK, LocalsOK, [Next]_vars PROVE TypeOK'
  OBVIOUS
<1> USE CreateAssumption DEF TypeOK, Calls, recordVars, resourceVars, requestVars
<1>1. ASSUME NEW r \in Requests, NEW s \in Slots \cup {NoSlot}, NEW p \in Payloads, Arrive(r, s, p) PROVE TypeOK'
  BY <1>1 DEF Arrive, LocalsOK
<1>2. ASSUME NEW r \in Requests, Reserve(r) PROVE TypeOK'
  BY <1>2 DEF Reserve, Goto, LocalsOK
<1>3. ASSUME NEW r \in Requests, Validate(r) PROVE TypeOK'
  BY <1>3 DEF Validate, Goto, LocalsOK
<1>4. ASSUME NEW r \in Requests, Insert(r) PROVE TypeOK'
  BY <1>4 DEF Insert, LocalsOK
<1>5. ASSUME NEW r \in Requests, Audit(r) PROVE TypeOK'
  BY <1>5 DEF Audit, Goto, Leave, LocalsOK
<1>6. ASSUME NEW r \in Requests, Complete(r) PROVE TypeOK'
  BY <1>6 DEF Complete, Answer, Leave, Reply, LocalsOK
<1>7. ASSUME NEW r \in Requests, Release(r) PROVE TypeOK'
  BY <1>7 DEF Release, Leave, LocalsOK
<1>8. ASSUME NEW r \in Requests, Lookup(r) PROVE TypeOK'
  BY <1>8 DEF Lookup, Leave, LocalsOK
<1>9. ASSUME NEW r \in Requests, Reload(r) PROVE TypeOK'
  BY <1>9 DEF Reload, Answer, Shown, Leave, Reply, LocalsOK
<1>10. ASSUME NEW r \in Requests, Reject(r) PROVE TypeOK'
  BY <1>10 DEF Reject, Goto, Leave, LocalsOK
<1>11. ASSUME NEW r \in Requests, Crash(r) PROVE TypeOK'
  BY <1>11 DEF Crash, Leave, LocalsOK
<1>12. ASSUME NEW s \in Slots, Purge(s) PROVE TypeOK'
  BY <1>12 DEF Purge, LocalsOK
<1>13. ASSUME NEW x \in Resources, Edit(x) \/ Delete(x) PROVE TypeOK'
  BY <1>13 DEF Edit, Delete, LocalsOK
<1>14. CASE UNCHANGED vars
  BY <1>14 DEF vars
<1> QED
  BY <1>1, <1>2, <1>3, <1>4, <1>5, <1>6, <1>7, <1>8, <1>9, <1>10, <1>11, <1>12,
     <1>13, <1>14 DEF Next, Continue

LEMMA OnceStep == CleanFailures /\ OnceInv /\ [Next]_vars => OnceInv'
<1> SUFFICES ASSUME CleanFailures, OnceInv, [Next]_vars PROVE OnceInv'
  OBVIOUS
<1> USE CreateAssumption
    DEF OnceInv, Calls, Guarded, Holds, recordVars, resourceVars, requestVars
<1>0. TypeOK'
  BY TypeStep
<1>1. ASSUME NEW r \in Requests, NEW s \in Slots \cup {NoSlot}, NEW p \in Payloads, Arrive(r, s, p) PROVE OnceInv'
  <2> USE <1>0, <1>1 DEF Arrive, TypeOK
  <2>1. LocalsOK'
    BY DEF LocalsOK, HolderOK, RecordOK
  <2>2. ASSUME NEW z \in Slots PROVE HolderOK(z)'
    BY DEF LocalsOK, HolderOK, RecordOK, CleanFailures
  <2>3. ASSUME NEW z \in Slots PROVE RecordOK(z)'
    BY DEF LocalsOK, HolderOK, RecordOK, CleanFailures
  <2>4. AtMostOnce'
    BY DEF AtMostOnce, HolderOK
  <2>5. RepliesNameTheCreate'
    BY DEF RepliesNameTheCreate, LocalsOK, HolderOK, RecordOK
  <2> QED
    BY <2>1, <2>2, <2>3, <2>4, <2>5
<1>2. ASSUME NEW r \in Requests, Reserve(r) PROVE OnceInv'
  <2> USE <1>0, <1>2 DEF Reserve, Goto, TypeOK
  <2>1. LocalsOK'
    BY DEF LocalsOK, HolderOK, RecordOK
  <2>2. ASSUME NEW z \in Slots PROVE HolderOK(z)'
    BY DEF LocalsOK, HolderOK, RecordOK, CleanFailures
  <2>3. ASSUME NEW z \in Slots PROVE RecordOK(z)'
    BY DEF LocalsOK, HolderOK, RecordOK, CleanFailures
  <2>4. AtMostOnce'
    BY DEF AtMostOnce, HolderOK
  <2>5. RepliesNameTheCreate'
    BY DEF RepliesNameTheCreate, LocalsOK, HolderOK, RecordOK
  <2> QED
    BY <2>1, <2>2, <2>3, <2>4, <2>5
<1>3. ASSUME NEW r \in Requests, Validate(r) PROVE OnceInv'
  <2> USE <1>0, <1>3 DEF Validate, Goto, TypeOK
  <2>1. LocalsOK'
    BY DEF LocalsOK, HolderOK, RecordOK
  <2>2. ASSUME NEW z \in Slots PROVE HolderOK(z)'
    BY DEF LocalsOK, HolderOK, RecordOK, CleanFailures
  <2>3. ASSUME NEW z \in Slots PROVE RecordOK(z)'
    BY DEF LocalsOK, HolderOK, RecordOK, CleanFailures
  <2>4. AtMostOnce'
    BY DEF AtMostOnce, HolderOK
  <2>5. RepliesNameTheCreate'
    BY DEF RepliesNameTheCreate, LocalsOK, HolderOK, RecordOK
  <2> QED
    BY <2>1, <2>2, <2>3, <2>4, <2>5
<1>4. ASSUME NEW r \in Requests, Insert(r) PROVE OnceInv'
  <2> USE <1>0 DEF TypeOK
  <2>0. PICK x \in Resources :
           /\ content[x] = NoPayload
           /\ content' = [content EXCEPT ![x] = asked[r]]
           /\ made' = [made EXCEPT ![r] = x]
           /\ applied' = IF slot[r] = NoSlot
                           THEN applied
                           ELSE [applied EXCEPT ![slot[r]] = @ \cup {x}]
    BY <1>4 DEF Insert
  <2>a. /\ at[r] = "insert" /\ at' = [at EXCEPT ![r] = "audit"]
        /\ UNCHANGED <<slot, asked, state, payload, result, edited, deleted, audited, replies>>
    BY <1>4 DEF Insert
  <2>1. LocalsOK'
    BY <2>0, <2>a DEF LocalsOK, RecordOK
  <2>2. ASSUME NEW z \in Slots PROVE HolderOK(z)'
    <3>1. \A q \in Requests : Holds(q, z)' <=> Holds(q, z)
      BY <2>a
    <3>2. Holds(r, z) <=> slot[r] = z
      BY <2>a
    <3>3. \A q \in Requests : q # r => at'[q] = at[q] /\ made'[q] = made[q]
      BY <2>0, <2>a
    <3>4. at'[r] = "audit" /\ made'[r] = x
      BY <2>0, <2>a
    <3>5. slot[r] = z => applied[z] = {} /\ applied'[z] = {x}
      BY <2>0, <2>a, <3>2 DEF HolderOK
    <3>6. slot[r] # z => applied'[z] = applied[z]
      BY <2>0
    <3>7. ASSUME NEW q \in Requests, Holds(q, z)
          PROVE  applied'[z] = IF at'[q] \in {"audit", "complete"} THEN {made'[q]} ELSE {}
      <4>1. CASE q = r
        BY <3>4, <3>5, <3>7, <4>1
      <4>2. CASE q # r
        <5>1. ~ Holds(r, z)
          BY <3>7, <4>2 DEF HolderOK
        <5> QED
          BY <3>2, <3>3, <3>6, <3>7, <4>2, <5>1 DEF HolderOK
      <4> QED
        BY <4>1, <4>2
    <3> HIDE DEF Holds
    <3> QED
      BY <2>a, <3>1, <3>7 DEF HolderOK
  <2>3. ASSUME NEW z \in Slots PROVE RecordOK(z)'
    <3>1. asked[r] \in Payloads
      BY <2>a DEF LocalsOK
    <3>2. \A y \in applied'[z] : content'[y] \in Payloads
      BY <2>0, <3>1 DEF RecordOK
    <3>3. slot[r] = z => state[z] = "pending"
      BY <2>a DEF HolderOK
    <3>4. \A b \in replies : b.slot = z => state[z] = "completed"
      BY DEF RecordOK
    <3>5. state[z] = "completed" => result[z] # x
      BY <2>0 DEF RecordOK
    <3> QED
      BY <2>0, <2>a, <3>2, <3>3, <3>4, <3>5 DEF RecordOK
  <2>4. AtMostOnce'
    BY <2>0, <2>a DEF AtMostOnce, HolderOK
  <2>5. RepliesNameTheCreate'
    <3>1. SUFFICES ASSUME NEW b \in replies
                   PROVE  /\ applied'[b.slot] = {b.resource}
                          /\ content'[b.resource] = b.payload
                          /\ b.resource \in audited
                          /\ b.shown = "edited" => b.resource \in edited
                          /\ b.shown = "gone" => b.resource \in deleted
      BY <2>a DEF RepliesNameTheCreate
    <3>2. b.slot \in Slots /\ b.payload \in Payloads /\ b.resource \in Resources
      BY DEF Reply
    <3>3. b.slot # slot[r]
      BY <2>a, <3>2 DEF HolderOK, RecordOK
    <3>4. b.resource # x
      BY <2>0, <3>2 DEF RepliesNameTheCreate
    <3> QED
      BY <2>0, <3>2, <3>3, <3>4 DEF RepliesNameTheCreate
  <2> QED
    BY <2>1, <2>2, <2>3, <2>4, <2>5
<1>5. ASSUME NEW r \in Requests, Audit(r) PROVE OnceInv'
  <2> USE <1>0, <1>5 DEF Audit, Goto, Leave, TypeOK
  <2>1. LocalsOK'
    BY DEF LocalsOK, HolderOK, RecordOK
  <2>2. ASSUME NEW z \in Slots PROVE HolderOK(z)'
    BY DEF LocalsOK, HolderOK, RecordOK, CleanFailures
  <2>3. ASSUME NEW z \in Slots PROVE RecordOK(z)'
    BY DEF LocalsOK, HolderOK, RecordOK, CleanFailures
  <2>4. AtMostOnce'
    BY DEF AtMostOnce, HolderOK
  <2>5. RepliesNameTheCreate'
    BY DEF RepliesNameTheCreate, LocalsOK, HolderOK, RecordOK
  <2> QED
    BY <2>1, <2>2, <2>3, <2>4, <2>5
<1>6. ASSUME NEW r \in Requests, Complete(r) PROVE OnceInv'
  <2> USE <1>0, <1>6 DEF Complete, Answer, Leave, Reply, TypeOK
  <2>1. LocalsOK'
    BY DEF LocalsOK, HolderOK, RecordOK
  <2>2. ASSUME NEW z \in Slots PROVE HolderOK(z)'
    BY DEF LocalsOK, HolderOK, RecordOK, CleanFailures
  <2>3. ASSUME NEW z \in Slots PROVE RecordOK(z)'
    BY DEF LocalsOK, HolderOK, RecordOK, CleanFailures
  <2>4. AtMostOnce'
    BY DEF AtMostOnce, HolderOK
  <2>5. RepliesNameTheCreate'
    BY DEF RepliesNameTheCreate, LocalsOK, HolderOK, RecordOK
  <2> QED
    BY <2>1, <2>2, <2>3, <2>4, <2>5
<1>7. ASSUME NEW r \in Requests, Release(r) PROVE OnceInv'
  <2> USE <1>0, <1>7 DEF Release, Leave, TypeOK
  <2>1. LocalsOK'
    BY DEF LocalsOK, HolderOK, RecordOK
  <2>2. ASSUME NEW z \in Slots PROVE HolderOK(z)'
    BY DEF LocalsOK, HolderOK, RecordOK, CleanFailures
  <2>3. ASSUME NEW z \in Slots PROVE RecordOK(z)'
    BY DEF LocalsOK, HolderOK, RecordOK, CleanFailures
  <2>4. AtMostOnce'
    BY DEF AtMostOnce, HolderOK
  <2>5. RepliesNameTheCreate'
    BY DEF RepliesNameTheCreate, LocalsOK, HolderOK, RecordOK
  <2> QED
    BY <2>1, <2>2, <2>3, <2>4, <2>5
<1>8. ASSUME NEW r \in Requests, Lookup(r) PROVE OnceInv'
  <2> USE <1>0, <1>8 DEF Lookup, Leave, TypeOK
  <2>1. LocalsOK'
    BY DEF LocalsOK, HolderOK, RecordOK
  <2>2. ASSUME NEW z \in Slots PROVE HolderOK(z)'
    BY DEF LocalsOK, HolderOK, RecordOK, CleanFailures
  <2>3. ASSUME NEW z \in Slots PROVE RecordOK(z)'
    BY DEF LocalsOK, HolderOK, RecordOK, CleanFailures
  <2>4. AtMostOnce'
    BY DEF AtMostOnce, HolderOK
  <2>5. RepliesNameTheCreate'
    BY DEF RepliesNameTheCreate, LocalsOK, HolderOK, RecordOK
  <2> QED
    BY <2>1, <2>2, <2>3, <2>4, <2>5
<1>9. ASSUME NEW r \in Requests, Reload(r) PROVE OnceInv'
  <2> USE <1>0, <1>9 DEF Reload, Answer, Shown, Leave, Reply, TypeOK
  <2>1. LocalsOK'
    BY DEF LocalsOK, HolderOK, RecordOK
  <2>2. ASSUME NEW z \in Slots PROVE HolderOK(z)'
    BY DEF LocalsOK, HolderOK, RecordOK, CleanFailures
  <2>3. ASSUME NEW z \in Slots PROVE RecordOK(z)'
    BY DEF LocalsOK, HolderOK, RecordOK, CleanFailures
  <2>4. AtMostOnce'
    BY DEF AtMostOnce, HolderOK
  <2>5. RepliesNameTheCreate'
    BY DEF RepliesNameTheCreate, LocalsOK, HolderOK, RecordOK
  <2> QED
    BY <2>1, <2>2, <2>3, <2>4, <2>5
<1>10. ASSUME NEW r \in Requests, Reject(r) PROVE OnceInv'
  <2> USE <1>0, <1>10 DEF Reject, Goto, Leave, TypeOK
  <2>1. LocalsOK'
    BY DEF LocalsOK, HolderOK, RecordOK
  <2>2. ASSUME NEW z \in Slots PROVE HolderOK(z)'
    BY DEF LocalsOK, HolderOK, RecordOK, CleanFailures
  <2>3. ASSUME NEW z \in Slots PROVE RecordOK(z)'
    BY DEF LocalsOK, HolderOK, RecordOK, CleanFailures
  <2>4. AtMostOnce'
    BY DEF AtMostOnce, HolderOK
  <2>5. RepliesNameTheCreate'
    BY DEF RepliesNameTheCreate, LocalsOK, HolderOK, RecordOK
  <2> QED
    BY <2>1, <2>2, <2>3, <2>4, <2>5
<1>11. ASSUME NEW r \in Requests, Crash(r) PROVE OnceInv'
  <2> USE <1>0, <1>11 DEF Crash, Leave, TypeOK
  <2>1. LocalsOK'
    BY DEF LocalsOK, HolderOK, RecordOK
  <2>2. ASSUME NEW z \in Slots PROVE HolderOK(z)'
    BY DEF LocalsOK, HolderOK, RecordOK, CleanFailures
  <2>3. ASSUME NEW z \in Slots PROVE RecordOK(z)'
    BY DEF LocalsOK, HolderOK, RecordOK, CleanFailures
  <2>4. AtMostOnce'
    BY DEF AtMostOnce, HolderOK
  <2>5. RepliesNameTheCreate'
    BY DEF RepliesNameTheCreate, LocalsOK, HolderOK, RecordOK
  <2> QED
    BY <2>1, <2>2, <2>3, <2>4, <2>5
<1>12. ASSUME NEW s \in Slots, Purge(s) PROVE OnceInv'
  <2> USE <1>0, <1>12 DEF Purge, TypeOK
  <2>1. LocalsOK'
    BY DEF LocalsOK, HolderOK, RecordOK
  <2>2. ASSUME NEW z \in Slots PROVE HolderOK(z)'
    <3>1. CASE z = s
      BY <3>1 DEF HolderOK
    <3>2. CASE z # s
      BY <3>2 DEF HolderOK
    <3> QED
      BY <3>1, <3>2
  <2>3. ASSUME NEW z \in Slots PROVE RecordOK(z)'
    BY DEF LocalsOK, HolderOK, RecordOK, CleanFailures
  <2>4. AtMostOnce'
    BY DEF AtMostOnce, HolderOK
  <2>5. RepliesNameTheCreate'
    BY DEF RepliesNameTheCreate, LocalsOK, HolderOK, RecordOK
  <2> QED
    BY <2>1, <2>2, <2>3, <2>4, <2>5
<1>13. ASSUME NEW x \in Resources, Edit(x) \/ Delete(x) PROVE OnceInv'
  <2> USE <1>0, <1>13 DEF Edit, Delete, TypeOK
  <2>1. LocalsOK'
    BY DEF LocalsOK, HolderOK, RecordOK
  <2>2. ASSUME NEW z \in Slots PROVE HolderOK(z)'
    BY DEF LocalsOK, HolderOK, RecordOK, CleanFailures
  <2>3. ASSUME NEW z \in Slots PROVE RecordOK(z)'
    BY DEF LocalsOK, HolderOK, RecordOK, CleanFailures
  <2>4. AtMostOnce'
    BY DEF AtMostOnce, HolderOK
  <2>5. RepliesNameTheCreate'
    BY DEF RepliesNameTheCreate, LocalsOK, HolderOK, RecordOK
  <2> QED
    BY <2>1, <2>2, <2>3, <2>4, <2>5
<1>14. CASE UNCHANGED vars
  <2> USE <1>0, <1>14 DEF vars
  <2>1. LocalsOK'
    BY DEF LocalsOK
  <2>2. ASSUME NEW z \in Slots PROVE HolderOK(z)' /\ RecordOK(z)'
    BY DEF HolderOK, RecordOK
  <2>3. AtMostOnce' /\ RepliesNameTheCreate'
    BY DEF AtMostOnce, RepliesNameTheCreate
  <2> QED
    BY <2>1, <2>2, <2>3
<1> QED
  BY <1>1, <1>2, <1>3, <1>4, <1>5, <1>6, <1>7, <1>8, <1>9, <1>10, <1>11, <1>12,
     <1>13, <1>14 DEF Next, Continue

-----------------------------------------------------------------------------
(* The invariant OnceInv of IdempotentCreate, for any number of members,   *)
(* keys and requests, crashes included.                                    *)
THEOREM OnceInvariant == CleanFailures => (Spec => []OnceInv)
<1> SUFFICES ASSUME CleanFailures PROVE Spec => []OnceInv
  OBVIOUS
<1>1. OnceInv /\ [Next]_vars => OnceInv'
  BY OnceStep
<1> QED
  BY <1>1, OnceInit, PTL DEF Spec

(* A key makes a create apply at most once (IdempotencyService.run), as    *)
(* long as nothing throws after the insert.                                *)
THEOREM CreateAppliesAtMostOnce == CleanFailures => (Spec => []AtMostOnce)
<1>1. OnceInv => AtMostOnce
  BY DEF OnceInv
<1> QED
  BY <1>1, OnceInvariant, PTL

(* Every answer under a key, first or replay, is about the one resource    *)
(* created under it from the payload that was sent, and shows something    *)
(* else than what was created only after an edit or a deletion (run,       *)
(* getMovement, getTransfer).                                              *)
THEOREM RepliesTellTheCreate == CleanFailures => (Spec => []RepliesNameTheCreate)
<1>1. OnceInv => RepliesNameTheCreate
  BY DEF OnceInv
<1> QED
  BY <1>1, OnceInvariant, PTL

-----------------------------------------------------------------------------
(* The refinement of KeyedCreates.                                         *)
CreatedBar == [s \in Slots |-> CreatedUnder(s)]
ConfirmedBar == [s \in Slots |-> ConfirmedUnder(s)]
TakenBar == {x \in Resources : content[x] # NoPayload}

(* A step that leaves the history and the resources alone is a stutter.    *)
LEMMA QuietStep ==
  ASSUME UNCHANGED <<content, audited, applied, replies>>
  PROVE  UNCHANGED Abstract!createVars
<1>1. \A s \in Slots : CreatedUnder(s)' = CreatedUnder(s) /\ ConfirmedUnder(s)' = ConfirmedUnder(s)
  BY DEF CreatedUnder, ConfirmedUnder
<1> QED
  BY <1>1 DEF Abstract!createVars

(* What clients were told of under s is the one create made under it. *)
LEMMA ConfirmedIsCreated ==
  ASSUME OnceInv, NEW s \in Slots, NEW c \in ConfirmedUnder(s)
  PROVE  CreatedUnder(s) = {c}
<1>1. PICK a \in replies : a.slot = s /\ c = [payload |-> a.payload, resource |-> a.resource]
  BY DEF ConfirmedUnder
<1>2. applied[s] = {a.resource} /\ content[a.resource] = a.payload
  BY <1>1 DEF OnceInv, RepliesNameTheCreate
<1> QED
  BY <1>1, <1>2 DEF CreatedUnder

(* An answer to the holder of a slot or to a replay confirms what was made.*)
LEMMA AnswerConfirms ==
  ASSUME OnceInv, NEW s \in Slots, NEW p \in Payloads, NEW x \in Resources,
         NEW shown \in {"original", "edited"},
         replies' = replies \cup {[slot |-> s, payload |-> p, resource |-> x, shown |-> shown]},
         applied[s] = {x}, content[x] = p, x \in audited,
         UNCHANGED <<content, audited, applied>>
  PROVE  Abstract!Next
<1> DEFINE c == [payload |-> p, resource |-> x]
           a == [slot |-> s, payload |-> p, resource |-> x, shown |-> shown]
<1>1. replies' = replies \cup {a}
  OBVIOUS
<1>2. CreatedUnder(s) = {c}
  BY DEF CreatedUnder
<1>3. ConfirmedUnder(s)' = {c}
  <2>1. \A d \in ConfirmedUnder(s) : d = c
    BY <1>2, ConfirmedIsCreated
  <2>2. ConfirmedUnder(s)' = ConfirmedUnder(s) \cup {c}
    <3>1. ConfirmedUnder(s)' = {[payload |-> b.payload, resource |-> b.resource] :
                                  b \in {d \in replies \cup {a} : d.slot = s /\ d.shown # "gone"}}
      BY <1>1 DEF ConfirmedUnder
    <3>2. {d \in replies \cup {a} : d.slot = s /\ d.shown # "gone"}
            = {d \in replies : d.slot = s /\ d.shown # "gone"} \cup {a}
      OBVIOUS
    <3>3. [payload |-> a.payload, resource |-> a.resource] = c
      OBVIOUS
    <3> HIDE DEF a, c
    <3> QED
      BY <3>1, <3>2, <3>3 DEF ConfirmedUnder
  <2> QED
    BY <2>1, <2>2
<1>4. \A z \in Slots : z # s => ConfirmedUnder(z)' = ConfirmedUnder(z)
  BY <1>1 DEF ConfirmedUnder
<1>5. \A z \in Slots : CreatedUnder(z)' = CreatedUnder(z)
  BY DEF CreatedUnder
<1>6. ConfirmedBar' = [ConfirmedBar EXCEPT ![s] = {c}]
  BY <1>3, <1>4 DEF ConfirmedBar
<1>7. CreatedBar' = CreatedBar /\ CreatedBar[s] = {c}
  BY <1>2, <1>5 DEF CreatedBar
<1>8. c.resource \in audited /\ c \in CreatedBar[s]
  BY <1>7
<1>9. Abstract!Confirm(s, c)
  BY <1>6, <1>7, <1>8 DEF Abstract!Confirm, CreatedBar, ConfirmedBar
<1> HIDE DEF c
<1> QED
  BY <1>8, <1>9 DEF Abstract!Next, CreatedBar


(* An insert under a key is the first create made under it. *)
LEMMA InsertMakes ==
  ASSUME OnceInv, NEW s \in Slots, NEW p \in Payloads, NEW x \in Resources,
         content[x] = NoPayload, applied[s] = {},
         content' = [content EXCEPT ![x] = p],
         applied' = [applied EXCEPT ![s] = {x}],
         UNCHANGED <<audited, replies>>
  PROVE  Abstract!Next
<1> DEFINE c == [payload |-> p, resource |-> x]
<1> USE CreateAssumption
<1>1. TypeOK /\ \A z \in Slots : x \notin applied[z]
  BY DEF OnceInv, RecordOK
<1>2. CreatedUnder(s) = {} /\ CreatedUnder(s)' = {c}
  BY <1>1 DEF CreatedUnder, TypeOK
<1>3. ASSUME NEW z \in Slots, z # s
      PROVE  CreatedUnder(z)' = CreatedUnder(z)
  BY <1>1, <1>3 DEF CreatedUnder, TypeOK
<1>4. CreatedBar[s] = {} /\ CreatedBar' = [CreatedBar EXCEPT ![s] = {c}]
  BY <1>2, <1>3 DEF CreatedBar
<1>5. ConfirmedBar' = ConfirmedBar
  BY DEF ConfirmedBar, ConfirmedUnder
<1>6. x \notin TakenBar /\ TakenBar' = TakenBar \cup {x}
  BY <1>1 DEF TakenBar, TypeOK
<1>7. Abstract!Make(s, p, x)
  BY <1>4, <1>5, <1>6 DEF Abstract!Make, CreatedBar, ConfirmedBar, TakenBar
<1> QED
  BY <1>7 DEF Abstract!Next

(* Every step is one of the abstract specification, or a stutter.          *)
LEMMA StepRefines == OnceInv /\ [Next]_vars => [Abstract!Next]_(Abstract!createVars)
<1> SUFFICES ASSUME OnceInv, [Next]_vars
             PROVE  [Abstract!Next]_(Abstract!createVars)
  OBVIOUS
<1> USE CreateAssumption DEF recordVars, resourceVars, requestVars
<1>0. TypeOK /\ LocalsOK /\ RepliesNameTheCreate /\ \A s \in Slots : HolderOK(s) /\ RecordOK(s)
  BY DEF OnceInv
(* Steps that only move the request or its reservation. *)
<1>1. ASSUME NEW r \in Requests,
             \/ Reserve(r) \/ Validate(r) \/ Release(r)
             \/ Lookup(r) \/ Reject(r) \/ Crash(r)
      PROVE  UNCHANGED Abstract!createVars
  BY <1>1, QuietStep DEF Reserve, Validate, Release, Lookup, Reject, Crash
<1>2. ASSUME NEW r \in Requests, NEW s \in Slots \cup {NoSlot}, NEW p \in Payloads, Arrive(r, s, p)
      PROVE  UNCHANGED Abstract!createVars
  BY <1>2, QuietStep DEF Arrive
<1>3. ASSUME NEW x \in Resources, Edit(x) \/ Delete(x)
      PROVE  UNCHANGED Abstract!createVars
  BY <1>3, QuietStep DEF Edit, Delete
(* The insert under a key implements Make, the one without MakeUnkeyed.    *)
<1>4. ASSUME NEW r \in Requests, Insert(r)
      PROVE  Abstract!Next
  <2>1. PICK x \in Resources :
           /\ content[x] = NoPayload
           /\ content' = [content EXCEPT ![x] = asked[r]]
           /\ applied' = IF slot[r] = NoSlot
                           THEN applied
                           ELSE [applied EXCEPT ![slot[r]] = @ \cup {x}]
    BY <1>4 DEF Insert
  <2>2. at[r] = "insert" /\ asked[r] \in Payloads /\ UNCHANGED <<audited, replies>>
    BY <1>0, <1>4 DEF Insert, LocalsOK
  <2>3. CASE slot[r] = NoSlot
    <3>1. \A s \in Slots : CreatedUnder(s)' = CreatedUnder(s) /\ ConfirmedUnder(s)' = ConfirmedUnder(s)
      BY <1>0, <2>1, <2>2, <2>3 DEF CreatedUnder, ConfirmedUnder, RecordOK, TypeOK
    <3>2. CreatedBar' = CreatedBar /\ ConfirmedBar' = ConfirmedBar
      BY <3>1 DEF CreatedBar, ConfirmedBar
    <3>3. x \notin TakenBar /\ TakenBar' = TakenBar \cup {x}
      BY <1>0, <2>1, <2>2 DEF TakenBar, TypeOK
    <3>4. Abstract!MakeUnkeyed(x)
      BY <2>2, <3>2, <3>3 DEF Abstract!MakeUnkeyed, CreatedBar, ConfirmedBar, TakenBar
    <3> QED
      BY <3>4 DEF Abstract!Next
  <2>4. CASE slot[r] # NoSlot
    <3>1. slot[r] \in Slots /\ Holds(r, slot[r])
      BY <1>0, <2>2, <2>4 DEF TypeOK, Holds, Guarded
    <3>2. applied[slot[r]] = {}
      BY <1>0, <2>2, <3>1 DEF HolderOK
    <3>3. applied' = [applied EXCEPT ![slot[r]] = {x}]
      BY <2>1, <2>4, <3>2
    <3> QED
      BY <2>1, <2>2, <3>1, <3>2, <3>3, InsertMakes
  <2> QED
    BY <2>3, <2>4
(* The audit event implements Record. *)
<1>5. ASSUME NEW r \in Requests, Audit(r)
      PROVE  Abstract!Next
  <2>1. made[r] \in Resources /\ content[made[r]] # NoPayload
    BY <1>0, <1>5 DEF Audit, LocalsOK
  <2>2. audited' = audited \cup {made[r]} /\ UNCHANGED <<content, applied, replies>>
    BY <1>5 DEF Audit
  <2>3. CreatedBar' = CreatedBar /\ ConfirmedBar' = ConfirmedBar /\ TakenBar' = TakenBar
    BY <2>2 DEF CreatedBar, ConfirmedBar, TakenBar, CreatedUnder, ConfirmedUnder
  <2>4. Abstract!Record(made[r])
    BY <2>1, <2>2, <2>3 DEF Abstract!Record, CreatedBar, ConfirmedBar, TakenBar
  <2> QED
    BY <2>1, <2>4 DEF Abstract!Next
(* The completion and a replay that finds its resource implement Confirm.  *)
<1>6. ASSUME NEW r \in Requests, Complete(r)
      PROVE  Abstract!Next
  <2>1. /\ at[r] = "complete" /\ slot[r] \in Slots /\ asked[r] \in Payloads
        /\ made[r] \in Resources /\ content[made[r]] = asked[r] /\ made[r] \in audited
    BY <1>0, <1>6 DEF Complete, LocalsOK, Calls
  <2>2. Holds(r, slot[r])
    BY <2>1 DEF Holds, Guarded
  <2>3. applied[slot[r]] = {made[r]}
    BY <1>0, <2>1, <2>2 DEF HolderOK
  <2>4. /\ replies' = replies \cup {[slot |-> slot[r], payload |-> asked[r], resource |-> made[r],
                                     shown |-> "original"]}
        /\ UNCHANGED <<content, audited, applied>>
    BY <1>6, <2>1 DEF Complete, Answer
  <2> QED
    BY <2>1, <2>3, <2>4, AnswerConfirms
<1>7. ASSUME NEW r \in Requests, Reload(r)
      PROVE  [Abstract!Next]_(Abstract!createVars)
  <2> DEFINE shown == Shown(made[r])
  <2>1. /\ at[r] = "reload" /\ slot[r] \in Slots /\ asked[r] \in Payloads
        /\ state[slot[r]] = "completed"
        /\ made[r] = result[slot[r]] /\ payload[slot[r]] = asked[r]
    BY <1>0, <1>7 DEF Reload, LocalsOK, Calls
  <2>2. /\ replies' = replies \cup {[slot |-> slot[r], payload |-> asked[r], resource |-> made[r],
                                     shown |-> shown]}
        /\ UNCHANGED <<content, audited, applied>>
    BY <1>7, <2>1 DEF Reload, Answer
  <2>3. CASE shown = "gone"
    <3>1. \A s \in Slots : CreatedUnder(s)' = CreatedUnder(s) /\ ConfirmedUnder(s)' = ConfirmedUnder(s)
      BY <2>2, <2>3 DEF CreatedUnder, ConfirmedUnder
    <3> QED
      BY <2>2, <3>1 DEF Abstract!createVars
  <2>4. CASE shown # "gone"
    <3>1. shown \in {"original", "edited"}
      BY <2>4 DEF Shown
    <3>2. /\ made[r] \in Resources /\ applied[slot[r]] = {made[r]}
          /\ content[made[r]] = asked[r] /\ made[r] \in audited
      BY <1>0, <2>1 DEF RecordOK
    <3> HIDE DEF shown
    <3> QED
      BY <2>1, <2>2, <3>1, <3>2, AnswerConfirms
  <2> QED
    BY <2>3, <2>4
(* The purge of a record implements Forget. *)
<1>8. ASSUME NEW s \in Slots, Purge(s)
      PROVE  Abstract!Next
  <2>1. /\ applied' = [applied EXCEPT ![s] = {}]
        /\ replies' = {a \in replies : a.slot # s}
        /\ UNCHANGED <<content, audited>>
    BY <1>8 DEF Purge
  <2>2. \A z \in Slots : CreatedUnder(z)' = IF z = s THEN {} ELSE CreatedUnder(z)
    BY <1>0, <2>1 DEF CreatedUnder, TypeOK
  <2>3. \A z \in Slots : ConfirmedUnder(z)' = IF z = s THEN {} ELSE ConfirmedUnder(z)
    BY <2>1 DEF ConfirmedUnder
  <2>4. /\ CreatedBar' = [CreatedBar EXCEPT ![s] = {}]
        /\ ConfirmedBar' = [ConfirmedBar EXCEPT ![s] = {}]
        /\ TakenBar' = TakenBar
    BY <2>1, <2>2, <2>3 DEF CreatedBar, ConfirmedBar, TakenBar
  <2>5. Abstract!Forget(s)
    BY <2>1, <2>4 DEF Abstract!Forget, CreatedBar, ConfirmedBar, TakenBar
  <2> QED
    BY <2>5 DEF Abstract!Next
<1>9. CASE UNCHANGED vars
  BY <1>9, QuietStep DEF vars
<1> QED
  BY <1>1, <1>2, <1>3, <1>4, <1>5, <1>6, <1>7, <1>8, <1>9 DEF Next, Continue

LEMMA InitRefines == Init => Abstract!Init
  BY DEF Init, Abstract!Init, CreatedUnder, ConfirmedUnder

(* The reservation protocol implements KeyedCreates, as long as nothing    *)
(* throws after the insert: one create per key, confirmed only once it is  *)
(* in the audit log, never replaced while the key is retained              *)
(* (IdempotencyService.run).                                               *)
THEOREM KeysImplementCreates == CleanFailures => (Spec => ImplementsKeyedCreates)
  BY InitRefines, StepRefines, OnceInvariant, PTL
     DEF Spec, ImplementsKeyedCreates, Abstract!Spec

-----------------------------------------------------------------------------
(* What holds whatever fails: no assumption on Rejecting.                  *)
LEMMA ReservationInit == Init => ReservationInv
<1> SUFFICES ASSUME Init PROVE ReservationInv
  OBVIOUS
<1>1. TypeOK /\ LocalsOK
  BY OnceInit DEF OnceInv
<1>2. ASSUME NEW s \in Slots PROVE SoleHolder(s) /\ CompletedOK(s)
  BY DEF Init, SoleHolder, CompletedOK, Holds, Guarded
<1> QED
  BY <1>1, <1>2 DEF ReservationInv

LEMMA ReservationStep == ReservationInv /\ [Next]_vars => ReservationInv'
<1> SUFFICES ASSUME ReservationInv, [Next]_vars PROVE ReservationInv'
  OBVIOUS
<1> USE CreateAssumption
    DEF Calls, Guarded, Holds, recordVars, resourceVars, requestVars
<1>0. TypeOK' /\ TypeOK /\ LocalsOK /\ \A s \in Slots : SoleHolder(s) /\ CompletedOK(s)
  BY TypeStep DEF ReservationInv
<1>1. ASSUME NEW r \in Requests, NEW s \in Slots \cup {NoSlot}, NEW p \in Payloads, Arrive(r, s, p)
      PROVE  ReservationInv'
  <2> USE <1>0, <1>1 DEF Arrive, TypeOK
  <2>1. LocalsOK'
    BY DEF LocalsOK, SoleHolder, CompletedOK
  <2>2. ASSUME NEW z \in Slots PROVE SoleHolder(z)'
    BY DEF LocalsOK, SoleHolder, CompletedOK
  <2>3. ASSUME NEW z \in Slots PROVE CompletedOK(z)'
    BY DEF LocalsOK, SoleHolder, CompletedOK
  <2> QED
    BY <2>1, <2>2, <2>3 DEF ReservationInv
<1>2. ASSUME NEW r \in Requests, Reserve(r)
      PROVE  ReservationInv'
  <2> USE <1>0, <1>2 DEF Reserve, Goto, TypeOK
  <2>1. LocalsOK'
    BY DEF LocalsOK, SoleHolder, CompletedOK
  <2>2. ASSUME NEW z \in Slots PROVE SoleHolder(z)'
    BY DEF LocalsOK, SoleHolder, CompletedOK
  <2>3. ASSUME NEW z \in Slots PROVE CompletedOK(z)'
    BY DEF LocalsOK, SoleHolder, CompletedOK
  <2> QED
    BY <2>1, <2>2, <2>3 DEF ReservationInv
<1>3. ASSUME NEW r \in Requests, Validate(r)
      PROVE  ReservationInv'
  <2> USE <1>0, <1>3 DEF Validate, Goto, TypeOK
  <2>1. LocalsOK'
    BY DEF LocalsOK, SoleHolder, CompletedOK
  <2>2. ASSUME NEW z \in Slots PROVE SoleHolder(z)'
    BY DEF LocalsOK, SoleHolder, CompletedOK
  <2>3. ASSUME NEW z \in Slots PROVE CompletedOK(z)'
    BY DEF LocalsOK, SoleHolder, CompletedOK
  <2> QED
    BY <2>1, <2>2, <2>3 DEF ReservationInv
<1>4. ASSUME NEW r \in Requests, Insert(r)
      PROVE  ReservationInv'
  <2> USE <1>0, <1>4 DEF Insert, TypeOK
  <2>1. LocalsOK'
    BY DEF LocalsOK, SoleHolder, CompletedOK
  <2>2. ASSUME NEW z \in Slots PROVE SoleHolder(z)'
    BY DEF LocalsOK, SoleHolder, CompletedOK
  <2>3. ASSUME NEW z \in Slots PROVE CompletedOK(z)'
    BY DEF LocalsOK, SoleHolder, CompletedOK
  <2> QED
    BY <2>1, <2>2, <2>3 DEF ReservationInv
<1>5. ASSUME NEW r \in Requests, Audit(r)
      PROVE  ReservationInv'
  <2> USE <1>0, <1>5 DEF Audit, Goto, Leave, TypeOK
  <2>1. LocalsOK'
    BY DEF LocalsOK, SoleHolder, CompletedOK
  <2>2. ASSUME NEW z \in Slots PROVE SoleHolder(z)'
    BY DEF LocalsOK, SoleHolder, CompletedOK
  <2>3. ASSUME NEW z \in Slots PROVE CompletedOK(z)'
    BY DEF LocalsOK, SoleHolder, CompletedOK
  <2> QED
    BY <2>1, <2>2, <2>3 DEF ReservationInv
<1>6. ASSUME NEW r \in Requests, Complete(r)
      PROVE  ReservationInv'
  <2> USE <1>0, <1>6 DEF Complete, Answer, Leave, Reply, TypeOK
  <2>1. LocalsOK'
    BY DEF LocalsOK, SoleHolder, CompletedOK
  <2>2. ASSUME NEW z \in Slots PROVE SoleHolder(z)'
    BY DEF LocalsOK, SoleHolder, CompletedOK
  <2>3. ASSUME NEW z \in Slots PROVE CompletedOK(z)'
    BY DEF LocalsOK, SoleHolder, CompletedOK
  <2> QED
    BY <2>1, <2>2, <2>3 DEF ReservationInv
<1>7. ASSUME NEW r \in Requests, Release(r)
      PROVE  ReservationInv'
  <2> USE <1>0, <1>7 DEF Release, Leave, TypeOK
  <2>1. LocalsOK'
    BY DEF LocalsOK, SoleHolder, CompletedOK
  <2>2. ASSUME NEW z \in Slots PROVE SoleHolder(z)'
    BY DEF LocalsOK, SoleHolder, CompletedOK
  <2>3. ASSUME NEW z \in Slots PROVE CompletedOK(z)'
    BY DEF LocalsOK, SoleHolder, CompletedOK
  <2> QED
    BY <2>1, <2>2, <2>3 DEF ReservationInv
<1>8. ASSUME NEW r \in Requests, Lookup(r)
      PROVE  ReservationInv'
  <2> USE <1>0, <1>8 DEF Lookup, Leave, TypeOK
  <2>1. LocalsOK'
    BY DEF LocalsOK, SoleHolder, CompletedOK
  <2>2. ASSUME NEW z \in Slots PROVE SoleHolder(z)'
    BY DEF LocalsOK, SoleHolder, CompletedOK
  <2>3. ASSUME NEW z \in Slots PROVE CompletedOK(z)'
    BY DEF LocalsOK, SoleHolder, CompletedOK
  <2> QED
    BY <2>1, <2>2, <2>3 DEF ReservationInv
<1>9. ASSUME NEW r \in Requests, Reload(r)
      PROVE  ReservationInv'
  <2> USE <1>0, <1>9 DEF Reload, Answer, Shown, Leave, Reply, TypeOK
  <2>1. LocalsOK'
    BY DEF LocalsOK, SoleHolder, CompletedOK
  <2>2. ASSUME NEW z \in Slots PROVE SoleHolder(z)'
    BY DEF LocalsOK, SoleHolder, CompletedOK
  <2>3. ASSUME NEW z \in Slots PROVE CompletedOK(z)'
    BY DEF LocalsOK, SoleHolder, CompletedOK
  <2> QED
    BY <2>1, <2>2, <2>3 DEF ReservationInv
<1>10. ASSUME NEW r \in Requests, Reject(r)
      PROVE  ReservationInv'
  <2> USE <1>0, <1>10 DEF Reject, Goto, Leave, TypeOK
  <2>1. LocalsOK'
    BY DEF LocalsOK, SoleHolder, CompletedOK
  <2>2. ASSUME NEW z \in Slots PROVE SoleHolder(z)'
    BY DEF LocalsOK, SoleHolder, CompletedOK
  <2>3. ASSUME NEW z \in Slots PROVE CompletedOK(z)'
    BY DEF LocalsOK, SoleHolder, CompletedOK
  <2> QED
    BY <2>1, <2>2, <2>3 DEF ReservationInv
<1>11. ASSUME NEW r \in Requests, Crash(r)
      PROVE  ReservationInv'
  <2> USE <1>0, <1>11 DEF Crash, Leave, TypeOK
  <2>1. LocalsOK'
    BY DEF LocalsOK, SoleHolder, CompletedOK
  <2>2. ASSUME NEW z \in Slots PROVE SoleHolder(z)'
    BY DEF LocalsOK, SoleHolder, CompletedOK
  <2>3. ASSUME NEW z \in Slots PROVE CompletedOK(z)'
    BY DEF LocalsOK, SoleHolder, CompletedOK
  <2> QED
    BY <2>1, <2>2, <2>3 DEF ReservationInv
<1>12. ASSUME NEW s \in Slots, Purge(s)
      PROVE  ReservationInv'
  <2> USE <1>0, <1>12 DEF Purge, TypeOK
  <2>1. LocalsOK'
    BY DEF LocalsOK, SoleHolder, CompletedOK
  <2>2. ASSUME NEW z \in Slots PROVE SoleHolder(z)'
    BY DEF LocalsOK, SoleHolder, CompletedOK
  <2>3. ASSUME NEW z \in Slots PROVE CompletedOK(z)'
    BY DEF LocalsOK, SoleHolder, CompletedOK
  <2> QED
    BY <2>1, <2>2, <2>3 DEF ReservationInv
<1>13. ASSUME NEW x \in Resources, Edit(x) \/ Delete(x)
      PROVE  ReservationInv'
  <2> USE <1>0, <1>13 DEF Edit, Delete, TypeOK
  <2>1. LocalsOK'
    BY DEF LocalsOK, SoleHolder, CompletedOK
  <2>2. ASSUME NEW z \in Slots PROVE SoleHolder(z)'
    BY DEF LocalsOK, SoleHolder, CompletedOK
  <2>3. ASSUME NEW z \in Slots PROVE CompletedOK(z)'
    BY DEF LocalsOK, SoleHolder, CompletedOK
  <2> QED
    BY <2>1, <2>2, <2>3 DEF ReservationInv
<1>14. CASE UNCHANGED vars
  <2> USE <1>0, <1>14 DEF vars
  <2>1. LocalsOK'
    BY DEF LocalsOK
  <2>2. ASSUME NEW z \in Slots PROVE SoleHolder(z)' /\ CompletedOK(z)'
    BY DEF SoleHolder, CompletedOK
  <2> QED
    BY <2>1, <2>2 DEF ReservationInv
<1> QED
  BY <1>1, <1>2, <1>3, <1>4, <1>5, <1>6, <1>7, <1>8, <1>9, <1>10, <1>11, <1>12, <1>13, <1>14
     DEF Next, Continue

(* The reservation protocol under every failure, a rejected audit append   *)
(* or completion included: one holder per key, and answers that name what  *)
(* was made under it (IdempotencyService.run).                             *)
THEOREM ReservationInvariant == Spec => []ReservationInv
  BY ReservationInit, ReservationStep, PTL DEF Spec

(* What clients are answered under one key is about one resource, made     *)
(* from one payload, even where the late failure of a create made its      *)
(* retry create a second one.                                              *)
THEOREM AnswersAlwaysAgree == Spec => []AnswersAgree
<1>1. ReservationInv => AnswersAgree
  <2> SUFFICES ASSUME ReservationInv, NEW a \in replies
               PROVE  /\ \A b \in replies : b.slot = a.slot =>
                           b.payload = a.payload /\ b.resource = a.resource
                      /\ a.resource \in applied[a.slot]
                      /\ content[a.resource] = a.payload
                      /\ a.resource \in audited
    BY DEF AnswersAgree
  <2>1. a.slot \in Slots /\ \A b \in replies : b \in Reply
    BY DEF ReservationInv, TypeOK, Reply
  <2>2. \A b \in replies : b.slot = a.slot =>
          b.payload = payload[a.slot] /\ b.resource = result[a.slot]
    BY <2>1 DEF ReservationInv, CompletedOK
  <2>3. \A b \in replies : b.slot = a.slot => b.payload = a.payload /\ b.resource = a.resource
    BY <2>2
  <2>4. /\ result[a.slot] \in applied[a.slot]
        /\ content[result[a.slot]] = payload[a.slot]
        /\ result[a.slot] \in audited
    BY <2>1 DEF ReservationInv, CompletedOK
  <2> QED
    BY <2>2, <2>3, <2>4
<1> QED
  BY <1>1, ReservationInvariant, PTL
===============================================================================
