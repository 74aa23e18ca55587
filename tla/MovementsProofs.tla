---------------------------- MODULE MovementsProofs ----------------------------
(***************************************************************************)
(* MovementInv is inductive, for any accounts, categories, movements and   *)
(* requests.  The point is the patch of an edit: it is written over the    *)
(* document stored by then.  While no other request has worked on that     *)
(* movement, the document is the one that was read, so what is stored are  *)
(* the values that were validated together.                                *)
(***************************************************************************)
EXTENDS Movements, TLAPS

(* A patch over a document is a document. *)
LEMMA OverDoc ==
  ASSUME NEW p \in Dtos \cup {NoDto}, NEW old \in Docs
  PROVE  Over(p, old) \in Docs
<1>1. PICK d \in Docs : \A k \in DOMAIN p : p[k] = d[k]
  <2>1. CASE p \in Dtos
    <3>1. PICK f \in SUBSET Fields, d \in Docs : p = [k \in f |-> d[k]]
      BY <2>1 DEF Dtos
    <3> QED
      BY <3>1
  <2>2. CASE p = NoDto
    BY <2>2 DEF NoDto
  <2> QED
    BY <2>1, <2>2
<1>2. \A k \in Fields :
        (IF k \in DOMAIN p THEN p[k] ELSE old[k]) \in {d[k], old[k]}
  BY <1>1
<1> QED
  BY <1>2 DEF Over, Docs, Fields

LEMMA MovementInit == Init => MovementInv
  BY MovementsAssumption
  DEF Init, MovementInv, TypeOK, RequestOK, RequestsApart, KindsMatch

(* A request ends; the documents stay, whatever happens to the trail. *)
LEMMA ClearStep ==
  ASSUME MovementInv, NEW r \in Requests, Clear(r),
         UNCHANGED <<archived, storeVars, raced>>,
         trail' \in [Movements -> Seq(Events)],
         cut' \in SUBSET Movements
  PROVE  MovementInv'
<1> USE MovementsAssumption DEF MovementInv, storeVars, Clear, TypeOK
<1>1. TypeOK'
  OBVIOUS
<1>2. ASSUME NEW q \in Requests PROVE RequestOK(q)'
  BY DEF RequestOK
<1>3. RequestsApart'
  BY DEF RequestsApart
<1>4. KindsMatch'
  BY DEF KindsMatch
<1> QED
  BY <1>1, <1>2, <1>3, <1>4

(* The movement an edit or a deletion works on is stored. *)
LEMMA TargetStored ==
  ASSUME TypeOK, NEW r \in Requests, RequestOK(r), target[r] # NoMovement
  PROVE  target[r] \in Movements /\ doc[target[r]] \in Docs
  BY DEF TypeOK, RequestOK

LEMMA MovementStep == MovementInv /\ [Next]_vars => MovementInv'
<1> SUFFICES ASSUME MovementInv, [Next]_vars PROVE MovementInv'
  OBVIOUS
<1> USE MovementsAssumption DEF MovementInv, storeVars, requestVars, pastVars
<1>1. ASSUME NEW r \in Requests, NEW d \in Docs, BeginCreate(r, d) PROVE MovementInv'
  <2> USE <1>1 DEF Begin, BeginCreate, TypeOK
  <2>1. TypeOK'
    BY DEF RequestOK
  <2>2. \A z \in Movements : z \in raced' \/ deleted'[z] => doc'[z] # NoDoc
    BY DEF RequestOK
  <2>3. ASSUME NEW q \in Requests PROVE RequestOK(q)'
    BY DEF RequestOK, RequestsApart
  <2>4. RequestsApart'
    BY DEF RequestsApart, RequestOK, Busy
  <2>5. KindsMatch'
    BY DEF KindsMatch, RequestOK
  <2> QED
    BY <2>1, <2>2, <2>3, <2>4, <2>5
<1>2. ASSUME NEW r \in Requests, NEW m \in Movements, NEW p \in Dtos, BeginUpdate(r, m, p) PROVE MovementInv'
  <2> USE <1>2 DEF Begin, BeginUpdate, TypeOK
  <2>1. TypeOK'
    BY DEF RequestOK
  <2>2. \A z \in Movements : z \in raced' \/ deleted'[z] => doc'[z] # NoDoc
    BY DEF RequestOK
  <2>3. ASSUME NEW q \in Requests PROVE RequestOK(q)'
    BY DEF RequestOK, RequestsApart
  <2>4. RequestsApart'
    BY DEF RequestsApart, RequestOK, Busy
  <2>5. KindsMatch'
    BY DEF KindsMatch, RequestOK
  <2> QED
    BY <2>1, <2>2, <2>3, <2>4, <2>5
<1>3. ASSUME NEW r \in Requests, NEW m \in Movements, BeginDelete(r, m) PROVE MovementInv'
  <2> USE <1>3 DEF Begin, BeginDelete, TypeOK
  <2>1. TypeOK'
    BY DEF RequestOK
  <2>2. \A z \in Movements : z \in raced' \/ deleted'[z] => doc'[z] # NoDoc
    BY DEF RequestOK
  <2>3. ASSUME NEW q \in Requests PROVE RequestOK(q)'
    BY DEF RequestOK, RequestsApart
  <2>4. RequestsApart'
    BY DEF RequestsApart, RequestOK, Busy
  <2>5. KindsMatch'
    BY DEF KindsMatch, RequestOK
  <2> QED
    BY <2>1, <2>2, <2>3, <2>4, <2>5
<1>4. ASSUME NEW r \in Requests, FindForUpdate(r) PROVE MovementInv'
  <2>1. CASE deleted[target[r]]
    <3>1. Leave(r) /\ UNCHANGED <<archived, storeVars, trail>>
      BY <1>4, <2>1 DEF FindForUpdate
    <3> QED
      BY <3>1, ClearStep DEF Leave, TypeOK
  <2>2. CASE ~ (deleted[target[r]])
    <3> DEFINE old == doc[target[r]]
    <3>a. target[r] \in Movements /\ old \in Docs
      BY <1>4, TargetStored, MovementsAssumption DEF FindForUpdate, RequestOK
    <3>b. Over(dto[r], old) \in Docs
      BY <3>a, OverDoc DEF TypeOK
    <3>c. /\ at[r] = "find" /\ op[r] = "update"
          /\ seen' = [seen EXCEPT ![r] = old]
          /\ want' = [want EXCEPT ![r] = Over(dto[r], old)]
          /\ at' = [at EXCEPT ![r] = "account"]
          /\ UNCHANGED <<op, target, dto, accepted, archived, doc, deleted, had, trail, raced, cut>>
      BY <1>4, <2>2 DEF FindForUpdate, Goto
    <3> HIDE DEF old
    <3>1. TypeOK'
      BY <3>a, <3>b, <3>c DEF TypeOK
    <3>2. ASSUME NEW q \in Requests PROVE RequestOK(q)'
      <4>1. CASE q = r
        BY <3>a, <3>b, <3>c, <4>1 DEF RequestOK, TypeOK, old
      <4>2. CASE q # r
        BY <3>c, <4>2 DEF RequestOK, TypeOK
      <4> QED
        BY <4>1, <4>2
    <3>3. RequestsApart' /\ KindsMatch'
      BY <3>c DEF RequestsApart, KindsMatch
    <3> QED
      BY <3>1, <3>2, <3>3, <3>c
  <2> QED
    BY <2>1, <2>2
<1>5. ASSUME NEW r \in Requests, FindForDelete(r) PROVE MovementInv'
  <2>1. CASE deleted[target[r]]
    <3>1. Leave(r) /\ UNCHANGED <<archived, storeVars, trail>>
      BY <1>5, <2>1 DEF FindForDelete
    <3> QED
      BY <3>1, ClearStep DEF Leave, TypeOK
  <2>2. CASE ~ (deleted[target[r]])
    <3>a. target[r] \in Movements /\ doc[target[r]] \in Docs
      BY <1>5, TargetStored, MovementsAssumption DEF FindForDelete, RequestOK
    <3>b. /\ at[r] = "find" /\ op[r] = "delete"
          /\ seen' = [seen EXCEPT ![r] = doc[target[r]]]
          /\ at' = [at EXCEPT ![r] = "write"]
          /\ UNCHANGED <<op, target, dto, want, accepted, archived, doc, deleted, had, trail, raced, cut>>
      BY <1>5, <2>2 DEF FindForDelete, Goto
    <3>1. TypeOK'
      BY <3>a, <3>b DEF TypeOK
    <3>2. ASSUME NEW q \in Requests PROVE RequestOK(q)'
      BY <3>a, <3>b DEF RequestOK, TypeOK
    <3>3. RequestsApart' /\ KindsMatch'
      BY <3>b DEF RequestsApart, KindsMatch
    <3> QED
      BY <3>1, <3>2, <3>3, <3>b
  <2> QED
    BY <2>1, <2>2
<1>6. ASSUME NEW r \in Requests, ValidateAccount(r) PROVE MovementInv'
  <2>1. CASE want[r].account \in archived
    <3>1. Leave(r) /\ UNCHANGED <<archived, storeVars, trail>>
      BY <1>6, <2>1 DEF ValidateAccount
    <3> QED
      BY <3>1, ClearStep DEF Leave, TypeOK
  <2>2. CASE ~ (want[r].account \in archived)
    <3>a. /\ at[r] = "account"
          /\ at' = [at EXCEPT ![r] = "category"]
          /\ UNCHANGED <<op, target, dto, want, seen, accepted, archived, doc, deleted, had, trail, raced, cut>>
      BY <1>6, <2>2 DEF ValidateAccount, Goto
    <3>1. TypeOK'
      BY <3>a DEF TypeOK
    <3>2. ASSUME NEW q \in Requests PROVE RequestOK(q)'
      BY <2>2, <3>a DEF RequestOK, TypeOK
    <3>3. RequestsApart' /\ KindsMatch'
      BY <3>a DEF RequestsApart, KindsMatch
    <3> QED
      BY <3>1, <3>2, <3>3, <3>a
  <2> QED
    BY <2>1, <2>2
<1>7. ASSUME NEW r \in Requests, ValidateCategory(r) PROVE MovementInv'
  <2>1. CASE want[r].category # NoCategory /\ (want[r].category \in archived \/ KindOf(want[r].category) # want[r].type)
    <3>1. Leave(r) /\ UNCHANGED <<archived, storeVars, trail>>
      BY <1>7, <2>1 DEF ValidateCategory
    <3> QED
      BY <3>1, ClearStep DEF Leave, TypeOK
  <2>2. CASE ~ (want[r].category # NoCategory /\ (want[r].category \in archived \/ KindOf(want[r].category) # want[r].type))
    <3>a. /\ at[r] = "category"
          /\ at' = [at EXCEPT ![r] = "write"]
          /\ UNCHANGED <<op, target, dto, want, seen, accepted, archived, doc, deleted, had, trail, raced, cut>>
      BY <1>7, <2>2 DEF ValidateCategory, Goto
    <3>1. TypeOK'
      BY <3>a DEF TypeOK
    <3>2. ASSUME NEW q \in Requests PROVE RequestOK(q)'
      BY <2>2, <3>a DEF RequestOK, TypeOK, KindOK
    <3>3. RequestsApart' /\ KindsMatch'
      BY <3>a DEF RequestsApart, KindsMatch
    <3> QED
      BY <3>1, <3>2, <3>3, <3>a
  <2> QED
    BY <2>1, <2>2
<1>8. ASSUME NEW r \in Requests, Insert(r) PROVE MovementInv'
  <2> USE <1>8 DEF Insert, Store, Goto, TypeOK
  <2>1. TypeOK'
    BY DEF RequestOK
  <2>2. \A z \in Movements : z \in raced' \/ deleted'[z] => doc'[z] # NoDoc
    BY DEF RequestOK
  <2>3. ASSUME NEW q \in Requests PROVE RequestOK(q)'
    BY DEF RequestOK, RequestsApart
  <2>4. RequestsApart'
    BY DEF RequestsApart, RequestOK, Busy
  <2>5. KindsMatch'
    BY DEF KindsMatch, RequestOK
  <2> QED
    BY <2>1, <2>2, <2>3, <2>4, <2>5
<1>9. ASSUME NEW r \in Requests, Update(r) PROVE MovementInv'
  <2> DEFINE m == target[r]
             new == Over(dto[r], doc[m])
  <2>a. m \in Movements /\ doc[m] \in Docs
    BY <1>9, TargetStored, MovementsAssumption DEF Update, RequestOK
  <2>b. new \in Docs
    BY <2>a, OverDoc DEF TypeOK
  <2>c. /\ at[r] = "write" /\ op[r] = "update"
        /\ at' = [at EXCEPT ![r] = "append"]
        /\ UNCHANGED <<archived, deleted, trail, op, target, dto, want, accepted, raced, cut>>
    BY <1>9 DEF Update, Goto
  <2>d. seen[r] # NoDoc
    BY <2>c DEF RequestOK
  <2>1. CASE deleted[m]
    <3>a. UNCHANGED <<doc, had, seen>>
      BY <1>9, <2>1 DEF Update
    <3>1. TypeOK'
      BY <2>c, <3>a DEF TypeOK
    <3>2. ASSUME NEW q \in Requests PROVE RequestOK(q)'
      BY <2>a, <2>c, <2>d, <3>a DEF RequestOK, TypeOK
    <3>3. RequestsApart' /\ KindsMatch'
      BY <2>c, <3>a DEF RequestsApart, KindsMatch
    <3> QED
      BY <2>c, <3>a, <3>1, <3>2, <3>3
  <2>2. CASE ~ deleted[m]
    <3>a. /\ doc' = [doc EXCEPT ![m] = new]
          /\ had' = [had EXCEPT ![m] = @ \cup {new}]
          /\ seen' = [seen EXCEPT ![r] = new]
      BY <1>9, <2>2 DEF Update, Store
    <3> HIDE DEF new
    <3>1. TypeOK'
      BY <2>a, <2>b, <2>c, <3>a DEF TypeOK
    <3>2. \A z \in Movements : doc[z] # NoDoc => doc'[z] # NoDoc
      BY <2>a, <2>b, <3>a DEF TypeOK
    <3>3. ASSUME NEW q \in Requests PROVE RequestOK(q)'
      <4>1. CASE q = r
        BY <2>a, <2>b, <2>c, <3>a, <3>2, <4>1 DEF RequestOK, TypeOK
      <4>2. CASE q # r
        <5>1. target[q] = m => m \in raced
          BY <2>a, <4>2 DEF RequestsApart
        <5>2. target[q] \in Movements /\ target[q] # m => doc'[target[q]] = doc[target[q]]
          BY <2>a, <3>a DEF TypeOK
        <5> HIDE DEF m
        <5> QED
          BY <2>c, <3>a, <3>2, <4>2, <5>1, <5>2 DEF RequestOK, TypeOK
      <4> QED
        BY <4>1, <4>2
    <3>4. m \notin raced => KindOK(new)
      BY <2>c DEF RequestOK, new
    <3>5. RequestsApart' /\ KindsMatch'
      BY <2>a, <2>c, <3>a, <3>4 DEF RequestsApart, KindsMatch, TypeOK
    <3> QED
      BY <2>c, <3>1, <3>2, <3>3, <3>5
  <2> QED
    BY <2>1, <2>2
<1>10. ASSUME NEW r \in Requests, MarkDeleted(r) PROVE MovementInv'
  <2>a. /\ at[r] = "write" /\ op[r] = "delete"
        /\ deleted' = [deleted EXCEPT ![target[r]] = TRUE]
        /\ at' = [at EXCEPT ![r] = "append"]
        /\ UNCHANGED <<archived, doc, had, trail, op, target, dto, want, seen, accepted, raced, cut>>
    BY <1>10 DEF MarkDeleted, Goto
  <2>b. target[r] \in Movements /\ seen[r] # NoDoc
    BY <2>a DEF RequestOK
  <2>c. doc[target[r]] # NoDoc
    BY <2>b DEF RequestOK, TypeOK
  <2>1. TypeOK'
    BY <2>a DEF TypeOK
  <2>2. ASSUME NEW q \in Requests PROVE RequestOK(q)'
    BY <2>a, <2>b DEF RequestOK, TypeOK
  <2>3. RequestsApart' /\ KindsMatch'
    BY <2>a DEF RequestsApart, KindsMatch
  <2> QED
    BY <2>1, <2>2, <2>3, <2>a, <2>b, <2>c DEF TypeOK
<1>11. ASSUME NEW r \in Requests, AppendEvent(r) PROVE MovementInv'
  <2>1. target[r] \in Movements /\ seen[r] \in Docs /\ EventOf(r) \in Events
    BY <1>11 DEF AppendEvent, RequestOK, TypeOK, EventOf, Events
  <2>2. /\ Clear(r) /\ UNCHANGED <<archived, storeVars, raced>>
        /\ trail' = [trail EXCEPT ![target[r]] = Append(@, EventOf(r))]
        /\ cut' = cut
    BY <1>11 DEF AppendEvent, Leave
  <2>3. trail' \in [Movements -> Seq(Events)]
    BY <2>1, <2>2 DEF TypeOK
  <2> QED
    BY <2>2, <2>3, ClearStep DEF TypeOK
<1>12. ASSUME NEW r \in Requests, Fail(r) PROVE MovementInv'
  <2>1. cut' \in SUBSET Movements
    BY <1>12 DEF Fail, TypeOK
  <2> QED
    BY <1>12, <2>1, ClearStep DEF Fail, TypeOK
<1>13. ASSUME NEW x \in Accounts \cup (Categories \ SystemCategories), Archive(x) PROVE MovementInv'
  <2> USE <1>13 DEF Archive, TypeOK
  <2>1. TypeOK'
    BY DEF RequestOK
  <2>2. \A z \in Movements : z \in raced' \/ deleted'[z] => doc'[z] # NoDoc
    BY DEF RequestOK
  <2>3. ASSUME NEW q \in Requests PROVE RequestOK(q)'
    BY DEF RequestOK, RequestsApart
  <2>4. RequestsApart'
    BY DEF RequestsApart, RequestOK, Busy
  <2>5. KindsMatch'
    BY DEF KindsMatch, RequestOK
  <2> QED
    BY <2>1, <2>2, <2>3, <2>4, <2>5
<1>14. ASSUME NEW x \in Accounts \cup (Categories \ SystemCategories), Unarchive(x) PROVE MovementInv'
  <2> USE <1>14 DEF Unarchive, TypeOK
  <2>1. TypeOK'
    BY DEF RequestOK
  <2>2. \A z \in Movements : z \in raced' \/ deleted'[z] => doc'[z] # NoDoc
    BY DEF RequestOK
  <2>3. ASSUME NEW q \in Requests PROVE RequestOK(q)'
    BY DEF RequestOK, RequestsApart
  <2>4. RequestsApart'
    BY DEF RequestsApart, RequestOK, Busy
  <2>5. KindsMatch'
    BY DEF KindsMatch, RequestOK
  <2> QED
    BY <2>1, <2>2, <2>3, <2>4, <2>5
<1>15. CASE UNCHANGED vars
  BY <1>15 DEF vars, TypeOK, RequestOK, RequestsApart, KindsMatch
<1> QED
  BY <1>1, <1>2, <1>3, <1>4, <1>5, <1>6, <1>7, <1>8, <1>9, <1>10, <1>11, <1>12, <1>13, <1>14, <1>15
     DEF Next, Arrive, Continue

-----------------------------------------------------------------------------
(* What one more event adds to what a trail tells. *)
LEMMA AppendTells ==
  ASSUME NEW s \in Seq(Events), NEW e \in Events
  PROVE  {Append(s, e)[i] : i \in DOMAIN Append(s, e)} = {s[i] : i \in DOMAIN s} \cup {e}
<1> DEFINE u == Append(s, e)
<1>1. /\ DOMAIN u = DOMAIN s \cup {Len(s) + 1}
      /\ \A i \in DOMAIN s : u[i] = s[i]
      /\ u[Len(s) + 1] = e
  OBVIOUS
<1> HIDE DEF u
<1>2. {u[i] : i \in DOMAIN u} = {s[i] : i \in DOMAIN s} \cup {e}
  BY <1>1
<1> QED
  BY <1>2 DEF u

LEMMA TrailStep == MovementInv /\ TrailInv /\ [Next]_vars => TrailInv'
<1> SUFFICES ASSUME MovementInv, TrailInv, [Next]_vars PROVE TrailInv'
  OBVIOUS
<1>0. TypeOK /\ \A r \in Requests : RequestOK(r)
  BY DEF MovementInv
<1> USE MovementsAssumption
(* Nothing is written and no event appended; a request that was to append  *)
(* one still is, or has stopped.                                           *)
<1>1. ASSUME UNCHANGED <<deleted, had, trail>>, cut \subseteq cut',
             \A q \in Requests, m \in Movements \ cut' :
               /\ Reporting(q, m)' <=> Reporting(q, m)
               /\ Reporting(q, m) => op'[q] = op[q] /\ seen'[q] = seen[q]
      PROVE  TrailInv'
  BY <1>1 DEF TrailInv, Told
<1>2. ASSUME NEW r \in Requests, Arrive(r) PROVE TrailInv'
  <2>1. /\ at[r] = "idle" /\ at'[r] # "append"
        /\ UNCHANGED <<deleted, had, trail, seen, cut>>
        /\ \A q \in Requests \ {r} : at'[q] = at[q] /\ op'[q] = op[q] /\ target'[q] = target[q]
    BY <1>0, <1>2 DEF Arrive, BeginCreate, BeginUpdate, BeginDelete, Begin, storeVars, TypeOK
  <2>2. \A q \in Requests, m \in Movements :
          /\ Reporting(q, m)' <=> Reporting(q, m)
          /\ Reporting(q, m) => op'[q] = op[q] /\ seen'[q] = seen[q]
    BY <2>1 DEF Reporting
  <2> QED
    BY <1>1, <2>1, <2>2
<1>3. ASSUME NEW r \in Requests,
             FindForUpdate(r) \/ FindForDelete(r) \/ ValidateAccount(r) \/ ValidateCategory(r)
      PROVE  TrailInv'
  <2>1. /\ at[r] # "append" /\ at'[r] # "append"
        /\ UNCHANGED <<deleted, had, trail, cut>>
    BY <1>0, <1>3 DEF FindForUpdate, FindForDelete, ValidateAccount, ValidateCategory, Goto, Leave, Clear,
       storeVars, pastVars, TypeOK
  <2>2. \A q \in Requests \ {r} :
          /\ at'[q] = at[q] /\ op'[q] = op[q] /\ target'[q] = target[q] /\ seen'[q] = seen[q]
    BY <1>0, <1>3 DEF FindForUpdate, FindForDelete, ValidateAccount, ValidateCategory, Goto, Leave, Clear,
       TypeOK
  <2>3. \A q \in Requests, m \in Movements :
          /\ Reporting(q, m)' <=> Reporting(q, m)
          /\ Reporting(q, m) => op'[q] = op[q] /\ seen'[q] = seen[q]
    BY <2>1, <2>2 DEF Reporting
  <2> QED
    BY <1>1, <2>1, <2>3
(* A document is stored, and its request is to report it. *)
<1>4. ASSUME NEW r \in Requests, Insert(r) \/ Update(r) PROVE TrailInv'
  <2>1. /\ at[r] = "write" /\ at'[r] = "append" /\ op[r] \in {"create", "update"} /\ op' = op
        /\ UNCHANGED <<deleted, trail, cut>>
        /\ \A q \in Requests \ {r} :
             at'[q] = at[q] /\ target'[q] = target[q] /\ seen'[q] = seen[q]
    BY <1>0, <1>4 DEF Insert, Update, Goto, pastVars, TypeOK
  <2>2. \A m \in Movements : \A d \in had'[m] :
          d \in had[m] \/ (target'[r] = m /\ seen'[r] = d)
    <3>1. CASE had' = had
      BY <3>1
    <3>2. ASSUME NEW k \in Movements, NEW d,
                 had' = [had EXCEPT ![k] = @ \cup {d}], target'[r] = k, seen'[r] = d
          PROVE  \A m \in Movements : \A c \in had'[m] :
                   c \in had[m] \/ (target'[r] = m /\ seen'[r] = c)
      BY <1>0, <3>2 DEF TypeOK
    <3>3. CASE Insert(r)
      BY <1>0, <3>2, <3>3 DEF Insert, Store, TypeOK
    <3>4. CASE Update(r)
      <4>1. target'[r] = target[r] /\ target[r] \in Movements
        BY <1>0, <3>4 DEF Update, RequestOK
      <4> QED
        BY <1>0, <3>1, <3>2, <3>4, <4>1 DEF Update, Store, TypeOK
    <3> QED
      BY <1>4, <3>3, <3>4
  <2> SUFFICES ASSUME NEW m \in Movements \ cut
               PROVE  /\ \A d \in had'[m] :
                           \/ \E e \in Told(m)' : e.snapshot = d
                           \/ \E q \in Requests : Reporting(q, m)' /\ seen'[q] = d
                      /\ deleted'[m] <=>
                           \/ \E e \in Told(m)' : e.what = "deleted"
                           \/ \E q \in Requests : Reporting(q, m)' /\ op'[q] = "delete"
    BY <2>1 DEF TrailInv
  <2>3. /\ Told(m)' = Told(m)
        /\ \A q \in Requests : Reporting(q, m) => Reporting(q, m)' /\ seen'[q] = seen[q]
        /\ \A q \in Requests : op[q] = "delete" => (Reporting(q, m)' <=> Reporting(q, m))
    BY <2>1 DEF Told, Reporting
  <2>4. target'[r] = m => Reporting(r, m)'
    BY <2>1 DEF Reporting
  <2>5. \A d \in had'[m] :
          \/ \E e \in Told(m)' : e.snapshot = d
          \/ \E q \in Requests : Reporting(q, m)' /\ seen'[q] = d
    BY <2>2, <2>3, <2>4 DEF TrailInv
  <2> QED
    BY <2>1, <2>3, <2>5 DEF TrailInv
(* A deletion is marked, and its request is to report it. *)
<1>5. ASSUME NEW r \in Requests, MarkDeleted(r) PROVE TrailInv'
  <2>1. /\ at[r] = "write" /\ op[r] = "delete"
        /\ deleted' = [deleted EXCEPT ![target[r]] = TRUE]
        /\ at' = [at EXCEPT ![r] = "append"]
        /\ UNCHANGED <<had, trail, op, target, seen, cut>>
    BY <1>5 DEF MarkDeleted, Goto, pastVars
  <2> SUFFICES ASSUME NEW m \in Movements \ cut
               PROVE  /\ \A d \in had[m] :
                           \/ \E e \in Told(m) : e.snapshot = d
                           \/ \E q \in Requests : Reporting(q, m)' /\ seen[q] = d
                      /\ deleted'[m] <=>
                           \/ \E e \in Told(m) : e.what = "deleted"
                           \/ \E q \in Requests : Reporting(q, m)' /\ op[q] = "delete"
    BY <2>1 DEF TrailInv, Told
  <2>2. /\ \A q \in Requests : Reporting(q, m) => Reporting(q, m)'
        /\ \A q \in Requests \ {r} : Reporting(q, m)' => Reporting(q, m)
        /\ Reporting(r, m)' <=> target[r] = m
    BY <1>0, <2>1 DEF Reporting, TypeOK
  <2>3. CASE target[r] = m
    <3>1. deleted'[m] /\ Reporting(r, m)' /\ op[r] = "delete"
      BY <1>0, <2>1, <2>2, <2>3 DEF TypeOK
    <3> QED
      BY <2>2, <3>1 DEF TrailInv
  <2>4. CASE target[r] # m
    <3>1. deleted'[m] <=> deleted[m]
      BY <1>0, <2>1, <2>4 DEF TypeOK
    <3>2. \A q \in Requests : Reporting(q, m)' <=> Reporting(q, m)
      BY <2>2, <2>4 DEF Reporting
    <3> QED
      BY <3>1, <3>2 DEF TrailInv
  <2> QED
    BY <2>3, <2>4
(* The event is appended: the trail tells what the request held. *)
<1>6. ASSUME NEW r \in Requests, AppendEvent(r) PROVE TrailInv'
  <2>1. /\ at[r] = "append"
        /\ trail' = [trail EXCEPT ![target[r]] = Append(trail[target[r]], EventOf(r))]
        /\ at'[r] = "idle" /\ UNCHANGED <<deleted, had, cut>>
    BY <1>0, <1>6 DEF AppendEvent, Leave, Clear, storeVars, pastVars, TypeOK
  <2>2. \A q \in Requests \ {r} :
          /\ at'[q] = at[q] /\ op'[q] = op[q] /\ target'[q] = target[q] /\ seen'[q] = seen[q]
    BY <1>0, <1>6 DEF AppendEvent, Leave, Clear, TypeOK
  <2>3. target[r] \in Movements /\ seen[r] \in Docs /\ op[r] \in {"create", "update", "delete"}
    BY <1>0, <2>1 DEF RequestOK, TypeOK
  <2>4. /\ EventOf(r) \in Events /\ EventOf(r).snapshot = seen[r]
        /\ EventOf(r).what = "deleted" <=> op[r] = "delete"
    BY <2>3 DEF EventOf, Events
  <2> SUFFICES ASSUME NEW m \in Movements \ cut
               PROVE  /\ \A d \in had[m] :
                           \/ \E e \in Told(m)' : e.snapshot = d
                           \/ \E q \in Requests : Reporting(q, m)' /\ seen'[q] = d
                      /\ deleted[m] <=>
                           \/ \E e \in Told(m)' : e.what = "deleted"
                           \/ \E q \in Requests : Reporting(q, m)' /\ op'[q] = "delete"
    BY <2>1 DEF TrailInv
  <2>5. /\ ~ Reporting(r, m)'
        /\ \A q \in Requests \ {r} :
             /\ Reporting(q, m)' <=> Reporting(q, m)
             /\ seen'[q] = seen[q] /\ op'[q] = op[q]
        /\ Reporting(r, m) <=> target[r] = m
    BY <2>1, <2>2 DEF Reporting
  <2>6. /\ target[r] = m => Told(m)' = Told(m) \cup {EventOf(r)}
        /\ target[r] # m => Told(m)' = Told(m)
    <3>1. CASE target[r] = m
      <4>1. trail'[m] = Append(trail[m], EventOf(r)) /\ trail[m] \in Seq(Events)
        BY <1>0, <2>1, <3>1 DEF TypeOK
      <4> QED
        BY <2>4, <3>1, <4>1, AppendTells DEF Told
    <3>2. CASE target[r] # m
      BY <1>0, <2>1, <3>2 DEF Told, TypeOK
    <3> QED
      BY <3>1, <3>2
  <2> HIDE DEF Told, Reporting, EventOf
  <2>7. CASE target[r] = m
    BY <2>4, <2>5, <2>6, <2>7 DEF TrailInv
  <2>8. CASE target[r] # m
    BY <2>5, <2>6, <2>8 DEF TrailInv
  <2> QED
    BY <2>7, <2>8
(* A request that stops is about another one, or about none yet. *)
<1>7. ASSUME NEW r \in Requests, Fail(r) PROVE TrailInv'
  <2>1. /\ UNCHANGED <<deleted, had, trail>> /\ cut \subseteq cut'
        /\ target[r] \in Movements => target[r] \in cut'
        /\ at'[r] = "idle"
    BY <1>0, <1>7 DEF Fail, Clear, storeVars, TypeOK
  <2>2. \A q \in Requests \ {r} :
          /\ at'[q] = at[q] /\ op'[q] = op[q] /\ target'[q] = target[q] /\ seen'[q] = seen[q]
    BY <1>0, <1>7 DEF Fail, Clear, TypeOK
  <2>3. \A q \in Requests, m \in Movements \ cut' :
          /\ Reporting(q, m)' <=> Reporting(q, m)
          /\ Reporting(q, m) => op'[q] = op[q] /\ seen'[q] = seen[q]
    BY <2>1, <2>2 DEF Reporting
  <2> QED
    BY <1>1, <2>1, <2>3
<1>8. ASSUME (\E x : Archive(x) \/ Unarchive(x)) \/ UNCHANGED vars PROVE TrailInv'
  <2>1. UNCHANGED <<deleted, had, trail, at, op, target, seen, cut>>
    BY <1>8 DEF Archive, Unarchive, vars, storeVars, requestVars, pastVars
  <2> QED
    BY <1>1, <2>1 DEF Reporting
<1> QED
  BY <1>2, <1>3, <1>4, <1>5, <1>6, <1>7, <1>8 DEF Next, Continue

-----------------------------------------------------------------------------
(* The invariant MovementsInv holds in every reachable state: the types,   *)
(* what each request in flight works on, the kinds, and what the           *)
(* trail does not tell yet.                                                *)
THEOREM MovementInvariant == Spec => []MovementsInv
<1>1. Init => TrailInv
  BY DEF Init, TrailInv, Told, Reporting
<1>2. MovementsInv /\ [Next]_vars => MovementsInv'
  BY MovementStep, TrailStep DEF MovementsInv
<1> QED
  BY <1>1, <1>2, MovementInit, PTL DEF Spec, MovementsInv

(* A movement's category is of the movement's kind, whatever is archived   *)
(* and whichever request stops midway, unless two requests have worked on  *)
(* the movement at once (createMovement, updateMovement).                  *)
THEOREM CategoriesKeepTheKind == Spec => []KindsMatch
<1>1. MovementsInv => KindsMatch
  BY DEF MovementsInv, MovementInv
<1> QED
  BY <1>1, MovementInvariant, PTL

(* What is deleted stays deleted and as it was, whatever was in flight     *)
(* (the deletedAt filter of MovementRepository.update).                    *)
THEOREM DeletionIsFinal == Spec => DeletedIsFinal
<1>1. MovementsInv /\ [Next]_vars => [\A m \in Movements : deleted[m] => deleted'[m] /\ doc'[m] = doc[m]]_vars
  <2> SUFFICES ASSUME MovementsInv, [Next]_vars, NEW m \in Movements, deleted[m]
               PROVE  deleted'[m] /\ doc'[m] = doc[m]
    OBVIOUS
  <2>1. TypeOK /\ doc[m] # NoDoc
    BY DEF MovementsInv, MovementInv
  <2>2. CASE UNCHANGED <<doc, deleted>>
    BY <2>2
  <2>3. ASSUME NEW r \in Requests, Insert(r) PROVE deleted'[m] /\ doc'[m] = doc[m]
    BY <2>1, <2>3 DEF Insert, Store, TypeOK
  <2>4. ASSUME NEW r \in Requests, Update(r) PROVE deleted'[m] /\ doc'[m] = doc[m]
    BY <2>1, <2>4 DEF Update, Store, TypeOK
  <2>5. ASSUME NEW r \in Requests, MarkDeleted(r) PROVE deleted'[m] /\ doc'[m] = doc[m]
    BY <2>1, <2>5 DEF MarkDeleted, TypeOK
  <2> QED
    BY <2>2, <2>3, <2>4, <2>5
    DEF Next, Arrive, Continue, vars, storeVars, BeginCreate, BeginUpdate, BeginDelete, Begin,
        FindForUpdate, FindForDelete, ValidateAccount, ValidateCategory, AppendEvent, Fail,
        Archive, Unarchive
<1> QED
  BY <1>1, MovementInvariant, PTL DEF Spec, DeletedIsFinal

(* The audit trail tells all that a movement has been and whether it is    *)
(* deleted, whatever raced on it: every handler appends its event after    *)
(* its write, with the document the write returned (appendEvent).          *)
THEOREM TrailIsComplete == Spec => []TrailTellsAll
<1>1. MovementsInv => TrailTellsAll
  <2> SUFFICES ASSUME TrailInv, TypeOK, NEW m \in Movements, ~ Busy(m), m \notin cut
               PROVE  /\ had[m] \subseteq {e.snapshot : e \in Told(m)}
                      /\ deleted[m] = \E e \in Told(m) : e.what = "deleted"
    BY DEF TrailTellsAll, MovementsInv, MovementInv, Told
  <2>1. \A r \in Requests : ~ Reporting(r, m)
    BY DEF Busy, Reporting
  <2>2. had[m] \subseteq {e.snapshot : e \in Told(m)}
    BY <2>1 DEF TrailInv
  <2>3. deleted[m] <=> \E e \in Told(m) : e.what = "deleted"
    BY <2>1 DEF TrailInv
  <2> QED
    BY <2>2, <2>3 DEF TypeOK
<1> QED
  BY <1>1, MovementInvariant, PTL
=============================================================================
