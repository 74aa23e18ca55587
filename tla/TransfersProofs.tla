---------------------------- MODULE TransfersProofs ----------------------------
(***************************************************************************)
(* TransferInv is inductive, for any accounts, transfers and requests.  As *)
(* in MovementsProofs, a patch is written over the document stored by      *)
(* then: while no other request has worked on the transfer, it is the one  *)
(* that was read, so the two accounts stored are the two that were         *)
(* compared.  The comparison is of strings: a request it lets through with *)
(* one account spelled in two ways is in odd, and so is what it writes in  *)
(* respelled until another request writes it again.                        *)
(***************************************************************************)
EXTENDS Transfers, TLAPS

(* A patch over a document is a document. *)
LEMMA OverDoc ==
  ASSUME NEW p \in Dtos \cup {NoDto}, NEW old \in Docs
  PROVE  Over(p, old) \in Docs
<1>1. PICK d \in Docs : \A k \in DOMAIN p : p[k] = d[k]
  <2>1. CASE p \in Dtos
    <3>1. PICK f \in SUBSET Fields, d \in Docs : p = [k \in f |-> d[k]]
      BY <2>1 DEF Dtos
    <3> QED
      BY <3>1
  <2>2. CASE p = NoDto
    BY <2>2 DEF NoDto
  <2> QED
    BY <2>1, <2>2
<1>2. \A k \in Fields :
        (IF k \in DOMAIN p THEN p[k] ELSE old[k]) \in {d[k], old[k]}
  BY <1>1
<1> QED
  BY <1>2 DEF Over, Docs, Fields

LEMMA TransferInit == Init => TransferInv
  BY TransfersAssumption
  DEF Init, TransferInv, TypeOK, RequestOK, RequestsApart, EndsDiffer

(* A request ends; the documents stay, whatever happens to the trail. *)
LEMMA ClearStep ==
  ASSUME TransferInv, NEW r \in Requests, Clear(r),
         UNCHANGED <<archived, storeVars, raced>>,
         trail' \in [Transfers -> Seq(Events)],
         cut' \in SUBSET Transfers
  PROVE  TransferInv'
<1> USE TransfersAssumption DEF TransferInv, storeVars, Clear, TypeOK
<1>1. TypeOK'
  OBVIOUS
<1>2. ASSUME NEW q \in Requests PROVE RequestOK(q)'
  BY DEF RequestOK
<1>3. RequestsApart'
  BY DEF RequestsApart
<1>4. EndsDiffer'
  BY DEF EndsDiffer
<1> QED
  BY <1>1, <1>2, <1>3, <1>4

(* The transfer an edit or a deletion works on is stored. *)
LEMMA TargetStored ==
  ASSUME TypeOK, NEW r \in Requests, RequestOK(r), target[r] # NoTransfer
  PROVE  target[r] \in Transfers /\ doc[target[r]] \in Docs
  BY DEF TypeOK, RequestOK

(* The check of one account: the request ends or goes to its next call,    *)
(* and nothing else changes.                                               *)
LEMMA ValidateStep ==
  ASSUME TransferInv, NEW r \in Requests,
         NEW end, NEW next, NEW account,
         <<end, next>> \in {<<"from", "to">>, <<"to", "write">>},
         Validate(r, end, account, next)
  PROVE  TransferInv'
<1> USE TransfersAssumption DEF TransferInv, storeVars, pastVars
<1>1. CASE account \in archived
  <2>1. Leave(r) /\ UNCHANGED <<archived, storeVars, trail>>
    BY <1>1 DEF Validate
  <2> QED
    BY <2>1, ClearStep DEF Leave, TypeOK
<1>2. CASE account \notin archived
  <2>1. /\ at[r] = end
        /\ at' = [at EXCEPT ![r] = next]
        /\ UNCHANGED <<op, target, dto, want, seen, accepted, odd, archived, doc, deleted, had,
                       respelled, trail, raced, cut>>
    BY <1>2 DEF Validate, Goto
  <2>2. end \in {"from", "to"} /\ next \in {"to", "write"}
    OBVIOUS
  <2>3. TypeOK'
    BY <2>1, <2>2 DEF TypeOK
  <2>4. ASSUME NEW q \in Requests PROVE RequestOK(q)'
    BY <2>1, <2>2 DEF RequestOK, TypeOK
  <2>5. RequestsApart' /\ EndsDiffer'
    BY <2>1 DEF RequestsApart, EndsDiffer
  <2> QED
    BY <2>1, <2>3, <2>4, <2>5
<1> QED
  BY <1>1, <1>2

LEMMA TransferStep == TransferInv /\ [Next]_vars => TransferInv'
<1> SUFFICES ASSUME TransferInv, [Next]_vars PROVE TransferInv'
  OBVIOUS
<1> USE TransfersAssumption DEF TransferInv, storeVars, requestVars, pastVars
<1>1. ASSUME NEW r \in Requests, NEW d \in Docs, NEW apart \in BOOLEAN,
             BeginCreate(r, d, apart)
      PROVE  TransferInv'
  <2> USE <1>1 DEF Begin, BeginCreate, LetThrough, SameText, TypeOK
  <2>1. TypeOK'
    BY DEF RequestOK
  <2>2. \A z \in Transfers : z \in raced' \/ deleted'[z] => doc'[z] # NoDoc
    BY DEF RequestOK
  <2>3. ASSUME NEW q \in Requests PROVE RequestOK(q)'
    BY DEF RequestOK, RequestsApart
  <2>4. RequestsApart'
    BY DEF RequestsApart, RequestOK, Busy
  <2>5. EndsDiffer'
    BY DEF EndsDiffer, RequestOK
  <2> QED
    BY <2>1, <2>2, <2>3, <2>4, <2>5
<1>2. ASSUME NEW r \in Requests, NEW t \in Transfers, NEW p \in Dtos, BeginUpdate(r, t, p) PROVE TransferInv'
  <2> USE <1>2 DEF Begin, BeginUpdate, TypeOK
  <2>1. TypeOK'
    BY DEF RequestOK
  <2>2. \A z \in Transfers : z \in raced' \/ deleted'[z] => doc'[z] # NoDoc
    BY DEF RequestOK
  <2>3. ASSUME NEW q \in Requests PROVE RequestOK(q)'
    BY DEF RequestOK, RequestsApart
  <2>4. RequestsApart'
    BY DEF RequestsApart, RequestOK, Busy
  <2>5. EndsDiffer'
    BY DEF EndsDiffer, RequestOK
  <2> QED
    BY <2>1, <2>2, <2>3, <2>4, <2>5
<1>3. ASSUME NEW r \in Requests, NEW t \in Transfers, BeginDelete(r, t) PROVE TransferInv'
  <2> USE <1>3 DEF Begin, BeginDelete, TypeOK
  <2>1. TypeOK'
    BY DEF RequestOK
  <2>2. \A z \in Transfers : z \in raced' \/ deleted'[z] => doc'[z] # NoDoc
    BY DEF RequestOK
  <2>3. ASSUME NEW q \in Requests PROVE RequestOK(q)'
    BY DEF RequestOK, RequestsApart
  <2>4. RequestsApart'
    BY DEF RequestsApart, RequestOK, Busy
  <2>5. EndsDiffer'
    BY DEF EndsDiffer, RequestOK
  <2> QED
    BY <2>1, <2>2, <2>3, <2>4, <2>5
<1>4. ASSUME NEW r \in Requests, NEW apart \in BOOLEAN, FindForUpdate(r, apart) PROVE TransferInv'
  <2> DEFINE old == doc[target[r]]
             d == Over(dto[r], old)
  <2>1. CASE deleted[target[r]] \/ SameText(d, apart)
    <3>1. Leave(r) /\ UNCHANGED <<archived, storeVars, trail>>
      BY <1>4, <2>1 DEF FindForUpdate
    <3> QED
      BY <3>1, ClearStep DEF Leave, TypeOK
  <2>2. CASE ~ (deleted[target[r]] \/ SameText(d, apart))
    <3>a. target[r] \in Transfers /\ old \in Docs
      BY <1>4, TargetStored, TransfersAssumption DEF FindForUpdate, RequestOK
    <3>b. d \in Docs
      BY <2>2, <3>a, OverDoc DEF TypeOK
    <3>c. /\ at[r] = "find" /\ op[r] = "update"
          /\ seen' = [seen EXCEPT ![r] = old]
          /\ want' = [want EXCEPT ![r] = d]
          /\ at' = [at EXCEPT ![r] = "from"]
          /\ odd' = IF d.from = d.to THEN odd \cup {r} ELSE odd
          /\ UNCHANGED <<op, target, dto, accepted, archived, doc, deleted, had, respelled, trail,
                         raced, cut>>
      BY <1>4, <2>2 DEF FindForUpdate, Goto, LetThrough
    <3>d. d = Over(dto[r], doc[target[r]])
      OBVIOUS
    <3> HIDE DEF old, d
    <3>1. TypeOK'
      BY <3>a, <3>b, <3>c DEF TypeOK
    <3>2. ASSUME NEW q \in Requests PROVE RequestOK(q)'
      <4>1. CASE q = r
        BY <3>a, <3>b, <3>c, <3>d, <4>1 DEF RequestOK, TypeOK, old
      <4>2. CASE q # r
        BY <3>c, <4>2 DEF RequestOK, TypeOK
      <4> QED
        BY <4>1, <4>2
    <3>3. RequestsApart' /\ EndsDiffer'
      BY <3>c DEF RequestsApart, EndsDiffer
    <3> QED
      BY <3>1, <3>2, <3>3, <3>c
  <2> QED
    BY <2>1, <2>2
<1>5. ASSUME NEW r \in Requests, FindForDelete(r) PROVE TransferInv'
  <2>1. CASE deleted[target[r]]
    <3>1. Leave(r) /\ UNCHANGED <<archived, storeVars, trail>>
      BY <1>5, <2>1 DEF FindForDelete
    <3> QED
      BY <3>1, ClearStep DEF Leave, TypeOK
  <2>2. CASE ~ (deleted[target[r]])
    <3>a. target[r] \in Transfers /\ doc[target[r]] \in Docs
      BY <1>5, TargetStored, TransfersAssumption DEF FindForDelete, RequestOK
    <3>b. /\ at[r] = "find" /\ op[r] = "delete"
          /\ seen' = [seen EXCEPT ![r] = doc[target[r]]]
          /\ at' = [at EXCEPT ![r] = "write"]
          /\ UNCHANGED <<op, target, dto, want, accepted, odd, archived, doc, deleted, had, respelled,
                       trail, raced, cut>>
      BY <1>5, <2>2 DEF FindForDelete, Goto
    <3>1. TypeOK'
      BY <3>a, <3>b DEF TypeOK
    <3>2. ASSUME NEW q \in Requests PROVE RequestOK(q)'
      BY <3>a, <3>b DEF RequestOK, TypeOK
    <3>3. RequestsApart' /\ EndsDiffer'
      BY <3>b DEF RequestsApart, EndsDiffer
    <3> QED
      BY <3>1, <3>2, <3>3, <3>b
  <2> QED
    BY <2>1, <2>2
<1>6. ASSUME NEW r \in Requests, ValidateFrom(r) PROVE TransferInv'
  BY <1>6, ValidateStep DEF ValidateFrom
<1>7. ASSUME NEW r \in Requests, ValidateTo(r) PROVE TransferInv'
  BY <1>7, ValidateStep DEF ValidateTo
<1>8. ASSUME NEW r \in Requests, Insert(r) PROVE TransferInv'
  <2> USE <1>8 DEF Insert, Store, HasWritten, Goto, TypeOK
  <2>1. TypeOK'
    BY DEF RequestOK
  <2>2. \A z \in Transfers : z \in raced' \/ deleted'[z] => doc'[z] # NoDoc
    BY DEF RequestOK
  <2>3. ASSUME NEW q \in Requests PROVE RequestOK(q)'
    BY DEF RequestOK, RequestsApart
  <2>4. RequestsApart'
    BY DEF RequestsApart, RequestOK, Busy
  <2>5. EndsDiffer'
    BY DEF EndsDiffer, RequestOK
  <2> QED
    BY <2>1, <2>2, <2>3, <2>4, <2>5
<1>9. ASSUME NEW r \in Requests, Update(r) PROVE TransferInv'
  <2> DEFINE t == target[r]
             new == Over(dto[r], doc[t])
  <2>a. t \in Transfers /\ doc[t] \in Docs
    BY <1>9, TargetStored, TransfersAssumption DEF Update, RequestOK
  <2>b. new \in Docs
    BY <2>a, OverDoc DEF TypeOK
  <2>c. /\ at[r] = "write" /\ op[r] = "update"
        /\ at' = [at EXCEPT ![r] = "append"]
        /\ dto' = [dto EXCEPT ![r] = NoDto] /\ want' = [want EXCEPT ![r] = NoDoc]
        /\ UNCHANGED <<archived, deleted, trail, op, target, accepted, odd, raced, cut>>
    BY <1>9 DEF Update, HasWritten, Goto
  <2>d. seen[r] # NoDoc
    BY <2>c DEF RequestOK
  <2>1. CASE deleted[t]
    <3>a. UNCHANGED <<doc, had, respelled, seen>>
      BY <1>9, <2>1 DEF Update
    <3>1. TypeOK'
      BY <2>c, <3>a DEF TypeOK
    <3>2. ASSUME NEW q \in Requests PROVE RequestOK(q)'
      BY <2>a, <2>c, <2>d, <3>a DEF RequestOK, TypeOK
    <3>3. RequestsApart' /\ EndsDiffer'
      BY <2>c, <3>a DEF RequestsApart, EndsDiffer
    <3> QED
      BY <2>c, <3>a, <3>1, <3>2, <3>3
  <2>2. CASE ~ deleted[t]
    <3>a. /\ doc' = [doc EXCEPT ![t] = new]
          /\ had' = [had EXCEPT ![t] = @ \cup {new}]
          /\ respelled' = IF r \in odd THEN respelled \cup {t} ELSE respelled \ {t}
          /\ seen' = [seen EXCEPT ![r] = new]
      BY <1>9, <2>2 DEF Update, Store
    <3> HIDE DEF new
    <3>1. TypeOK'
      BY <2>a, <2>b, <2>c, <3>a DEF TypeOK
    <3>2. \A z \in Transfers : doc[z] # NoDoc => doc'[z] # NoDoc
      BY <2>a, <2>b, <3>a DEF TypeOK
    <3>3. ASSUME NEW q \in Requests PROVE RequestOK(q)'
      <4>1. CASE q = r
        BY <2>a, <2>b, <2>c, <3>a, <3>2, <4>1 DEF RequestOK, TypeOK
      <4>2. CASE q # r
        <5>1. target[q] = t => t \in raced
          BY <2>a, <4>2 DEF RequestsApart
        <5>2. target[q] \in Transfers /\ target[q] # t => doc'[target[q]] = doc[target[q]]
          BY <2>a, <3>a DEF TypeOK
        <5> HIDE DEF t
        <5> QED
          BY <2>c, <3>a, <3>2, <4>2, <5>1, <5>2 DEF RequestOK, TypeOK
      <4> QED
        BY <4>1, <4>2
    <3>4. t \notin raced => new.from # new.to \/ r \in odd
      BY <2>c DEF RequestOK, new
    <3>5. RequestsApart' /\ EndsDiffer'
      BY <2>a, <2>c, <3>a, <3>4 DEF RequestsApart, EndsDiffer, TypeOK
    <3> QED
      BY <2>c, <3>1, <3>2, <3>3, <3>5
  <2> QED
    BY <2>1, <2>2
<1>10. ASSUME NEW r \in Requests, MarkDeleted(r) PROVE TransferInv'
  <2>a. /\ at[r] = "write" /\ op[r] = "delete"
        /\ deleted' = [deleted EXCEPT ![target[r]] = TRUE]
        /\ at' = [at EXCEPT ![r] = "append"]
        /\ UNCHANGED <<archived, doc, had, respelled, trail, op, target, dto, want, seen, accepted, odd,
                       raced, cut>>
    BY <1>10 DEF MarkDeleted, Goto
  <2>b. target[r] \in Transfers /\ seen[r] # NoDoc
    BY <2>a DEF RequestOK
  <2>c. doc[target[r]] # NoDoc
    BY <2>b DEF RequestOK, TypeOK
  <2>1. TypeOK'
    BY <2>a DEF TypeOK
  <2>2. ASSUME NEW q \in Requests PROVE RequestOK(q)'
    BY <2>a, <2>b DEF RequestOK, TypeOK
  <2>3. RequestsApart' /\ EndsDiffer'
    BY <2>a DEF RequestsApart, EndsDiffer
  <2> QED
    BY <2>1, <2>2, <2>3, <2>a, <2>b, <2>c DEF TypeOK
<1>11. ASSUME NEW r \in Requests, AppendEvent(r) PROVE TransferInv'
  <2>1. target[r] \in Transfers /\ seen[r] \in Docs /\ EventOf(r) \in Events
    BY <1>11 DEF AppendEvent, RequestOK, TypeOK, EventOf, Events
  <2>2. /\ Clear(r) /\ UNCHANGED <<archived, storeVars, raced>>
        /\ trail' = [trail EXCEPT ![target[r]] = Append(@, EventOf(r))]
        /\ cut' = cut
    BY <1>11 DEF AppendEvent, Leave
  <2>3. trail' \in [Transfers -> Seq(Events)]
    BY <2>1, <2>2 DEF TypeOK
  <2> QED
    BY <2>2, <2>3, ClearStep DEF TypeOK
<1>12. ASSUME NEW r \in Requests, Fail(r) PROVE TransferInv'
  <2>1. cut' \in SUBSET Transfers
    BY <1>12 DEF Fail, TypeOK
  <2> QED
    BY <1>12, <2>1, ClearStep DEF Fail, TypeOK
<1>13. ASSUME NEW x \in Accounts, Archive(x) PROVE TransferInv'
  <2> USE <1>13 DEF Archive, TypeOK
  <2>1. TypeOK'
    BY DEF RequestOK
  <2>2. \A z \in Transfers : z \in raced' \/ deleted'[z] => doc'[z] # NoDoc
    BY DEF RequestOK
  <2>3. ASSUME NEW q \in Requests PROVE RequestOK(q)'
    BY DEF RequestOK, RequestsApart
  <2>4. RequestsApart'
    BY DEF RequestsApart, RequestOK, Busy
  <2>5. EndsDiffer'
    BY DEF EndsDiffer, RequestOK
  <2> QED
    BY <2>1, <2>2, <2>3, <2>4, <2>5
<1>14. ASSUME NEW x \in Accounts, Unarchive(x) PROVE TransferInv'
  <2> USE <1>14 DEF Unarchive, TypeOK
  <2>1. TypeOK'
    BY DEF RequestOK
  <2>2. \A z \in Transfers : z \in raced' \/ deleted'[z] => doc'[z] # NoDoc
    BY DEF RequestOK
  <2>3. ASSUME NEW q \in Requests PROVE RequestOK(q)'
    BY DEF RequestOK, RequestsApart
  <2>4. RequestsApart'
    BY DEF RequestsApart, RequestOK, Busy
  <2>5. EndsDiffer'
    BY DEF EndsDiffer, RequestOK
  <2> QED
    BY <2>1, <2>2, <2>3, <2>4, <2>5
<1>15. CASE UNCHANGED vars
  BY <1>15 DEF vars, TypeOK, RequestOK, RequestsApart, EndsDiffer
<1> QED
  BY <1>1, <1>2, <1>3, <1>4, <1>5, <1>6, <1>7, <1>8, <1>9, <1>10, <1>11, <1>12, <1>13, <1>14, <1>15
     DEF Next, Arrive, Continue

-----------------------------------------------------------------------------
(* What one more event adds to what a trail tells. *)
LEMMA AppendTells ==
  ASSUME NEW s \in Seq(Events), NEW e \in Events
  PROVE  {Append(s, e)[i] : i \in DOMAIN Append(s, e)} = {s[i] : i \in DOMAIN s} \cup {e}
<1> DEFINE u == Append(s, e)
<1>1. /\ DOMAIN u = DOMAIN s \cup {Len(s) + 1}
      /\ \A i \in DOMAIN s : u[i] = s[i]
      /\ u[Len(s) + 1] = e
  OBVIOUS
<1> HIDE DEF u
<1>2. {u[i] : i \in DOMAIN u} = {s[i] : i \in DOMAIN s} \cup {e}
  BY <1>1
<1> QED
  BY <1>2 DEF u

LEMMA TrailStep == TransferInv /\ TrailInv /\ [Next]_vars => TrailInv'
<1> SUFFICES ASSUME TransferInv, TrailInv, [Next]_vars PROVE TrailInv'
  OBVIOUS
<1>0. TypeOK /\ \A r \in Requests : RequestOK(r)
  BY DEF TransferInv
<1> USE TransfersAssumption
(* Nothing is written and no event appended; a request that was to append  *)
(* one still is, or has stopped.                                           *)
<1>1. ASSUME UNCHANGED <<deleted, had, trail>>, cut \subseteq cut',
             \A q \in Requests, t \in Transfers \ cut' :
               /\ Reporting(q, t)' <=> Reporting(q, t)
               /\ Reporting(q, t) => op'[q] = op[q] /\ seen'[q] = seen[q]
      PROVE  TrailInv'
  BY <1>1 DEF TrailInv, Told
<1>2. ASSUME NEW r \in Requests, Arrive(r) PROVE TrailInv'
  <2>1. /\ at[r] = "idle" /\ at'[r] # "append"
        /\ UNCHANGED <<deleted, had, trail, seen, cut>>
        /\ \A q \in Requests \ {r} : at'[q] = at[q] /\ op'[q] = op[q] /\ target'[q] = target[q]
    BY <1>0, <1>2 DEF Arrive, BeginCreate, BeginUpdate, BeginDelete, Begin, storeVars, TypeOK
  <2>2. \A q \in Requests, t \in Transfers :
          /\ Reporting(q, t)' <=> Reporting(q, t)
          /\ Reporting(q, t) => op'[q] = op[q] /\ seen'[q] = seen[q]
    BY <2>1 DEF Reporting
  <2> QED
    BY <1>1, <2>1, <2>2
<1>3. ASSUME NEW r \in Requests,
             (\E apart \in BOOLEAN : FindForUpdate(r, apart)) \/ FindForDelete(r)
               \/ ValidateFrom(r) \/ ValidateTo(r)
      PROVE  TrailInv'
  <2>1. /\ at[r] # "append" /\ at'[r] # "append"
        /\ UNCHANGED <<deleted, had, trail, cut>>
    BY <1>0, <1>3 DEF FindForUpdate, FindForDelete, Validate, ValidateFrom, ValidateTo, Goto, Leave, Clear,
       storeVars, pastVars, TypeOK
  <2>2. \A q \in Requests \ {r} :
          /\ at'[q] = at[q] /\ op'[q] = op[q] /\ target'[q] = target[q] /\ seen'[q] = seen[q]
    BY <1>0, <1>3 DEF FindForUpdate, FindForDelete, Validate, ValidateFrom, ValidateTo, Goto, Leave, Clear,
       TypeOK
  <2>3. \A q \in Requests, t \in Transfers :
          /\ Reporting(q, t)' <=> Reporting(q, t)
          /\ Reporting(q, t) => op'[q] = op[q] /\ seen'[q] = seen[q]
    BY <2>1, <2>2 DEF Reporting
  <2> QED
    BY <1>1, <2>1, <2>3
(* A document is stored, and its request is to report it. *)
<1>4. ASSUME NEW r \in Requests, Insert(r) \/ Update(r) PROVE TrailInv'
  <2>1. /\ at[r] = "write" /\ at'[r] = "append" /\ op[r] \in {"create", "update"} /\ op' = op
        /\ UNCHANGED <<deleted, trail, cut>>
        /\ \A q \in Requests \ {r} :
             at'[q] = at[q] /\ target'[q] = target[q] /\ seen'[q] = seen[q]
    BY <1>0, <1>4 DEF Insert, Update, HasWritten, Goto, pastVars, TypeOK
  <2>2. \A t \in Transfers : \A d \in had'[t] :
          d \in had[t] \/ (target'[r] = t /\ seen'[r] = d)
    <3>1. CASE had' = had
      BY <3>1
    <3>2. ASSUME NEW k \in Transfers, NEW d,
                 had' = [had EXCEPT ![k] = @ \cup {d}], target'[r] = k, seen'[r] = d
          PROVE  \A t \in Transfers : \A c \in had'[t] :
                   c \in had[t] \/ (target'[r] = t /\ seen'[r] = c)
      BY <1>0, <3>2 DEF TypeOK
    <3>3. CASE Insert(r)
      BY <1>0, <3>2, <3>3 DEF Insert, Store, TypeOK
    <3>4. CASE Update(r)
      <4>1. target'[r] = target[r] /\ target[r] \in Transfers
        BY <1>0, <3>4 DEF Update, RequestOK
      <4> QED
        BY <1>0, <3>1, <3>2, <3>4, <4>1 DEF Update, Store, TypeOK
    <3> QED
      BY <1>4, <3>3, <3>4
  <2> SUFFICES ASSUME NEW t \in Transfers \ cut
               PROVE  /\ \A d \in had'[t] :
                           \/ \E e \in Told(t)' : e.snapshot = d
                           \/ \E q \in Requests : Reporting(q, t)' /\ seen'[q] = d
                      /\ deleted'[t] <=>
                           \/ \E e \in Told(t)' : e.what = "deleted"
                           \/ \E q \in Requests : Reporting(q, t)' /\ op'[q] = "delete"
    BY <2>1 DEF TrailInv
  <2>3. /\ Told(t)' = Told(t)
        /\ \A q \in Requests : Reporting(q, t) => Reporting(q, t)' /\ seen'[q] = seen[q]
        /\ \A q \in Requests : op[q] = "delete" => (Reporting(q, t)' <=> Reporting(q, t))
    BY <2>1 DEF Told, Reporting
  <2>4. target'[r] = t => Reporting(r, t)'
    BY <2>1 DEF Reporting
  <2>5. \A d \in had'[t] :
          \/ \E e \in Told(t)' : e.snapshot = d
          \/ \E q \in Requests : Reporting(q, t)' /\ seen'[q] = d
    BY <2>2, <2>3, <2>4 DEF TrailInv
  <2> QED
    BY <2>1, <2>3, <2>5 DEF TrailInv
(* A deletion is marked, and its request is to report it. *)
<1>5. ASSUME NEW r \in Requests, MarkDeleted(r) PROVE TrailInv'
  <2>1. /\ at[r] = "write" /\ op[r] = "delete"
        /\ deleted' = [deleted EXCEPT ![target[r]] = TRUE]
        /\ at' = [at EXCEPT ![r] = "append"]
        /\ UNCHANGED <<had, trail, op, target, seen, cut>>
    BY <1>5 DEF MarkDeleted, Goto, pastVars
  <2> SUFFICES ASSUME NEW t \in Transfers \ cut
               PROVE  /\ \A d \in had[t] :
                           \/ \E e \in Told(t) : e.snapshot = d
                           \/ \E q \in Requests : Reporting(q, t)' /\ seen[q] = d
                      /\ deleted'[t] <=>
                           \/ \E e \in Told(t) : e.what = "deleted"
                           \/ \E q \in Requests : Reporting(q, t)' /\ op[q] = "delete"
    BY <2>1 DEF TrailInv, Told
  <2>2. /\ \A q \in Requests : Reporting(q, t) => Reporting(q, t)'
        /\ \A q \in Requests \ {r} : Reporting(q, t)' => Reporting(q, t)
        /\ Reporting(r, t)' <=> target[r] = t
    BY <1>0, <2>1 DEF Reporting, TypeOK
  <2>3. CASE target[r] = t
    <3>1. deleted'[t] /\ Reporting(r, t)' /\ op[r] = "delete"
      BY <1>0, <2>1, <2>2, <2>3 DEF TypeOK
    <3> QED
      BY <2>2, <3>1 DEF TrailInv
  <2>4. CASE target[r] # t
    <3>1. deleted'[t] <=> deleted[t]
      BY <1>0, <2>1, <2>4 DEF TypeOK
    <3>2. \A q \in Requests : Reporting(q, t)' <=> Reporting(q, t)
      BY <2>2, <2>4 DEF Reporting
    <3> QED
      BY <3>1, <3>2 DEF TrailInv
  <2> QED
    BY <2>3, <2>4
(* The event is appended: the trail tells what the request held. *)
<1>6. ASSUME NEW r \in Requests, AppendEvent(r) PROVE TrailInv'
  <2>1. /\ at[r] = "append"
        /\ trail' = [trail EXCEPT ![target[r]] = Append(trail[target[r]], EventOf(r))]
        /\ at'[r] = "idle" /\ UNCHANGED <<deleted, had, cut>>
    BY <1>0, <1>6 DEF AppendEvent, Leave, Clear, storeVars, pastVars, TypeOK
  <2>2. \A q \in Requests \ {r} :
          /\ at'[q] = at[q] /\ op'[q] = op[q] /\ target'[q] = target[q] /\ seen'[q] = seen[q]
    BY <1>0, <1>6 DEF AppendEvent, Leave, Clear, TypeOK
  <2>3. target[r] \in Transfers /\ seen[r] \in Docs /\ op[r] \in {"create", "update", "delete"}
    BY <1>0, <2>1 DEF RequestOK, TypeOK
  <2>4. /\ EventOf(r) \in Events /\ EventOf(r).snapshot = seen[r]
        /\ EventOf(r).what = "deleted" <=> op[r] = "delete"
    BY <2>3 DEF EventOf, Events
  <2> SUFFICES ASSUME NEW t \in Transfers \ cut
               PROVE  /\ \A d \in had[t] :
                           \/ \E e \in Told(t)' : e.snapshot = d
                           \/ \E q \in Requests : Reporting(q, t)' /\ seen'[q] = d
                      /\ deleted[t] <=>
                           \/ \E e \in Told(t)' : e.what = "deleted"
                           \/ \E q \in Requests : Reporting(q, t)' /\ op'[q] = "delete"
    BY <2>1 DEF TrailInv
  <2>5. /\ ~ Reporting(r, t)'
        /\ \A q \in Requests \ {r} :
             /\ Reporting(q, t)' <=> Reporting(q, t)
             /\ seen'[q] = seen[q] /\ op'[q] = op[q]
        /\ Reporting(r, t) <=> target[r] = t
    BY <2>1, <2>2 DEF Reporting
  <2>6. /\ target[r] = t => Told(t)' = Told(t) \cup {EventOf(r)}
        /\ target[r] # t => Told(t)' = Told(t)
    <3>1. CASE target[r] = t
      <4>1. trail'[t] = Append(trail[t], EventOf(r)) /\ trail[t] \in Seq(Events)
        BY <1>0, <2>1, <3>1 DEF TypeOK
      <4> QED
        BY <2>4, <3>1, <4>1, AppendTells DEF Told
    <3>2. CASE target[r] # t
      BY <1>0, <2>1, <3>2 DEF Told, TypeOK
    <3> QED
      BY <3>1, <3>2
  <2> HIDE DEF Told, Reporting, EventOf
  <2>7. CASE target[r] = t
    BY <2>4, <2>5, <2>6, <2>7 DEF TrailInv
  <2>8. CASE target[r] # t
    BY <2>5, <2>6, <2>8 DEF TrailInv
  <2> QED
    BY <2>7, <2>8
(* A request that stops is about another one, or about none yet. *)
<1>7. ASSUME NEW r \in Requests, Fail(r) PROVE TrailInv'
  <2>1. /\ UNCHANGED <<deleted, had, trail>> /\ cut \subseteq cut'
        /\ target[r] \in Transfers => target[r] \in cut'
        /\ at'[r] = "idle"
    BY <1>0, <1>7 DEF Fail, Clear, storeVars, TypeOK
  <2>2. \A q \in Requests \ {r} :
          /\ at'[q] = at[q] /\ op'[q] = op[q] /\ target'[q] = target[q] /\ seen'[q] = seen[q]
    BY <1>0, <1>7 DEF Fail, Clear, TypeOK
  <2>3. \A q \in Requests, t \in Transfers \ cut' :
          /\ Reporting(q, t)' <=> Reporting(q, t)
          /\ Reporting(q, t) => op'[q] = op[q] /\ seen'[q] = seen[q]
    BY <2>1, <2>2 DEF Reporting
  <2> QED
    BY <1>1, <2>1, <2>3
<1>8. ASSUME (\E x : Archive(x) \/ Unarchive(x)) \/ UNCHANGED vars PROVE TrailInv'
  <2>1. UNCHANGED <<deleted, had, trail, at, op, target, seen, cut>>
    BY <1>8 DEF Archive, Unarchive, vars, storeVars, requestVars, pastVars
  <2> QED
    BY <1>1, <2>1 DEF Reporting
<1> QED
  BY <1>2, <1>3, <1>4, <1>5, <1>6, <1>7, <1>8 DEF Next, Continue

-----------------------------------------------------------------------------
(* The invariant TransfersInv holds in every reachable state: the types,   *)
(* what each request in flight works on, the accounts, and what the        *)
(* trail does not tell yet.                                                *)
THEOREM TransferInvariant == Spec => []TransfersInv
<1>1. Init => TrailInv
  BY DEF Init, TrailInv, Told, Reporting
<1>2. TransfersInv /\ [Next]_vars => TransfersInv'
  BY TransferStep, TrailStep DEF TransfersInv
<1> QED
  BY <1>1, <1>2, TransferInit, PTL DEF Spec, TransfersInv

(* No transfer goes from an account to itself, whatever is archived and    *)
(* whichever request stops midway, unless two requests have worked on it   *)
(* at once or its last writer spelled the account in two ways              *)
(* (validateAccounts, updateTransfer).                                     *)
THEOREM AccountsDiffer == Spec => []EndsDiffer
<1>1. TransfersInv => EndsDiffer
  BY DEF TransfersInv, TransferInv
<1> QED
  BY <1>1, TransferInvariant, PTL

(* What is deleted stays deleted and as it was, whatever was in flight     *)
(* (the deletedAt filter of TransferRepository.update).                    *)
THEOREM DeletionIsFinal == Spec => DeletedIsFinal
<1>1. TransfersInv /\ [Next]_vars => [\A t \in Transfers : deleted[t] => deleted'[t] /\ doc'[t] = doc[t]]_vars
  <2> SUFFICES ASSUME TransfersInv, [Next]_vars, NEW t \in Transfers, deleted[t]
               PROVE  deleted'[t] /\ doc'[t] = doc[t]
    OBVIOUS
  <2>1. TypeOK /\ doc[t] # NoDoc
    BY DEF TransfersInv, TransferInv
  <2>2. CASE UNCHANGED <<doc, deleted>>
    BY <2>2
  <2>3. ASSUME NEW r \in Requests, Insert(r) PROVE deleted'[t] /\ doc'[t] = doc[t]
    BY <2>1, <2>3 DEF Insert, Store, TypeOK
  <2>4. ASSUME NEW r \in Requests, Update(r) PROVE deleted'[t] /\ doc'[t] = doc[t]
    BY <2>1, <2>4 DEF Update, Store, TypeOK
  <2>5. ASSUME NEW r \in Requests, MarkDeleted(r) PROVE deleted'[t] /\ doc'[t] = doc[t]
    BY <2>1, <2>5 DEF MarkDeleted, TypeOK
  <2> QED
    BY <2>2, <2>3, <2>4, <2>5
    DEF Next, Arrive, Continue, vars, storeVars, BeginCreate, BeginUpdate, BeginDelete, Begin,
        FindForUpdate, FindForDelete, Validate, ValidateFrom, ValidateTo, AppendEvent, Fail,
        Archive, Unarchive
<1> QED
  BY <1>1, TransferInvariant, PTL DEF Spec, DeletedIsFinal

(* The audit trail tells all that a transfer has been and whether it is    *)
(* deleted, whatever raced on it: every handler appends its event after    *)
(* its write, with the document the write returned (appendEvent).          *)
THEOREM TrailIsComplete == Spec => []TrailTellsAll
<1>1. TransfersInv => TrailTellsAll
  <2> SUFFICES ASSUME TrailInv, TypeOK, NEW t \in Transfers, ~ Busy(t), t \notin cut
               PROVE  /\ had[t] \subseteq {e.snapshot : e \in Told(t)}
                      /\ deleted[t] = \E e \in Told(t) : e.what = "deleted"
    BY DEF TrailTellsAll, TransfersInv, TransferInv, Told
  <2>1. \A r \in Requests : ~ Reporting(r, t)
    BY DEF Busy, Reporting
  <2>2. had[t] \subseteq {e.snapshot : e \in Told(t)}
    BY <2>1 DEF TrailInv
  <2>3. deleted[t] <=> \E e \in Told(t) : e.what = "deleted"
    BY <2>1 DEF TrailInv
  <2> QED
    BY <2>2, <2>3 DEF TypeOK
<1> QED
  BY <1>1, TransferInvariant, PTL
=============================================================================
