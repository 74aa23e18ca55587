------------------------------ MODULE Movements ------------------------------
(***************************************************************************)
(* Recording, editing and deleting the movements of one family             *)
(* (MovementsService), beside the archiving of its financial accounts and  *)
(* categories and the movement's audit trail.  A request is a process and  *)
(* every awaited database call is a step: what a handler validated can     *)
(* have changed when it writes.                                            *)
(***************************************************************************)
EXTENDS Naturals, Sequences

CONSTANTS
  Accounts,          \* the family's financial accounts
  IncomeCategories,  \* categories visible to the family, by their kind,
  ExpenseCategories, \* which is fixed when a category is created
  SystemCategories,  \* those of them that cannot be archived
  Details,           \* amount, date and note of a movement, as one value
  Movements,         \* ids of the movements that can be recorded
  Requests,          \* requests in flight at once
  NoCategory, NoDoc, NoMovement,
  MaxRequests        \* bound on the requests accepted

Categories == IncomeCategories \cup ExpenseCategories
Types == {"income", "expense"}
KindOf(c) == IF c \in IncomeCategories THEN "income" ELSE "expense"

(* What a movement stores, but for its family and its author. *)
Docs == [type : Types, account : Accounts,
         category : Categories \cup {NoCategory}, detail : Details]
Fields == {"type", "account", "category", "detail"}

(* A dto: the fields it gives, with their values. *)
Dtos == {[k \in f |-> d[k]] : f \in SUBSET Fields, d \in Docs}
NoDto == [k \in {} |-> NoDoc]

(* An audit event: MovementEventType and the snapshot of the movement. *)
Events == [what : {"created", "updated", "deleted"}, snapshot : Docs]

ASSUME MovementsAssumption ==
  /\ IncomeCategories \cap ExpenseCategories = {}
  /\ SystemCategories \subseteq Categories
  /\ NoCategory \notin Categories
  /\ NoDoc \notin Docs
  /\ NoMovement \notin Movements
  /\ MaxRequests \in Nat

VARIABLES
  archived,   \* accounts and categories whose archivedAt is set
  \* movements collection
  doc,        \* doc[m]: the stored movement, or NoDoc
  deleted,    \* deleted[m]: deletedAt is set
  \* movementEvents collection
  trail,      \* trail[m]: the events of m in the order they were appended
  \* requests in flight
  at,         \* at[r]: the call r awaits next, or "idle"
  op,         \* op[r]: the handler r runs
  target,     \* target[r]: the movement r works on
  dto,        \* dto[r]: the fields the client gave
  want,       \* want[r]: the dto over the movement read: the effective values
  seen,       \* seen[r]: the document r holds, to be written in its event
  accepted,   \* number of requests accepted, for MaxRequests
  \* history
  had,        \* had[m]: the documents m has had
  raced,      \* movements two requests worked on at once
  cut         \* movements a request on which stopped midway

storeVars == <<doc, deleted, had>>
requestVars == <<at, op, target, dto, want, seen, accepted>>
pastVars == <<raced, cut>>
vars == <<archived, doc, deleted, trail, at, op, target, dto, want, seen, accepted,
          had, raced, cut>>

TypeOK ==
  /\ archived \subseteq Accounts \cup (Categories \ SystemCategories)
  /\ doc \in [Movements -> Docs \cup {NoDoc}]
  /\ deleted \in [Movements -> BOOLEAN]
  /\ trail \in [Movements -> Seq(Events)]
  /\ at \in [Requests -> {"idle", "find", "account", "category", "write", "append"}]
  /\ op \in [Requests -> {"none", "create", "update", "delete"}]
  /\ target \in [Requests -> Movements \cup {NoMovement}]
  /\ dto \in [Requests -> Dtos \cup {NoDto}]
  /\ want \in [Requests -> Docs \cup {NoDoc}]
  /\ seen \in [Requests -> Docs \cup {NoDoc}]
  /\ accepted \in Nat
  /\ had \in [Movements -> SUBSET Docs]
  /\ raced \subseteq Movements
  /\ cut \subseteq Movements

Init ==
  /\ archived = {}
  /\ doc = [m \in Movements |-> NoDoc]
  /\ deleted = [m \in Movements |-> FALSE]
  /\ trail = [m \in Movements |-> <<>>]
  /\ at = [r \in Requests |-> "idle"]
  /\ op = [r \in Requests |-> "none"]
  /\ target = [r \in Requests |-> NoMovement]
  /\ dto = [r \in Requests |-> NoDto]
  /\ want = [r \in Requests |-> NoDoc]
  /\ seen = [r \in Requests |-> NoDoc]
  /\ accepted = 0
  /\ had = [m \in Movements |-> {}]
  /\ raced = {}
  /\ cut = {}

-----------------------------------------------------------------------------
Goto(r, stage) ==
  /\ at' = [at EXCEPT ![r] = stage]
  /\ UNCHANGED pastVars

Clear(r) ==
  /\ at' = [at EXCEPT ![r] = "idle"]
  /\ op' = [op EXCEPT ![r] = "none"]
  /\ target' = [target EXCEPT ![r] = NoMovement]
  /\ dto' = [dto EXCEPT ![r] = NoDto]
  /\ want' = [want EXCEPT ![r] = NoDoc]
  /\ seen' = [seen EXCEPT ![r] = NoDoc]
  /\ UNCHANGED accepted

Leave(r) == Clear(r) /\ UNCHANGED pastVars

(* The fields the patch p gives, over the document old. *)
Over(p, old) ==
  LET value(k) == IF k \in DOMAIN p THEN p[k] ELSE old[k]
  IN [type |-> value("type"), account |-> value("account"),
      category |-> value("category"), detail |-> value("detail")]

Store(m, d) ==
  /\ doc' = [doc EXCEPT ![m] = d]
  /\ had' = [had EXCEPT ![m] = @ \cup {d}]

Busy(m) == \E r \in Requests : target[r] = m

(* A request is accepted. *)
Begin(r, what, stage, m, p, d) ==
  /\ at[r] = "idle"
  /\ accepted < MaxRequests
  /\ accepted' = accepted + 1
  /\ at' = [at EXCEPT ![r] = stage]
  /\ op' = [op EXCEPT ![r] = what]
  /\ target' = [target EXCEPT ![r] = m]
  /\ dto' = [dto EXCEPT ![r] = p]
  /\ want' = [want EXCEPT ![r] = d]
  /\ raced' = IF m \in Movements /\ Busy(m) THEN raced \cup {m} ELSE raced
  /\ UNCHANGED <<archived, storeVars, trail, seen, cut>>

-----------------------------------------------------------------------------
(* The handlers begin *)

BeginCreate(r, d) == Begin(r, "create", "account", NoMovement, NoDto, d)

(* An update without a field is refused (400) and changes nothing. *)
BeginUpdate(r, m, p) ==
  /\ doc[m] # NoDoc
  /\ p # NoDto
  /\ Begin(r, "update", "find", m, p, NoDoc)

BeginDelete(r, m) ==
  /\ doc[m] # NoDoc
  /\ Begin(r, "delete", "find", m, NoDto, NoDoc)

(* requireInFamily: a deleted movement is answered 404.  The effective     *)
(* values are the dto's, over the document read.                           *)
FindForUpdate(r) ==
  /\ at[r] = "find" /\ op[r] = "update"
  /\ IF deleted[target[r]]
       THEN Leave(r)
       ELSE /\ seen' = [seen EXCEPT ![r] = doc[target[r]]]
            /\ want' = [want EXCEPT ![r] = Over(dto[r], doc[target[r]])]
            /\ Goto(r, "account")
            /\ UNCHANGED <<op, target, dto, accepted>>
  /\ UNCHANGED <<archived, storeVars, trail>>

(* findAnyInFamily: deleting a deleted movement is a no-op. *)
FindForDelete(r) ==
  /\ at[r] = "find" /\ op[r] = "delete"
  /\ IF deleted[target[r]]
       THEN Leave(r)
       ELSE /\ seen' = [seen EXCEPT ![r] = doc[target[r]]]
            /\ Goto(r, "write")
            /\ UNCHANGED <<op, target, dto, want, accepted>>
  /\ UNCHANGED <<archived, storeVars, trail>>

-----------------------------------------------------------------------------
(* The validations of create and update *)

(* validateAccount: an archived account is answered 400. *)
ValidateAccount(r) ==
  /\ at[r] = "account"
  /\ IF want[r].account \in archived
       THEN Leave(r)
       ELSE /\ Goto(r, "category")
            /\ UNCHANGED <<op, target, dto, want, seen, accepted>>
  /\ UNCHANGED <<archived, storeVars, trail>>

(* Mutant of ValidateCategory: the kind is checked against the dto only    *)
(* when the dto gives a category.                                          *)
ValidateGivenCategory(r) ==
  /\ at[r] = "category"
  /\ LET c == want[r].category
     IN IF /\ c # NoCategory
           /\ "category" \in DOMAIN dto[r]
           /\ c \in archived \/ KindOf(c) # want[r].type
          THEN Leave(r)
          ELSE /\ Goto(r, "write")
               /\ UNCHANGED <<op, target, dto, want, seen, accepted>>
  /\ UNCHANGED <<archived, storeVars, trail>>

(* validateCategory: an archived category, or one of the other kind, is    *)
(* answered 400.                                                           *)
ValidateCategory(r) ==
  /\ at[r] = "category"
  /\ LET c == want[r].category
     IN IF c # NoCategory /\ (c \in archived \/ KindOf(c) # want[r].type)
          THEN Leave(r)
          ELSE /\ Goto(r, "write")
               /\ UNCHANGED <<op, target, dto, want, seen, accepted>>
  /\ UNCHANGED <<archived, storeVars, trail>>

-----------------------------------------------------------------------------
(* The writes *)

(* movements.create *)
Insert(r) ==
  /\ at[r] = "write" /\ op[r] = "create"
  /\ \E m \in Movements :
       /\ doc[m] = NoDoc
       /\ Store(m, want[r])
       /\ target' = [target EXCEPT ![r] = m]
  /\ seen' = [seen EXCEPT ![r] = want[r]]
  /\ Goto(r, "append")
  /\ UNCHANGED <<archived, deleted, trail, op, dto, want, accepted>>

(* Mutant of Update: the document as it was before comes back.             *)
UpdateReturnsOld(r) ==
  /\ at[r] = "write" /\ op[r] = "update"
  /\ LET m == target[r] IN
       IF deleted[m]
         THEN UNCHANGED <<doc, had, seen>>
         ELSE LET new == Over(dto[r], doc[m])
              IN Store(m, new) /\ seen' = [seen EXCEPT ![r] = doc[m]]
  /\ Goto(r, "append")
  /\ UNCHANGED <<archived, deleted, trail, op, target, dto, want, accepted>>

(* Mutant of Update: deletedAt is not in the filter.                       *)
UpdateDeletedToo(r) ==
  /\ at[r] = "write" /\ op[r] = "update"
  /\ LET m == target[r]
         new == Over(dto[r], doc[m])
     IN Store(m, new) /\ seen' = [seen EXCEPT ![r] = new]
  /\ Goto(r, "append")
  /\ UNCHANGED <<archived, deleted, trail, op, target, dto, want, accepted>>

(* findOneAndUpdate of a movement not deleted: sets the dto's fields and   *)
(* returns the new document; when nothing matches the handler goes on with *)
(* the document it had read.                                               *)
Update(r) ==
  /\ at[r] = "write" /\ op[r] = "update"
  /\ LET m == target[r] IN
       IF deleted[m]
         THEN UNCHANGED <<doc, had, seen>>
         ELSE LET new == Over(dto[r], doc[m])
              IN Store(m, new) /\ seen' = [seen EXCEPT ![r] = new]
  /\ Goto(r, "append")
  /\ UNCHANGED <<archived, deleted, trail, op, target, dto, want, accepted>>

(* markDeleted *)
MarkDeleted(r) ==
  /\ at[r] = "write" /\ op[r] = "delete"
  /\ deleted' = [deleted EXCEPT ![target[r]] = TRUE]
  /\ Goto(r, "append")
  /\ UNCHANGED <<archived, doc, had, trail, op, target, dto, want, seen, accepted>>

(* appendEvent, the last call of each handler *)
EventOf(r) ==
  [what |-> CASE op[r] = "create" -> "created"
              [] op[r] = "update" -> "updated"
              [] OTHER -> "deleted",
   snapshot |-> seen[r]]

AppendEvent(r) ==
  /\ at[r] = "append"
  /\ trail' = [trail EXCEPT ![target[r]] = Append(@, EventOf(r))]
  /\ Leave(r)
  /\ UNCHANGED <<archived, storeVars>>

-----------------------------------------------------------------------------
(* A call rejects, or the server dies: nothing of the handler runs any more. *)
Fail(r) ==
  /\ at[r] # "idle"
  /\ cut' = IF target[r] \in Movements THEN cut \cup {target[r]} ELSE cut
  /\ Clear(r)
  /\ UNCHANGED <<archived, storeVars, trail, raced>>

(* archive and unarchive of accounts and custom categories: both handlers  *)
(* end in one write, which may come at any time after what they read.      *)
Archive(x) ==
  /\ archived' = archived \cup {x}
  /\ UNCHANGED <<storeVars, trail, requestVars, pastVars>>

Unarchive(x) ==
  /\ archived' = archived \ {x}
  /\ UNCHANGED <<storeVars, trail, requestVars, pastVars>>

-----------------------------------------------------------------------------
Arrive(r) ==
  \/ \E d \in Docs : BeginCreate(r, d)
  \/ \E m \in Movements, p \in Dtos : BeginUpdate(r, m, p)
  \/ \E m \in Movements : BeginDelete(r, m)

Continue(r) ==
  \/ FindForUpdate(r) \/ FindForDelete(r)
  \/ ValidateAccount(r) \/ ValidateCategory(r)
  \/ Insert(r) \/ Update(r) \/ MarkDeleted(r) \/ AppendEvent(r)

Next ==
  \/ \E r \in Requests : Arrive(r) \/ Continue(r) \/ Fail(r)
  \/ \E x \in Accounts \cup (Categories \ SystemCategories) : Archive(x) \/ Unarchive(x)

Spec == Init /\ [][Next]_vars

-----------------------------------------------------------------------------
(* Properties *)

KindOK(d) == d.category # NoCategory => KindOf(d.category) = d.type

(* A movement's category is of the movement's kind (006 FR-004), unless    *)
(* two requests have worked on the movement at once.                       *)
KindsMatch == \A m \in Movements \ raced : doc[m] # NoDoc => KindOK(doc[m])

(* The same without the exception. *)
KindsAlwaysMatch == \A m \in Movements : doc[m] # NoDoc => KindOK(doc[m])

(* What a request works on, and what it is about to write.  The patch is   *)
(* written over the document stored by then: it gives the values that were *)
(* validated as long as that is the document read.                         *)
RequestOK(r) ==
  /\ at[r] = "idle" => target[r] = NoMovement
  /\ at[r] # "idle" => op[r] # "none"
  /\ op[r] = "create" /\ at[r] # "append" => target[r] = NoMovement /\ want[r] # NoDoc
  /\ op[r] \in {"update", "delete"} => target[r] \in Movements
  /\ target[r] # NoMovement => doc[target[r]] # NoDoc
  /\ at[r] = "write" /\ op[r] \in {"create", "update"} => KindOK(want[r])
  /\ at[r] = "append" => target[r] # NoMovement /\ seen[r] # NoDoc
  /\ op[r] = "delete" /\ at[r] # "find" => seen[r] # NoDoc
  /\ op[r] = "update" /\ at[r] \in {"account", "category", "write"} =>
       /\ want[r] # NoDoc /\ seen[r] # NoDoc
       /\ target[r] \in raced \/ want[r] = Over(dto[r], doc[target[r]])

RequestsApart ==
  \A r, s \in Requests :
    r # s /\ target[r] # NoMovement /\ target[r] = target[s] => target[r] \in raced

(* Why KindsMatch holds: while requests on one movement do not overlap,    *)
(* the values validated together are still the values stored together.     *)
MovementInv ==
  /\ TypeOK
  /\ \A m \in Movements : m \in raced \/ deleted[m] => doc[m] # NoDoc
  /\ \A r \in Requests : RequestOK(r)
  /\ RequestsApart
  /\ KindsMatch

(* Deleting is final, whatever was in flight: a deleted movement comes     *)
(* back neither changed nor undeleted (FR-010).                            *)
DeletedIsFinal ==
  [][\A m \in Movements : deleted[m] => deleted'[m] /\ doc'[m] = doc[m]]_vars

(* The audit trail tells everything a movement has been (FR-011), also     *)
(* after requests that raced: when nothing works on it and none of its     *)
(* requests stopped midway, every document it ever had is the snapshot of  *)
(* an event, and it is deleted exactly when the trail says so.             *)
TrailTellsAll ==
  \A m \in Movements : ~ Busy(m) /\ m \notin cut =>
    LET told == {trail[m][i] : i \in DOMAIN trail[m]}
    IN /\ had[m] \subseteq {e.snapshot : e \in told}
       /\ deleted[m] = \E e \in told : e.what = "deleted"

(* A request on m whose event is still to be appended. *)
Reporting(r, m) == at[r] = "append" /\ target[r] = m

Told(m) == {trail[m][i] : i \in DOMAIN trail[m]}

(* The inductive invariant behind it: what the trail does not tell yet,    *)
(* the event of a request that has written is going to.                    *)
TrailInv ==
  \A m \in Movements \ cut :
    /\ \A d \in had[m] :
         \/ \E e \in Told(m) : e.snapshot = d
         \/ \E r \in Requests : Reporting(r, m) /\ seen[r] = d
    /\ deleted[m] <=>
         \/ \E e \in Told(m) : e.what = "deleted"
         \/ \E r \in Requests : Reporting(r, m) /\ op[r] = "delete"

(* All of it, inductive. *)
MovementsInv == MovementInv /\ TrailInv
=============================================================================
