------------------------------- MODULE Transfers -------------------------------
(***************************************************************************)
(* Recording, editing and deleting the transfers of one family             *)
(* (TransfersService), beside the archiving of its financial accounts and  *)
(* the transfer's audit trail.  A request is a process and every awaited   *)
(* database call is a step.                                                *)
(***************************************************************************)
EXTENDS Naturals, Sequences

CONSTANTS
  Accounts,    \* the family's financial accounts
  Details,     \* amount, date and note of a transfer, as one value
  Transfers,   \* ids of the transfers that can be recorded
  Requests,    \* requests in flight at once
  Amended,     \* the dtos updates are tried with
  NoDoc, NoTransfer,
  MaxRequests  \* bound on the requests accepted

(* What a transfer stores, but for its family and its author. *)
Docs == [from : Accounts, to : Accounts, detail : Details]
Fields == {"from", "to", "detail"}

(* A dto: the fields it gives, with their values. *)
Dtos == {[k \in f |-> d[k]] : f \in SUBSET Fields, d \in Docs}
NoDto == [k \in {} |-> NoDoc]

(* An audit event: TransferEventType and the snapshot of the transfer. *)
Events == [what : {"created", "updated", "deleted"}, snapshot : Docs]

ASSUME TransfersAssumption ==
  /\ NoDoc \notin Docs
  /\ NoTransfer \notin Transfers
  /\ Amended \subseteq Dtos
  /\ MaxRequests \in Nat

VARIABLES
  archived,   \* accounts whose archivedAt is set
  \* transfers collection
  doc,        \* doc[t]: the stored transfer, or NoDoc
  deleted,    \* deleted[t]: deletedAt is set
  \* transferEvents collection
  trail,      \* trail[t]: the events of t in the order they were appended
  \* requests in flight
  at,         \* at[r]: the call r awaits next, or "idle"
  op,         \* op[r]: the handler r runs
  target,     \* target[r]: the transfer r works on
  dto,        \* dto[r]: the fields the client gave
  want,       \* want[r]: the dto over the transfer read: the effective values
  seen,       \* seen[r]: the document r holds, to be written in its event
  accepted,   \* number of requests accepted, for MaxRequests
  \* history
  odd,        \* requests let through with one account twice, spelled apart
  had,        \* had[t]: the documents t has had
  respelled,  \* transfers an odd request was the last to write
  raced,      \* transfers two requests worked on at once
  cut         \* transfers a request on which stopped midway

storeVars == <<doc, deleted, had, respelled>>
requestVars == <<at, op, target, dto, want, seen, accepted, odd>>
pastVars == <<raced, cut>>
vars == <<archived, doc, deleted, trail, at, op, target, dto, want, seen, accepted,
          odd, had, respelled, raced, cut>>

TypeOK ==
  /\ archived \subseteq Accounts
  /\ doc \in [Transfers -> Docs \cup {NoDoc}]
  /\ deleted \in [Transfers -> BOOLEAN]
  /\ trail \in [Transfers -> Seq(Events)]
  /\ at \in [Requests -> {"idle", "find", "from", "to", "write", "append"}]
  /\ op \in [Requests -> {"none", "create", "update", "delete"}]
  /\ target \in [Requests -> Transfers \cup {NoTransfer}]
  /\ dto \in [Requests -> Dtos \cup {NoDto}]
  /\ want \in [Requests -> Docs \cup {NoDoc}]
  /\ seen \in [Requests -> Docs \cup {NoDoc}]
  /\ accepted \in Nat
  /\ odd \subseteq Requests
  /\ had \in [Transfers -> SUBSET Docs]
  /\ respelled \subseteq Transfers
  /\ raced \subseteq Transfers
  /\ cut \subseteq Transfers

Init ==
  /\ archived = {}
  /\ doc = [t \in Transfers |-> NoDoc]
  /\ deleted = [t \in Transfers |-> FALSE]
  /\ trail = [t \in Transfers |-> <<>>]
  /\ at = [r \in Requests |-> "idle"]
  /\ op = [r \in Requests |-> "none"]
  /\ target = [r \in Requests |-> NoTransfer]
  /\ dto = [r \in Requests |-> NoDto]
  /\ want = [r \in Requests |-> NoDoc]
  /\ seen = [r \in Requests |-> NoDoc]
  /\ accepted = 0
  /\ odd = {}
  /\ had = [t \in Transfers |-> {}]
  /\ respelled = {}
  /\ raced = {}
  /\ cut = {}

-----------------------------------------------------------------------------
Goto(r, stage) ==
  /\ at' = [at EXCEPT ![r] = stage]
  /\ UNCHANGED pastVars

Clear(r) ==
  /\ at' = [at EXCEPT ![r] = "idle"]
  /\ op' = [op EXCEPT ![r] = "none"]
  /\ target' = [target EXCEPT ![r] = NoTransfer]
  /\ dto' = [dto EXCEPT ![r] = NoDto]
  /\ want' = [want EXCEPT ![r] = NoDoc]
  /\ seen' = [seen EXCEPT ![r] = NoDoc]
  /\ odd' = odd \ {r}
  /\ UNCHANGED accepted

Leave(r) == Clear(r) /\ UNCHANGED pastVars

(* The fields the patch p gives, over the document old. *)
Over(p, old) ==
  LET value(k) == IF k \in DOMAIN p THEN p[k] ELSE old[k]
  IN [from |-> value("from"), to |-> value("to"), detail |-> value("detail")]

Store(r, t, d) ==
  /\ doc' = [doc EXCEPT ![t] = d]
  /\ had' = [had EXCEPT ![t] = @ \cup {d}]
  /\ respelled' = IF r \in odd THEN respelled \cup {t} ELSE respelled \ {t}

(* What validateAccounts compares: the two account ids of d as strings.  A *)
(* client may spell the ids it gives apart, one with its hex digits in the *)
(* other case; new Types.ObjectId forgets the spelling.                    *)
SameText(d, apart) == d.from = d.to /\ ~ apart

(* A request goes on with the accounts of d. *)
LetThrough(r, d) == odd' = IF d.from = d.to THEN odd \cup {r} ELSE odd

Busy(t) == \E r \in Requests : target[r] = t

(* A request is accepted. *)
Begin(r, what, stage, t, p, d) ==
  /\ at[r] = "idle"
  /\ accepted < MaxRequests
  /\ accepted' = accepted + 1
  /\ at' = [at EXCEPT ![r] = stage]
  /\ op' = [op EXCEPT ![r] = what]
  /\ target' = [target EXCEPT ![r] = t]
  /\ dto' = [dto EXCEPT ![r] = p]
  /\ want' = [want EXCEPT ![r] = d]
  /\ raced' = IF t \in Transfers /\ Busy(t) THEN raced \cup {t} ELSE raced
  /\ UNCHANGED <<archived, storeVars, trail, seen, cut>>

-----------------------------------------------------------------------------
(* The handlers begin *)

(* Two account ids that are one string are answered 400 before any call. *)
BeginCreate(r, d, apart) ==
  /\ ~ SameText(d, apart)
  /\ Begin(r, "create", "from", NoTransfer, NoDto, d)
  /\ LetThrough(r, d)

(* An update without a field is refused (400) and changes nothing. *)
BeginUpdate(r, t, p) ==
  /\ doc[t] # NoDoc
  /\ p # NoDto
  /\ Begin(r, "update", "find", t, p, NoDoc)
  /\ UNCHANGED odd

BeginDelete(r, t) ==
  /\ doc[t] # NoDoc
  /\ Begin(r, "delete", "find", t, NoDto, NoDoc)
  /\ UNCHANGED odd

(* Mutant of FindForUpdate: the accounts are compared only when the dto    *)
(* gives both.                                                             *)
FindForUpdateComparesGiven(r, apart) ==
  /\ at[r] = "find" /\ op[r] = "update"
  /\ LET d == Over(dto[r], doc[target[r]])
     IN IF deleted[target[r]] \/ ({"from", "to"} \subseteq DOMAIN dto[r] /\ SameText(d, apart))
          THEN Leave(r)
          ELSE /\ seen' = [seen EXCEPT ![r] = doc[target[r]]]
               /\ want' = [want EXCEPT ![r] = d]
               /\ Goto(r, "from")
               /\ UNCHANGED <<op, target, dto, accepted, odd>>
  /\ UNCHANGED <<archived, storeVars, trail>>

(* requireInFamily: a deleted transfer is answered 404.  The effective     *)
(* accounts are the dto's, as the client spells them, over those of the    *)
(* document read, which toString prints in one way; one string twice is    *)
(* answered 400.                                                           *)
FindForUpdate(r, apart) ==
  /\ at[r] = "find" /\ op[r] = "update"
  /\ apart => {"from", "to"} \cap DOMAIN dto[r] # {}
  /\ LET d == Over(dto[r], doc[target[r]])
     IN IF deleted[target[r]] \/ SameText(d, apart)
          THEN Leave(r)
          ELSE /\ seen' = [seen EXCEPT ![r] = doc[target[r]]]
               /\ want' = [want EXCEPT ![r] = d]
               /\ Goto(r, "from")
               /\ LetThrough(r, d)
               /\ UNCHANGED <<op, target, dto, accepted>>
  /\ UNCHANGED <<archived, storeVars, trail>>

(* findAnyInFamily: deleting a deleted transfer is a no-op. *)
FindForDelete(r) ==
  /\ at[r] = "find" /\ op[r] = "delete"
  /\ IF deleted[target[r]]
       THEN Leave(r)
       ELSE /\ seen' = [seen EXCEPT ![r] = doc[target[r]]]
            /\ Goto(r, "write")
            /\ UNCHANGED <<op, target, dto, want, accepted, odd>>
  /\ UNCHANGED <<archived, storeVars, trail>>

-----------------------------------------------------------------------------
(* validateAccounts: one call per account; an archived one is answered 400. *)
Validate(r, end, account, next) ==
  /\ at[r] = end
  /\ IF account \in archived
       THEN Leave(r)
       ELSE /\ Goto(r, next)
            /\ UNCHANGED <<op, target, dto, want, seen, accepted, odd>>
  /\ UNCHANGED <<archived, storeVars, trail>>

ValidateFrom(r) == Validate(r, "from", want[r].from, "to")
ValidateTo(r) == Validate(r, "to", want[r].to, "write")

-----------------------------------------------------------------------------
(* The writes *)

(* The request only has its event left; its dto is not used any more. *)
HasWritten(r) ==
  /\ Goto(r, "append")
  /\ dto' = [dto EXCEPT ![r] = NoDto]
  /\ want' = [want EXCEPT ![r] = NoDoc]

(* transfers.create *)
Insert(r) ==
  /\ at[r] = "write" /\ op[r] = "create"
  /\ \E t \in Transfers :
       /\ doc[t] = NoDoc
       /\ Store(r, t, want[r])
       /\ target' = [target EXCEPT ![r] = t]
  /\ seen' = [seen EXCEPT ![r] = want[r]]
  /\ HasWritten(r)
  /\ UNCHANGED <<archived, deleted, trail, op, accepted, odd>>

(* Mutant of Update: deletedAt is not in the filter.                       *)
UpdateDeletedToo(r) ==
  /\ at[r] = "write" /\ op[r] = "update"
  /\ LET new == Over(dto[r], doc[target[r]])
     IN Store(r, target[r], new) /\ seen' = [seen EXCEPT ![r] = new]
  /\ HasWritten(r)
  /\ UNCHANGED <<archived, deleted, trail, op, target, accepted, odd>>

(* findOneAndUpdate of a transfer not deleted: sets the dto's fields and   *)
(* returns the new document; when nothing matches the handler goes on with *)
(* the document it had read.                                               *)
Update(r) ==
  /\ at[r] = "write" /\ op[r] = "update"
  /\ LET t == target[r] IN
       IF deleted[t]
         THEN UNCHANGED <<doc, had, respelled, seen>>
         ELSE LET new == Over(dto[r], doc[t])
              IN Store(r, t, new) /\ seen' = [seen EXCEPT ![r] = new]
  /\ HasWritten(r)
  /\ UNCHANGED <<archived, deleted, trail, op, target, accepted, odd>>

(* Mutant of MarkDeleted: a delete answers without its event.              *)
MarkDeletedSilently(r) ==
  /\ at[r] = "write" /\ op[r] = "delete"
  /\ deleted' = [deleted EXCEPT ![target[r]] = TRUE]
  /\ Leave(r)
  /\ UNCHANGED <<archived, doc, had, respelled, trail>>

(* markDeleted *)
MarkDeleted(r) ==
  /\ at[r] = "write" /\ op[r] = "delete"
  /\ deleted' = [deleted EXCEPT ![target[r]] = TRUE]
  /\ Goto(r, "append")
  /\ UNCHANGED <<archived, doc, had, respelled, trail, op, target, dto, want, seen, accepted, odd>>

(* appendEvent, the last call of each handler *)
EventOf(r) ==
  [what |-> CASE op[r] = "create" -> "created"
              [] op[r] = "update" -> "updated"
              [] OTHER -> "deleted",
   snapshot |-> seen[r]]

AppendEvent(r) ==
  /\ at[r] = "append"
  /\ trail' = [trail EXCEPT ![target[r]] = Append(@, EventOf(r))]
  /\ Leave(r)
  /\ UNCHANGED <<archived, storeVars>>

-----------------------------------------------------------------------------
(* A call rejects, or the server dies: nothing of the handler runs any more. *)
Fail(r) ==
  /\ at[r] # "idle"
  /\ cut' = IF target[r] \in Transfers THEN cut \cup {target[r]} ELSE cut
  /\ Clear(r)
  /\ UNCHANGED <<archived, storeVars, trail, raced>>

(* archive and unarchive of an account: one write, at any time. *)
Archive(x) ==
  /\ archived' = archived \cup {x}
  /\ UNCHANGED <<storeVars, trail, requestVars, pastVars>>

Unarchive(x) ==
  /\ archived' = archived \ {x}
  /\ UNCHANGED <<storeVars, trail, requestVars, pastVars>>

-----------------------------------------------------------------------------
Arrive(r) ==
  \/ \E d \in Docs, apart \in BOOLEAN : BeginCreate(r, d, apart)
  \/ \E t \in Transfers, p \in Amended : BeginUpdate(r, t, p)
  \/ \E t \in Transfers : BeginDelete(r, t)

Continue(r) ==
  \/ \E apart \in BOOLEAN : FindForUpdate(r, apart)
  \/ FindForDelete(r)
  \/ ValidateFrom(r) \/ ValidateTo(r)
  \/ Insert(r) \/ Update(r) \/ MarkDeleted(r) \/ AppendEvent(r)

Next ==
  \/ \E r \in Requests : Arrive(r) \/ Continue(r) \/ Fail(r)
  \/ \E x \in Accounts : Archive(x) \/ Unarchive(x)

Spec == Init /\ [][Next]_vars

-----------------------------------------------------------------------------
(* Properties *)

(* Every transfer goes from one account to another (007 FR-003), whatever  *)
(* is edited, archived or stopped midway, but for two ways the code has to *)
(* break this.  validateAccounts compares the ids as strings, so one       *)
(* account spelled in two ways passes; and two requests at once may each   *)
(* be validated against an account the other then replaces.                *)
EndsDiffer ==
  \A t \in Transfers \ (raced \cup respelled) : doc[t] # NoDoc => doc[t].from # doc[t].to

(* What a request works on, and what it is about to write. *)
RequestOK(r) ==
  /\ at[r] = "idle" => target[r] = NoTransfer
  /\ at[r] # "idle" => op[r] # "none"
  /\ op[r] = "create" /\ at[r] # "append" => target[r] = NoTransfer /\ want[r] # NoDoc
  /\ op[r] \in {"update", "delete"} => target[r] \in Transfers
  /\ target[r] # NoTransfer => doc[target[r]] # NoDoc
  /\ op[r] \in {"create", "update"} /\ at[r] \in {"from", "to", "write"} =>
       want[r] # NoDoc /\ (want[r].from # want[r].to \/ r \in odd)
  /\ at[r] = "append" => target[r] # NoTransfer /\ seen[r] # NoDoc
  /\ op[r] = "delete" /\ at[r] # "find" => seen[r] # NoDoc
  /\ op[r] = "update" /\ at[r] \in {"from", "to", "write"} =>
       /\ seen[r] # NoDoc
       /\ target[r] \in raced \/ want[r] = Over(dto[r], doc[target[r]])

RequestsApart ==
  \A r, s \in Requests :
    r # s /\ target[r] # NoTransfer /\ target[r] = target[s] => target[r] \in raced

(* Why EndsDiffer holds: while requests on one transfer do not overlap,    *)
(* the accounts compared are the accounts stored, and only a spelling      *)
(* makes the comparison miss that they are one.                            *)
TransferInv ==
  /\ TypeOK
  /\ \A t \in Transfers : t \in raced \/ deleted[t] => doc[t] # NoDoc
  /\ \A r \in Requests : RequestOK(r)
  /\ RequestsApart
  /\ EndsDiffer

(* Deleting is final, whatever was in flight: the money a deleted transfer *)
(* moved never counts again (FR-010).                                      *)
DeletedIsFinal ==
  [][\A t \in Transfers : deleted[t] => deleted'[t] /\ doc'[t] = doc[t]]_vars

(* The audit trail tells everything a transfer has been, also after        *)
(* requests that raced: when nothing works on it and none of its requests  *)
(* stopped midway, every document it ever had is the snapshot of an event, *)
(* and it is deleted exactly when the trail says so.                       *)
TrailTellsAll ==
  \A t \in Transfers : ~ Busy(t) /\ t \notin cut =>
    LET told == {trail[t][i] : i \in DOMAIN trail[t]}
    IN /\ had[t] \subseteq {e.snapshot : e \in told}
       /\ deleted[t] = \E e \in told : e.what = "deleted"

(* A request on t whose event is still to be appended. *)
Reporting(r, t) == at[r] = "append" /\ target[r] = t

Told(t) == {trail[t][i] : i \in DOMAIN trail[t]}

(* The inductive invariant behind it: what the trail does not tell yet,    *)
(* the event of a request that has written is going to.                    *)
TrailInv ==
  \A t \in Transfers \ cut :
    /\ \A d \in had[t] :
         \/ \E e \in Told(t) : e.snapshot = d
         \/ \E r \in Requests : Reporting(r, t) /\ seen[r] = d
    /\ deleted[t] <=>
         \/ \E e \in Told(t) : e.what = "deleted"
         \/ \E r \in Requests : Reporting(r, t) /\ op[r] = "delete"

(* All of it, inductive. *)
TransfersInv == TransferInv /\ TrailInv
=============================================================================
