------------------------------- MODULE Families -------------------------------
(***************************************************************************)
(* Families, memberships and invite codes (FamiliesService with its        *)
(* guards).  A request is a process and every awaited database call is a   *)
(* step.  The guards read the caller's membership once; the handler works  *)
(* with that reading.  The unique index on a membership's accountId is the *)
(* only thing that serializes requests.                                    *)
(***************************************************************************)
EXTENDS Naturals, FiniteSets

CONSTANTS
  Accounts,   \* verified accounts
  FamilyIds,  \* ids of the families that can be created
  Codes,      \* invite codes that can be generated
  Requests,   \* requests in flight at once
  NoAccount, NoFamily, NoCode

ASSUME FamiliesAssumption ==
  /\ NoAccount \notin Accounts
  /\ NoFamily \notin FamilyIds
  /\ NoCode \notin Codes
  /\ IsFiniteSet(Requests)

VARIABLES
  \* families collection
  family,     \* family[f]: "absent", "exists" or "deleted"
  ownerId,    \* ownerId[f]: the account that created f
  \* memberships collection, unique on accountId
  memberOf,   \* memberOf[a]: the family of a's membership, or NoFamily
  role,       \* role[a]: its role, "none" without a membership
  \* invitations collection
  invite,     \* invite[c]: "absent", "open", "consumed" or "expired"
  inviteTo,   \* inviteTo[c]: its familyId
  \* membershipEvents collection, append-only, as counts
  entries,    \* entries[<<a, f>>]: 'created' and 'joined' events of a in f
  exits,      \* exits[<<a, f>>]: 'removed' and 'left' events of a from f
  \* requests in flight
  at,         \* at[r]: the call r awaits next, or "idle"
  subject,    \* subject[r]: the account whose membership r changes
  scope,      \* scope[r]: the family r acts on
  code,       \* code[r]: the invite code r redeems
  \* history
  admitted,   \* admitted[c]: accounts c was redeemed for
  raced,      \* accounts two departures of which were in flight at once
  cut         \* accounts a request about whom stopped midway

familyVars == <<family, ownerId>>
membershipVars == <<memberOf, role>>
inviteVars == <<invite, inviteTo, admitted>>
eventVars == <<entries, exits>>
requestVars == <<at, subject, scope, code>>
pastVars == <<raced, cut>>
vars == <<family, ownerId, memberOf, role, invite, inviteTo, entries, exits,
          at, subject, scope, code, admitted, raced, cut>>

Stage == {"idle", "createFamily", "createOwner", "dropFamily", "logCreated",
          "issue", "redeem", "createMember", "logJoined",
          "findTarget", "deleteRemoved", "logRemoved", "deleteLeft", "logLeft"}

Creating == {"createOwner", "dropFamily", "logCreated"}
Removing == {"findTarget", "deleteRemoved", "logRemoved", "deleteLeft", "logLeft"}

TypeOK ==
  /\ family \in [FamilyIds -> {"absent", "exists", "deleted"}]
  /\ ownerId \in [FamilyIds -> Accounts \cup {NoAccount}]
  /\ memberOf \in [Accounts -> FamilyIds \cup {NoFamily}]
  /\ role \in [Accounts -> {"none", "owner", "member"}]
  /\ invite \in [Codes -> {"absent", "open", "consumed", "expired"}]
  /\ inviteTo \in [Codes -> FamilyIds \cup {NoFamily}]
  /\ entries \in [Accounts \X FamilyIds -> Nat]
  /\ exits \in [Accounts \X FamilyIds -> Nat]
  /\ at \in [Requests -> Stage]
  /\ subject \in [Requests -> Accounts \cup {NoAccount}]
  /\ scope \in [Requests -> FamilyIds \cup {NoFamily}]
  /\ code \in [Requests -> Codes \cup {NoCode}]
  /\ admitted \in [Codes -> SUBSET Accounts]
  /\ raced \subseteq Accounts
  /\ cut \subseteq Accounts

Init ==
  /\ family = [f \in FamilyIds |-> "absent"]
  /\ ownerId = [f \in FamilyIds |-> NoAccount]
  /\ memberOf = [a \in Accounts |-> NoFamily]
  /\ role = [a \in Accounts |-> "none"]
  /\ invite = [c \in Codes |-> "absent"]
  /\ inviteTo = [c \in Codes |-> NoFamily]
  /\ entries = [p \in Accounts \X FamilyIds |-> 0]
  /\ exits = [p \in Accounts \X FamilyIds |-> 0]
  /\ at = [r \in Requests |-> "idle"]
  /\ subject = [r \in Requests |-> NoAccount]
  /\ scope = [r \in Requests |-> NoFamily]
  /\ code = [r \in Requests |-> NoCode]
  /\ admitted = [c \in Codes |-> {}]
  /\ raced = {}
  /\ cut = {}

-----------------------------------------------------------------------------
Goto(r, stage) ==
  /\ at' = [at EXCEPT ![r] = stage]
  /\ UNCHANGED pastVars

Clear(r) ==
  /\ at' = [at EXCEPT ![r] = "idle"]
  /\ subject' = [subject EXCEPT ![r] = NoAccount]
  /\ scope' = [scope EXCEPT ![r] = NoFamily]
  /\ code' = [code EXCEPT ![r] = NoCode]

Leave(r) == Clear(r) /\ UNCHANGED pastVars

(* A departure of account a is in flight. *)
Departing(a) ==
  \E r \in Requests : subject[r] = a /\ at[r] \in Removing

(* A request of, or about, account a is accepted. *)
Begin(r, stage, a, f, c) ==
  /\ at[r] = "idle"
  /\ at' = [at EXCEPT ![r] = stage]
  /\ subject' = [subject EXCEPT ![r] = a]
  /\ scope' = [scope EXCEPT ![r] = f]
  /\ code' = [code EXCEPT ![r] = c]
  /\ raced' = IF stage \in Removing /\ Departing(a) THEN raced \cup {a} ELSE raced
  /\ UNCHANGED <<familyVars, membershipVars, inviteVars, eventVars, cut>>

(* memberships.create; its unique index refuses a second membership. *)
InsertMembership(a, f, as) ==
  /\ memberOf' = [memberOf EXCEPT ![a] = f]
  /\ role' = [role EXCEPT ![a] = as]

(* memberships.deleteByAccount: whatever membership a has now. *)
DeleteMembership(a) ==
  /\ memberOf' = [memberOf EXCEPT ![a] = NoFamily]
  /\ role' = [role EXCEPT ![a] = "none"]

(* events.append, the last call of its handler. *)
AppendEntry(r) ==
  /\ entries' = [entries EXCEPT ![<<subject[r], scope[r]>>] = @ + 1]
  /\ Leave(r)
  /\ UNCHANGED <<familyVars, membershipVars, inviteVars, exits>>

AppendExit(r) ==
  /\ exits' = [exits EXCEPT ![<<subject[r], scope[r]>>] = @ + 1]
  /\ Leave(r)
  /\ UNCHANGED <<familyVars, membershipVars, inviteVars, entries>>

-----------------------------------------------------------------------------
(* createFamily *)

(* findByAccount; a caller with a membership is answered 409. *)
CreateFind(r, a) ==
  /\ memberOf[a] = NoFamily
  /\ Begin(r, "createFamily", a, NoFamily, NoCode)

CreateFamily(r) ==
  /\ at[r] = "createFamily"
  /\ \E f \in FamilyIds :
       /\ family[f] = "absent"
       /\ family' = [family EXCEPT ![f] = "exists"]
       /\ ownerId' = [ownerId EXCEPT ![f] = subject[r]]
       /\ scope' = [scope EXCEPT ![r] = f]
  /\ Goto(r, "createOwner")
  /\ UNCHANGED <<membershipVars, inviteVars, eventVars, subject, code>>

(* Mutant of CreateOwner: no unique index, the second insert replaces.     *)
CreateOwnerNoIndex(r) ==
  /\ at[r] = "createOwner"
  /\ InsertMembership(subject[r], scope[r], "owner")
  /\ Goto(r, "logCreated")
  /\ UNCHANGED <<familyVars, inviteVars, eventVars, subject, scope, code>>

(* Mutant of CreateOwner: a duplicate key is answered 409 at once.         *)
CreateOwnerKeepsOrphan(r) ==
  /\ at[r] = "createOwner"
  /\ IF memberOf[subject[r]] = NoFamily
       THEN /\ InsertMembership(subject[r], scope[r], "owner")
            /\ Goto(r, "logCreated")
            /\ UNCHANGED <<subject, scope, code>>
       ELSE /\ Leave(r)
            /\ UNCHANGED membershipVars
  /\ UNCHANGED <<familyVars, inviteVars, eventVars>>

(* memberships.create for the owner; a duplicate key goes to the catch. *)
CreateOwner(r) ==
  /\ at[r] = "createOwner"
  /\ IF memberOf[subject[r]] = NoFamily
       THEN /\ InsertMembership(subject[r], scope[r], "owner")
            /\ Goto(r, "logCreated")
       ELSE /\ Goto(r, "dropFamily")
            /\ UNCHANGED membershipVars
  /\ UNCHANGED <<familyVars, inviteVars, eventVars, subject, scope, code>>

(* The catch: delete the family nobody owns. *)
DropFamily(r) ==
  /\ at[r] = "dropFamily"
  /\ family' = [family EXCEPT ![scope[r]] = "deleted"]
  /\ Leave(r)
  /\ UNCHANGED <<ownerId, membershipVars, inviteVars, eventVars>>

LogCreated(r) == at[r] = "logCreated" /\ AppendEntry(r)

-----------------------------------------------------------------------------
(* issueInvite *)

(* FamilyScopeGuard and FamilyRoleGuard: an owner, by the membership read. *)
InviteGuard(r, a) ==
  /\ role[a] = "owner"
  /\ Begin(r, "issue", a, memberOf[a], NoCode)

IssueInvite(r) ==
  /\ at[r] = "issue"
  /\ \E c \in Codes :
       /\ invite[c] = "absent"
       /\ invite' = [invite EXCEPT ![c] = "open"]
       /\ inviteTo' = [inviteTo EXCEPT ![c] = scope[r]]
  /\ Leave(r)
  /\ UNCHANGED <<familyVars, membershipVars, eventVars, admitted>>

-----------------------------------------------------------------------------
(* joinFamily *)

(* findByAccount; a caller with a membership is answered 409. *)
JoinFind(r, a, c) ==
  /\ memberOf[a] = NoFamily
  /\ invite[c] # "absent"
  /\ Begin(r, "redeem", a, NoFamily, c)

(* Mutant of Redeem: the code is accepted without the consumedAt filter.   *)
RedeemAgain(r) ==
  /\ at[r] = "redeem"
  /\ IF invite[code[r]] \in {"open", "consumed"}
       THEN /\ invite' = [invite EXCEPT ![code[r]] = "consumed"]
            /\ admitted' = [admitted EXCEPT ![code[r]] = @ \cup {subject[r]}]
            /\ scope' = [scope EXCEPT ![r] = inviteTo[code[r]]]
            /\ Goto(r, "createMember")
            /\ UNCHANGED <<subject, code>>
       ELSE Leave(r) /\ UNCHANGED <<invite, admitted>>
  /\ UNCHANGED <<familyVars, membershipVars, inviteTo, eventVars>>

(* redeem: find an open code and consume it in one update, else 400. *)
Redeem(r) ==
  /\ at[r] = "redeem"
  /\ IF invite[code[r]] = "open"
       THEN /\ invite' = [invite EXCEPT ![code[r]] = "consumed"]
            /\ admitted' = [admitted EXCEPT ![code[r]] = @ \cup {subject[r]}]
            /\ scope' = [scope EXCEPT ![r] = inviteTo[code[r]]]
            /\ Goto(r, "createMember")
            /\ UNCHANGED <<subject, code>>
       ELSE Leave(r) /\ UNCHANGED <<invite, admitted>>
  /\ UNCHANGED <<familyVars, membershipVars, inviteTo, eventVars>>

(* memberships.create; on a duplicate key 409, the code stays consumed. *)
CreateMember(r) ==
  /\ at[r] = "createMember"
  /\ IF memberOf[subject[r]] = NoFamily
       THEN /\ InsertMembership(subject[r], scope[r], "member")
            /\ Goto(r, "logJoined")
            /\ UNCHANGED <<subject, scope, code>>
       ELSE Leave(r) /\ UNCHANGED membershipVars
  /\ UNCHANGED <<familyVars, inviteVars, eventVars>>

(* Mutant of LogJoined: the event of a join is not written.                *)
LogJoinedNothing(r) ==
  /\ at[r] = "logJoined"
  /\ Leave(r)
  /\ UNCHANGED <<familyVars, membershipVars, inviteVars, eventVars>>

LogJoined(r) == at[r] = "logJoined" /\ AppendEntry(r)

-----------------------------------------------------------------------------
(* removeMember and leaveFamily *)

(* The guards of removeMember: caller a owns its family.  The target is    *)
(* any account the caller names.                                           *)
RemoveGuard(r, a, target) ==
  /\ role[a] = "owner"
  /\ Begin(r, "findTarget", target, memberOf[a], NoCode)

(* Mutant of FindTarget: an owner can be the target.                       *)
FindTargetAnyRole(r) ==
  /\ at[r] = "findTarget"
  /\ IF memberOf[subject[r]] = scope[r]
       THEN Goto(r, "deleteRemoved") /\ UNCHANGED <<subject, scope, code>>
       ELSE Leave(r)
  /\ UNCHANGED <<familyVars, membershipVars, inviteVars, eventVars>>

(* findInFamily: 404 outside the caller's family, 403 for an owner. *)
FindTarget(r) ==
  /\ at[r] = "findTarget"
  /\ IF memberOf[subject[r]] = scope[r] /\ role[subject[r]] = "member"
       THEN Goto(r, "deleteRemoved") /\ UNCHANGED <<subject, scope, code>>
       ELSE Leave(r)
  /\ UNCHANGED <<familyVars, membershipVars, inviteVars, eventVars>>

DeleteRemoved(r) ==
  /\ at[r] = "deleteRemoved"
  /\ DeleteMembership(subject[r])
  /\ Goto(r, "logRemoved")
  /\ UNCHANGED <<familyVars, inviteVars, eventVars, subject, scope, code>>

LogRemoved(r) == at[r] = "logRemoved" /\ AppendExit(r)

(* FamilyScopeGuard's reading decides: an owner is answered 403. *)
LeaveGuard(r, a) ==
  /\ role[a] = "member"
  /\ Begin(r, "deleteLeft", a, memberOf[a], NoCode)

DeleteLeft(r) ==
  /\ at[r] = "deleteLeft"
  /\ DeleteMembership(subject[r])
  /\ Goto(r, "logLeft")
  /\ UNCHANGED <<familyVars, inviteVars, eventVars, subject, scope, code>>

LogLeft(r) == at[r] = "logLeft" /\ AppendExit(r)

-----------------------------------------------------------------------------
(* The environment *)

(* A call rejects, or the server dies: nothing of the handler runs any     *)
(* more, except that createFamily catches a rejected memberships.create.   *)
Fail(r) ==
  /\ at[r] # "idle"
  /\ cut' = cut \cup {subject[r]}
  /\ Clear(r)
  /\ UNCHANGED <<familyVars, membershipVars, inviteVars, eventVars, raced>>

(* memberships.create rejects, having inserted the document or not. *)
RejectOwner(r) ==
  /\ at[r] = "createOwner"
  /\ at' = [at EXCEPT ![r] = "dropFamily"]
  /\ cut' = cut \cup {subject[r]}
  /\ \/ UNCHANGED membershipVars
     \/ memberOf[subject[r]] = NoFamily /\ InsertMembership(subject[r], scope[r], "owner")
  /\ UNCHANGED <<familyVars, inviteVars, eventVars, subject, scope, code, raced>>

(* expiresAt passes; the document is refused and later purged. *)
ExpireInvite(c) ==
  /\ invite[c] \in {"open", "consumed"}
  /\ invite' = [invite EXCEPT ![c] = "expired"]
  /\ UNCHANGED <<familyVars, membershipVars, inviteTo, admitted, eventVars, requestVars, pastVars>>

-----------------------------------------------------------------------------
Continue(r) ==
  \/ CreateFamily(r) \/ CreateOwner(r) \/ DropFamily(r) \/ LogCreated(r)
  \/ IssueInvite(r)
  \/ Redeem(r) \/ CreateMember(r) \/ LogJoined(r)
  \/ FindTarget(r) \/ DeleteRemoved(r) \/ LogRemoved(r)
  \/ DeleteLeft(r) \/ LogLeft(r)

Arrive(r) ==
  \E a \in Accounts :
    \/ CreateFind(r, a)
    \/ InviteGuard(r, a)
    \/ LeaveGuard(r, a)
    \/ \E c \in Codes : JoinFind(r, a, c)
    \/ \E target \in Accounts : RemoveGuard(r, a, target)

Next ==
  \/ \E r \in Requests : Arrive(r) \/ Continue(r) \/ Fail(r) \/ RejectOwner(r)
  \/ \E c \in Codes : ExpireInvite(c)

Spec == Init /\ [][Next]_vars

-----------------------------------------------------------------------------
(* Properties *)

Seated(f) ==
  /\ ownerId[f] \in Accounts
  /\ ownerId[f] \in raced \/ (memberOf[ownerId[f]] = f /\ role[ownerId[f]] = "owner")

Recorded(f) == ownerId[f] \in Accounts /\ entries[<<ownerId[f], f>>] > 0

(* Nobody owns or joins a family without somebody having created it, and   *)
(* who created a family that invites is its owner.                         *)
MembershipsOK ==
  /\ \A a \in Accounts :
       /\ (memberOf[a] = NoFamily) = (role[a] = "none")
       /\ role[a] = "owner" => ownerId[memberOf[a]] = a
       /\ role[a] = "member" =>
            /\ ownerId[memberOf[a]] # a \/ a \in raced
            /\ Seated(memberOf[a])
  /\ \A f \in FamilyIds : family[f] = "absent" =>
       ownerId[f] = NoAccount /\ \A a \in Accounts : entries[<<a, f>>] = 0
  /\ \A c \in Codes : invite[c] # "absent" => inviteTo[c] \in FamilyIds /\ Seated(inviteTo[c])

(* What a request has read is still so where the handler relies on it.     *)
RequestOK(r) ==
  /\ at[r] # "idle" => subject[r] \in Accounts
  /\ at[r] \notin {"idle", "createFamily", "redeem"} => scope[r] \in FamilyIds
  /\ at[r] = "redeem" => code[r] \in Codes /\ invite[code[r]] # "absent"
  /\ at[r] \in Creating =>
       /\ ownerId[scope[r]] = subject[r]
       /\ family[scope[r]] = "exists"
       /\ ~ Recorded(scope[r]) \/ subject[r] \in raced
  /\ at[r] \in {"logCreated", "issue", "createMember", "logJoined"} => Seated(scope[r])
  /\ at[r] = "logJoined" => subject[r] \in raced \/ ownerId[scope[r]] # subject[r]
  /\ at[r] \in {"deleteRemoved", "deleteLeft"} =>
       \/ subject[r] \in raced
       \/ role[subject[r]] = "member" /\ memberOf[subject[r]] = scope[r]

(* One request creates a family; departures of one account are apart.      *)
RequestsApart ==
  \A r, s \in Requests : r # s =>
    /\ at[r] \in Creating /\ at[s] \in Creating => scope[r] # scope[s]
    /\ at[r] \in Removing /\ at[s] \in Removing /\ subject[r] = subject[s] =>
         subject[r] \in raced

(* A recorded family exists, and who created it owns it, unless two        *)
(* departures of that account have overlapped: the Owner's membership      *)
(* cannot be deleted (003 data-model.md:43, FR-011).                       *)
FamilyKeepsOwner ==
  \A f \in FamilyIds : Recorded(f) /\ ownerId[f] \notin raced =>
    /\ family[f] = "exists"
    /\ memberOf[ownerId[f]] = f /\ role[ownerId[f]] = "owner"

(* The same without the exception. *)
OwnerIsNeverDeleted ==
  \A f \in FamilyIds : Recorded(f) => memberOf[ownerId[f]] = f /\ role[ownerId[f]] = "owner"

(* The inductive invariant behind FamilyKeepsOwner.  deleteByAccount names *)
(* only the account; what keeps it from an owner is that, while departures *)
(* do not overlap, the membership that was read is still the one deleted.  *)
FamilyInv ==
  /\ TypeOK
  /\ MembershipsOK
  /\ \A r \in Requests : RequestOK(r)
  /\ RequestsApart
  /\ FamilyKeepsOwner

(* A code admits one person, and only to the family it was issued for: a   *)
(* plain member holds a membership some code was redeemed for.             *)
CodesAdmitOne ==
  /\ \A c \in Codes : \A a, b \in admitted[c] : a = b
  /\ \A a \in Accounts : role[a] = "member" =>
       \E c \in Codes : a \in admitted[c] /\ inviteTo[c] = memberOf[a]

(* What CodesAdmitOne rests on: a code that can still be redeemed has      *)
(* admitted nobody, and a join past the redemption is the one admitted.    *)
CodeInv ==
  /\ \A c \in Codes : invite[c] \in {"absent", "open"} => admitted[c] = {}
  /\ \A r \in Requests : at[r] = "createMember" =>
       /\ code[r] \in Codes
       /\ subject[r] \in admitted[code[r]]
       /\ inviteTo[code[r]] = scope[r]
  /\ CodesAdmitOne

Quiet == \A r \in Requests : at[r] = "idle"

(* Once everything has answered, the append-only log tells who is in which *)
(* family (FR-013): one entry more than exits for a member, as many for    *)
(* everybody else.  An account is excepted when a request about it stopped *)
(* midway, or two departures of it overlapped.                             *)
LogTellsMembership ==
  Quiet =>
    \A a \in Accounts \ (raced \cup cut), f \in FamilyIds :
      entries[<<a, f>>] = exits[<<a, f>>] + IF memberOf[a] = f THEN 1 ELSE 0

(* Requests of account a about family f whose event is still to be written. *)
Pending(a, f, stages) ==
  {r \in Requests : at[r] \in stages /\ subject[r] = a /\ scope[r] = f}

(* The inductive invariant behind it: a membership changes together with   *)
(* the number of events its request has yet to write.                      *)
Balanced(a, f) ==
  entries[<<a, f>>] + Cardinality(Pending(a, f, {"logCreated", "logJoined"})) =
    exits[<<a, f>>] + Cardinality(Pending(a, f, {"logRemoved", "logLeft"}))
      + IF memberOf[a] = f THEN 1 ELSE 0

LogInv == \A a \in Accounts \ (raced \cup cut), f \in FamilyIds : Balanced(a, f)

(* The catch of createFamily cleans up: once everything has answered, no   *)
(* family exists without its owner's membership, with those exceptions.    *)
NoOrphans ==
  Quiet =>
    \A f \in FamilyIds : family[f] = "exists" /\ ownerId[f] \notin raced \cup cut =>
      memberOf[ownerId[f]] = f

(* The inductive invariant behind it: until then, a request is about to    *)
(* give the family its owner or to delete it.                              *)
Adopting(r) == at[r] \in {"createOwner", "dropFamily"}

OrphanInv ==
  \A f \in FamilyIds : family[f] = "exists" =>
    /\ ownerId[f] \in Accounts
    /\ \/ ownerId[f] \in raced \cup cut
       \/ memberOf[ownerId[f]] = f
       \/ \E r \in Requests : Adopting(r) /\ scope[r] = f

(* A code is in the hands of one request: it lets one person in once.      *)
Entering == {r \in Requests : at[r] = "createMember"}
EntrantsApart == \A r, s \in Entering : code[r] = code[s] => r = s

(* All of it, inductive. *)
FamiliesInv == FamilyInv /\ CodeInv /\ EntrantsApart /\ LogInv /\ OrphanInv

(* However requests interleave and wherever they stop, memberships come    *)
(* and go as Households lets them: by founding or by the one use of a      *)
(* code, never a second one, and an owner's is not taken away.             *)
Founding == {scope[r] : r \in {q \in Requests : at[q] = "createOwner"}}
Entrants(c) == {subject[r] : r \in {q \in Entering : code[q] = c}}
Ticket(c) == IF invite[c] \in {"absent", "open"} THEN invite[c] ELSE "closed"
Abstract == INSTANCE Households WITH
  founder <- ownerId, founding <- Founding, seat <- memberOf, rank <- role,
  ticket <- [c \in Codes |-> Ticket(c)], to <- inviteTo,
  guest <- [c \in Codes |-> Entrants(c)], unruly <- raced
ImplementsHouseholds == Abstract!Spec
=============================================================================
