---------------------------- MODULE FamiliesProofs ----------------------------
(***************************************************************************)
(* FamiliesInv is inductive, for any accounts, families and codes and any  *)
(* finite set of requests.  The argument: a membership is deleted by its   *)
(* account alone, from what a guard read earlier.  Between that read and   *)
(* the delete, the only step that could take the membership away, and so   *)
(* make room for another one, is another departure of the same account; as *)
(* long as departures of an account do not overlap, the membership deleted *)
(* is the plain member's membership that was read, never an owner's.  The  *)
(* same fact lets the log be told from the requests still to write in it.  *)
(*                                                                         *)
(* The same invariant maps every step to a step of Households or to none.  *)
(***************************************************************************)
EXTENDS Families, FiniteSetTheorems, TLAPS

LEMMA FamilyInit == Init => FamilyInv
  BY FamiliesAssumption
  DEF Init, FamilyInv, TypeOK, MembershipsOK, RequestOK, RequestsApart, FamilyKeepsOwner,
      Recorded, Stage, Creating, Removing

LEMMA FamilyStep == FamilyInv /\ [Next]_vars => FamilyInv'
<1> SUFFICES ASSUME FamilyInv, [Next]_vars PROVE FamilyInv'
  OBVIOUS
<1> USE FamiliesAssumption
    DEF FamilyInv, familyVars, membershipVars, inviteVars, eventVars, requestVars, pastVars
<1>1. ASSUME NEW r \in Requests, NEW a \in Accounts, CreateFind(r, a) PROVE FamilyInv'
  <2> USE <1>1 DEF CreateFind, Begin, TypeOK
  <2>1. TypeOK'
    BY DEF Stage, RequestOK, MembershipsOK, Creating, Removing
  <2>2. MembershipsOK'
    BY DEF MembershipsOK, RequestOK, Seated, Creating
  <2>3. ASSUME NEW q \in Requests PROVE RequestOK(q)'
    BY DEF RequestOK, RequestsApart, MembershipsOK, Seated, Recorded, Creating, Removing, Stage
  <2>4. RequestsApart'
    BY DEF RequestsApart, RequestOK, MembershipsOK, Departing, Creating, Removing, Stage
  <2>5. FamilyKeepsOwner'
    BY DEF FamilyKeepsOwner, MembershipsOK, RequestOK, Recorded, Seated, Creating
  <2> QED
    BY <2>1, <2>2, <2>3, <2>4, <2>5
<1>2. ASSUME NEW r \in Requests, CreateFamily(r) PROVE FamilyInv'
  <2>0. PICK f \in FamilyIds :
           /\ family[f] = "absent"
           /\ family' = [family EXCEPT ![f] = "exists"]
           /\ ownerId' = [ownerId EXCEPT ![f] = subject[r]]
           /\ scope' = [scope EXCEPT ![r] = f]
    BY <1>2 DEF CreateFamily
  <2>a. /\ at[r] = "createFamily" /\ at' = [at EXCEPT ![r] = "createOwner"]
        /\ UNCHANGED <<memberOf, role, invite, inviteTo, admitted, entries, exits,
                       subject, code, raced, cut>>
    BY <1>2 DEF CreateFamily, Goto
  <2>b. /\ subject[r] \in Accounts /\ ownerId[f] = NoAccount /\ ~ Seated(f)
        /\ \A b \in Accounts : entries[<<b, f>>] = 0
    BY <2>0, <2>a DEF RequestOK, MembershipsOK, Seated
  <2> USE <2>0, <2>a, <2>b DEF TypeOK
  <2>1. TypeOK'
    BY DEF Stage
  <2>2. MembershipsOK'
    BY DEF MembershipsOK, Seated
  <2>3. ASSUME NEW q \in Requests PROVE RequestOK(q)'
    <3>1. CASE q = r
      BY <3>1 DEF RequestOK, Recorded, Creating
    <3>2. CASE q # r
      <4>1. /\ at'[q] = at[q] /\ scope'[q] = scope[q] /\ subject'[q] = subject[q]
            /\ scope[q] \in FamilyIds \ {f} =>
                 /\ Recorded(scope[q])' = Recorded(scope[q])
                 /\ Seated(scope[q])' = Seated(scope[q])
                 /\ ownerId'[scope[q]] = ownerId[scope[q]]
                 /\ family'[scope[q]] = family[scope[q]]
        BY <3>2 DEF Recorded, Seated
      <4>2. at[q] \in Creating \cup {"logCreated", "issue", "createMember", "logJoined"}
              => scope[q] \in FamilyIds \ {f}
        BY DEF RequestOK, Creating
      <4> QED
        BY <4>1, <4>2 DEF RequestOK, Creating
    <3> QED
      BY <3>1, <3>2
  <2>4. RequestsApart'
    BY DEF RequestsApart, RequestOK, Creating, Removing
  <2>5. FamilyKeepsOwner'
    BY DEF FamilyKeepsOwner, Recorded
  <2> QED
    BY <2>1, <2>2, <2>3, <2>4, <2>5
<1>3. ASSUME NEW r \in Requests, CreateOwner(r) PROVE FamilyInv'
  <2> USE <1>3 DEF CreateOwner, Goto, InsertMembership, TypeOK
  <2>1. TypeOK'
    BY DEF Stage, RequestOK, MembershipsOK, Creating, Removing
  <2>2. MembershipsOK'
    BY DEF MembershipsOK, RequestOK, Seated, Creating
  <2>3. ASSUME NEW q \in Requests PROVE RequestOK(q)'
    BY DEF RequestOK, RequestsApart, MembershipsOK, Seated, Recorded, Creating, Removing, Stage
  <2>4. RequestsApart'
    BY DEF RequestsApart, RequestOK, MembershipsOK, Departing, Creating, Removing, Stage
  <2>5. FamilyKeepsOwner'
    BY DEF FamilyKeepsOwner, MembershipsOK, RequestOK, Recorded, Seated, Creating
  <2> QED
    BY <2>1, <2>2, <2>3, <2>4, <2>5
<1>4. ASSUME NEW r \in Requests, DropFamily(r) PROVE FamilyInv'
  <2> USE <1>4 DEF DropFamily, Leave, Clear, TypeOK
  <2>1. TypeOK'
    BY DEF Stage, RequestOK, MembershipsOK, Creating, Removing
  <2>2. MembershipsOK'
    BY DEF MembershipsOK, RequestOK, Seated, Creating
  <2>3. ASSUME NEW q \in Requests PROVE RequestOK(q)'
    BY DEF RequestOK, RequestsApart, MembershipsOK, Seated, Recorded, Creating, Removing, Stage
  <2>4. RequestsApart'
    BY DEF RequestsApart, RequestOK, MembershipsOK, Departing, Creating, Removing, Stage
  <2>5. FamilyKeepsOwner'
    BY DEF FamilyKeepsOwner, MembershipsOK, RequestOK, Recorded, Seated, Creating
  <2> QED
    BY <2>1, <2>2, <2>3, <2>4, <2>5
<1>5. ASSUME NEW r \in Requests, LogCreated(r) PROVE FamilyInv'
  <2> USE <1>5 DEF LogCreated, AppendEntry, Leave, Clear, TypeOK
  <2>1. TypeOK'
    BY DEF Stage, RequestOK, MembershipsOK, Creating, Removing
  <2>2. MembershipsOK'
    BY DEF MembershipsOK, RequestOK, Seated, Creating
  <2>3. ASSUME NEW q \in Requests PROVE RequestOK(q)'
    BY DEF RequestOK, RequestsApart, MembershipsOK, Seated, Recorded, Creating, Removing, Stage
  <2>4. RequestsApart'
    BY DEF RequestsApart, RequestOK, MembershipsOK, Departing, Creating, Removing, Stage
  <2>5. FamilyKeepsOwner'
    BY DEF FamilyKeepsOwner, MembershipsOK, RequestOK, Recorded, Seated, Creating
  <2> QED
    BY <2>1, <2>2, <2>3, <2>4, <2>5
<1>6. ASSUME NEW r \in Requests, NEW a \in Accounts, InviteGuard(r, a) PROVE FamilyInv'
  <2> USE <1>6 DEF InviteGuard, Begin, TypeOK
  <2>1. TypeOK'
    BY DEF Stage, RequestOK, MembershipsOK, Creating, Removing
  <2>2. MembershipsOK'
    BY DEF MembershipsOK, RequestOK, Seated, Creating
  <2>3. ASSUME NEW q \in Requests PROVE RequestOK(q)'
    BY DEF RequestOK, RequestsApart, MembershipsOK, Seated, Recorded, Creating, Removing, Stage
  <2>4. RequestsApart'
    BY DEF RequestsApart, RequestOK, MembershipsOK, Departing, Creating, Removing, Stage
  <2>5. FamilyKeepsOwner'
    BY DEF FamilyKeepsOwner, MembershipsOK, RequestOK, Recorded, Seated, Creating
  <2> QED
    BY <2>1, <2>2, <2>3, <2>4, <2>5
<1>7. ASSUME NEW r \in Requests, IssueInvite(r) PROVE FamilyInv'
  <2> USE <1>7 DEF IssueInvite, Leave, Clear, TypeOK
  <2>1. TypeOK'
    BY DEF Stage, RequestOK, MembershipsOK, Creating, Removing
  <2>2. MembershipsOK'
    BY DEF MembershipsOK, RequestOK, Seated, Creating
  <2>3. ASSUME NEW q \in Requests PROVE RequestOK(q)'
    BY DEF RequestOK, RequestsApart, MembershipsOK, Seated, Recorded, Creating, Removing, Stage
  <2>4. RequestsApart'
    BY DEF RequestsApart, RequestOK, MembershipsOK, Departing, Creating, Removing, Stage
  <2>5. FamilyKeepsOwner'
    BY DEF FamilyKeepsOwner, MembershipsOK, RequestOK, Recorded, Seated, Creating
  <2> QED
    BY <2>1, <2>2, <2>3, <2>4, <2>5
<1>8. ASSUME NEW r \in Requests, NEW a \in Accounts, NEW c \in Codes, JoinFind(r, a, c) PROVE FamilyInv'
  <2> USE <1>8 DEF JoinFind, Begin, TypeOK
  <2>1. TypeOK'
    BY DEF Stage, RequestOK, MembershipsOK, Creating, Removing
  <2>2. MembershipsOK'
    BY DEF MembershipsOK, RequestOK, Seated, Creating
  <2>3. ASSUME NEW q \in Requests PROVE RequestOK(q)'
    BY DEF RequestOK, RequestsApart, MembershipsOK, Seated, Recorded, Creating, Removing, Stage
  <2>4. RequestsApart'
    BY DEF RequestsApart, RequestOK, MembershipsOK, Departing, Creating, Removing, Stage
  <2>5. FamilyKeepsOwner'
    BY DEF FamilyKeepsOwner, MembershipsOK, RequestOK, Recorded, Seated, Creating
  <2> QED
    BY <2>1, <2>2, <2>3, <2>4, <2>5
<1>9. ASSUME NEW r \in Requests, Redeem(r) PROVE FamilyInv'
  <2>0. /\ at[r] = "redeem" /\ code[r] \in Codes /\ subject[r] \in Accounts
        /\ inviteTo[code[r]] \in FamilyIds /\ Seated(inviteTo[code[r]])
    BY <1>9 DEF Redeem, RequestOK, MembershipsOK
  <2>1. CASE invite[code[r]] = "open"
    <3> DEFINE f == inviteTo[code[r]]
    <3>a. /\ invite' = [invite EXCEPT ![code[r]] = "consumed"]
          /\ admitted' = [admitted EXCEPT ![code[r]] = @ \cup {subject[r]}]
          /\ scope' = [scope EXCEPT ![r] = f]
          /\ at' = [at EXCEPT ![r] = "createMember"]
          /\ UNCHANGED <<family, ownerId, memberOf, role, inviteTo, entries, exits,
                         subject, code, raced, cut>>
      BY <1>9, <2>1 DEF Redeem, Goto
    <3>b. f \in FamilyIds /\ Seated(f)
      BY <2>0
    <3> HIDE DEF f
    <3> USE <2>0, <2>1, <3>a, <3>b DEF TypeOK
    <3>1. TypeOK'
      BY DEF Stage, RequestOK, MembershipsOK, Creating, Removing
    <3>2. MembershipsOK'
      BY DEF MembershipsOK, RequestOK, Seated, Creating
    <3>3. ASSUME NEW q \in Requests PROVE RequestOK(q)'
      BY DEF RequestOK, RequestsApart, MembershipsOK, Seated, Recorded, Creating, Removing, Stage
    <3>4. RequestsApart'
      BY DEF RequestsApart, RequestOK, MembershipsOK, Departing, Creating, Removing, Stage
    <3>5. FamilyKeepsOwner'
      BY DEF FamilyKeepsOwner, MembershipsOK, RequestOK, Recorded, Seated, Creating
    <3> QED
      BY <3>1, <3>2, <3>3, <3>4, <3>5
  <2>2. CASE ~ (invite[code[r]] = "open")
    <3>a. Clear(r) /\ UNCHANGED <<family, ownerId, memberOf, role, invite, inviteTo, admitted,
                                  entries, exits, raced, cut>>
      BY <1>9, <2>2 DEF Redeem, Leave
    <3> USE <2>0, <3>a DEF Clear, TypeOK
    <3>1. TypeOK'
      BY DEF Stage, RequestOK, MembershipsOK, Creating, Removing
    <3>2. MembershipsOK'
      BY DEF MembershipsOK, RequestOK, Seated, Creating
    <3>3. ASSUME NEW q \in Requests PROVE RequestOK(q)'
      BY DEF RequestOK, RequestsApart, MembershipsOK, Seated, Recorded, Creating, Removing, Stage
    <3>4. RequestsApart'
      BY DEF RequestsApart, RequestOK, MembershipsOK, Departing, Creating, Removing, Stage
    <3>5. FamilyKeepsOwner'
      BY DEF FamilyKeepsOwner, MembershipsOK, RequestOK, Recorded, Seated, Creating
    <3> QED
      BY <3>1, <3>2, <3>3, <3>4, <3>5
  <2> QED
    BY <2>1, <2>2
<1>10. ASSUME NEW r \in Requests, CreateMember(r) PROVE FamilyInv'
  <2>0. /\ at[r] = "createMember" /\ subject[r] \in Accounts
        /\ scope[r] \in FamilyIds /\ Seated(scope[r])
    BY <1>10 DEF CreateMember, RequestOK
  <2>1. CASE memberOf[subject[r]] = NoFamily
    <3>a. /\ memberOf' = [memberOf EXCEPT ![subject[r]] = scope[r]]
          /\ role' = [role EXCEPT ![subject[r]] = "member"]
          /\ at' = [at EXCEPT ![r] = "logJoined"]
          /\ UNCHANGED <<family, ownerId, invite, inviteTo, admitted, entries, exits,
                         subject, scope, code, raced, cut>>
      BY <1>10, <2>1 DEF CreateMember, InsertMembership, Goto
    <3> USE <2>0, <2>1, <3>a DEF TypeOK
    <3>1. TypeOK'
      BY DEF Stage, RequestOK, MembershipsOK, Creating, Removing
    <3>2. MembershipsOK'
      BY DEF MembershipsOK, RequestOK, Seated, Creating
    <3>3. ASSUME NEW q \in Requests PROVE RequestOK(q)'
      BY DEF RequestOK, RequestsApart, MembershipsOK, Seated, Recorded, Creating, Removing, Stage
    <3>4. RequestsApart'
      BY DEF RequestsApart, RequestOK, MembershipsOK, Departing, Creating, Removing, Stage
    <3>5. FamilyKeepsOwner'
      BY DEF FamilyKeepsOwner, MembershipsOK, RequestOK, Recorded, Seated, Creating
    <3> QED
      BY <3>1, <3>2, <3>3, <3>4, <3>5
  <2>2. CASE ~ (memberOf[subject[r]] = NoFamily)
    <3>a. Clear(r) /\ UNCHANGED <<family, ownerId, memberOf, role, invite, inviteTo, admitted,
                                  entries, exits, raced, cut>>
      BY <1>10, <2>2 DEF CreateMember, Leave
    <3> USE <2>0, <3>a DEF Clear, TypeOK
    <3>1. TypeOK'
      BY DEF Stage, RequestOK, MembershipsOK, Creating, Removing
    <3>2. MembershipsOK'
      BY DEF MembershipsOK, RequestOK, Seated, Creating
    <3>3. ASSUME NEW q \in Requests PROVE RequestOK(q)'
      BY DEF RequestOK, RequestsApart, MembershipsOK, Seated, Recorded, Creating, Removing, Stage
    <3>4. RequestsApart'
      BY DEF RequestsApart, RequestOK, MembershipsOK, Departing, Creating, Removing, Stage
    <3>5. FamilyKeepsOwner'
      BY DEF FamilyKeepsOwner, MembershipsOK, RequestOK, Recorded, Seated, Creating
    <3> QED
      BY <3>1, <3>2, <3>3, <3>4, <3>5
  <2> QED
    BY <2>1, <2>2
<1>11. ASSUME NEW r \in Requests, LogJoined(r) PROVE FamilyInv'
  <2> USE <1>11 DEF LogJoined, AppendEntry, Leave, Clear, TypeOK
  <2>1. TypeOK'
    BY DEF Stage, RequestOK, MembershipsOK, Creating, Removing
  <2>2. MembershipsOK'
    BY DEF MembershipsOK, RequestOK, Seated, Creating
  <2>3. ASSUME NEW q \in Requests PROVE RequestOK(q)'
    BY DEF RequestOK, RequestsApart, MembershipsOK, Seated, Recorded, Creating, Removing, Stage
  <2>4. RequestsApart'
    BY DEF RequestsApart, RequestOK, MembershipsOK, Departing, Creating, Removing, Stage
  <2>5. FamilyKeepsOwner'
    BY DEF FamilyKeepsOwner, MembershipsOK, RequestOK, Recorded, Seated, Creating
  <2> QED
    BY <2>1, <2>2, <2>3, <2>4, <2>5
<1>12. ASSUME NEW r \in Requests, NEW a \in Accounts, NEW t \in Accounts, RemoveGuard(r, a, t) PROVE FamilyInv'
  <2> USE <1>12 DEF RemoveGuard, Begin, TypeOK
  <2>1. TypeOK'
    BY DEF Stage, RequestOK, MembershipsOK, Creating, Removing
  <2>2. MembershipsOK'
    BY DEF MembershipsOK, RequestOK, Seated, Creating
  <2>3. ASSUME NEW q \in Requests PROVE RequestOK(q)'
    BY DEF RequestOK, RequestsApart, MembershipsOK, Seated, Recorded, Creating, Removing, Stage
  <2>4. RequestsApart'
    BY DEF RequestsApart, RequestOK, MembershipsOK, Departing, Creating, Removing, Stage
  <2>5. FamilyKeepsOwner'
    BY DEF FamilyKeepsOwner, MembershipsOK, RequestOK, Recorded, Seated, Creating
  <2> QED
    BY <2>1, <2>2, <2>3, <2>4, <2>5
<1>13. ASSUME NEW r \in Requests, FindTarget(r) PROVE FamilyInv'
  <2>0. at[r] = "findTarget" /\ subject[r] \in Accounts /\ scope[r] \in FamilyIds
    BY <1>13 DEF FindTarget, RequestOK
  <2>1. CASE memberOf[subject[r]] = scope[r] /\ role[subject[r]] = "member"
    <3>a. /\ at' = [at EXCEPT ![r] = "deleteRemoved"]
          /\ UNCHANGED <<family, ownerId, memberOf, role, invite, inviteTo, admitted,
                         entries, exits, subject, scope, code, raced, cut>>
      BY <1>13, <2>1 DEF FindTarget, Goto
    <3> USE <2>0, <2>1, <3>a DEF TypeOK
    <3>1. TypeOK'
      BY DEF Stage, RequestOK, MembershipsOK, Creating, Removing
    <3>2. MembershipsOK'
      BY DEF MembershipsOK, RequestOK, Seated, Creating
    <3>3. ASSUME NEW q \in Requests PROVE RequestOK(q)'
      BY DEF RequestOK, RequestsApart, MembershipsOK, Seated, Recorded, Creating, Removing, Stage
    <3>4. RequestsApart'
      BY DEF RequestsApart, RequestOK, MembershipsOK, Departing, Creating, Removing, Stage
    <3>5. FamilyKeepsOwner'
      BY DEF FamilyKeepsOwner, MembershipsOK, RequestOK, Recorded, Seated, Creating
    <3> QED
      BY <3>1, <3>2, <3>3, <3>4, <3>5
  <2>2. CASE ~ (memberOf[subject[r]] = scope[r] /\ role[subject[r]] = "member")
    <3>a. Clear(r) /\ UNCHANGED <<family, ownerId, memberOf, role, invite, inviteTo, admitted,
                                  entries, exits, raced, cut>>
      BY <1>13, <2>2 DEF FindTarget, Leave
    <3> USE <2>0, <3>a DEF Clear, TypeOK
    <3>1. TypeOK'
      BY DEF Stage, RequestOK, MembershipsOK, Creating, Removing
    <3>2. MembershipsOK'
      BY DEF MembershipsOK, RequestOK, Seated, Creating
    <3>3. ASSUME NEW q \in Requests PROVE RequestOK(q)'
      BY DEF RequestOK, RequestsApart, MembershipsOK, Seated, Recorded, Creating, Removing, Stage
    <3>4. RequestsApart'
      BY DEF RequestsApart, RequestOK, MembershipsOK, Departing, Creating, Removing, Stage
    <3>5. FamilyKeepsOwner'
      BY DEF FamilyKeepsOwner, MembershipsOK, RequestOK, Recorded, Seated, Creating
    <3> QED
      BY <3>1, <3>2, <3>3, <3>4, <3>5
  <2> QED
    BY <2>1, <2>2
<1>14. ASSUME NEW r \in Requests, DeleteRemoved(r) PROVE FamilyInv'
  <2>a. /\ at[r] = "deleteRemoved" /\ at' = [at EXCEPT ![r] = "logRemoved"]
        /\ memberOf' = [memberOf EXCEPT ![subject[r]] = NoFamily]
        /\ role' = [role EXCEPT ![subject[r]] = "none"]
        /\ UNCHANGED <<family, ownerId, invite, inviteTo, admitted, entries, exits,
                       subject, scope, code, raced, cut>>
    BY <1>14 DEF DeleteRemoved, DeleteMembership, Goto
  <2>b. /\ subject[r] \in Accounts /\ scope[r] \in FamilyIds
        /\ subject[r] \in raced \/ role[subject[r]] = "member"
    BY <2>a DEF RequestOK
  <2>c. \A f \in FamilyIds : Seated(f)' = Seated(f)
    BY <2>a, <2>b DEF Seated, TypeOK
  <2>d. \A f \in FamilyIds : Recorded(f)' = Recorded(f)
    BY <2>a DEF Recorded
  <2>1. TypeOK'
    BY <2>a DEF TypeOK, Stage
  <2>2. MembershipsOK'
    BY <2>a, <2>b, <2>c DEF MembershipsOK, TypeOK
  <2>3. ASSUME NEW q \in Requests PROVE RequestOK(q)'
    <3>1. CASE q = r
      BY <2>a, <2>b, <2>c, <2>d, <3>1 DEF RequestOK, TypeOK, Creating
    <3>2. CASE q # r
      <4>1. at[q] \in {"deleteRemoved", "deleteLeft"} =>
              \/ subject[q] \in raced
              \/ /\ memberOf'[subject[q]] = memberOf[subject[q]]
                 /\ role'[subject[q]] = role[subject[q]]
        BY <2>a, <3>2 DEF RequestsApart, RequestOK, TypeOK, Removing
      <4>2. at'[q] = at[q]
        BY <2>a, <3>2 DEF TypeOK
      <4> QED
        BY <2>a, <2>c, <2>d, <4>1, <4>2 DEF RequestOK, TypeOK, Creating
    <3> QED
      BY <3>1, <3>2
  <2>4. RequestsApart'
    BY <2>a DEF RequestsApart, TypeOK, Creating, Removing
  <2>5. FamilyKeepsOwner'
    <3> SUFFICES ASSUME NEW f \in FamilyIds, Recorded(f), ownerId[f] \notin raced
                 PROVE  /\ family[f] = "exists"
                        /\ memberOf'[ownerId[f]] = f /\ role'[ownerId[f]] = "owner"
      BY <2>a, <2>d DEF FamilyKeepsOwner
    <3>1. /\ family[f] = "exists" /\ ownerId[f] \in Accounts
          /\ memberOf[ownerId[f]] = f /\ role[ownerId[f]] = "owner"
      BY DEF FamilyKeepsOwner, Recorded
    <3>2. ownerId[f] # subject[r]
      BY <2>b, <3>1
    <3> QED
      BY <2>a, <3>1, <3>2 DEF TypeOK
  <2> QED
    BY <2>1, <2>2, <2>3, <2>4, <2>5
<1>15. ASSUME NEW r \in Requests, LogRemoved(r) PROVE FamilyInv'
  <2> USE <1>15 DEF LogRemoved, AppendExit, Leave, Clear, TypeOK
  <2>1. TypeOK'
    BY DEF Stage, RequestOK, MembershipsOK, Creating, Removing
  <2>2. MembershipsOK'
    BY DEF MembershipsOK, RequestOK, Seated, Creating
  <2>3. ASSUME NEW q \in Requests PROVE RequestOK(q)'
    BY DEF RequestOK, RequestsApart, MembershipsOK, Seated, Recorded, Creating, Removing, Stage
  <2>4. RequestsApart'
    BY DEF RequestsApart, RequestOK, MembershipsOK, Departing, Creating, Removing, Stage
  <2>5. FamilyKeepsOwner'
    BY DEF FamilyKeepsOwner, MembershipsOK, RequestOK, Recorded, Seated, Creating
  <2> QED
    BY <2>1, <2>2, <2>3, <2>4, <2>5
<1>16. ASSUME NEW r \in Requests, NEW a \in Accounts, LeaveGuard(r, a) PROVE FamilyInv'
  <2> USE <1>16 DEF LeaveGuard, Begin, TypeOK
  <2>1. TypeOK'
    BY DEF Stage, RequestOK, MembershipsOK, Creating, Removing
  <2>2. MembershipsOK'
    BY DEF MembershipsOK, RequestOK, Seated, Creating
  <2>3. ASSUME NEW q \in Requests PROVE RequestOK(q)'
    BY DEF RequestOK, RequestsApart, MembershipsOK, Seated, Recorded, Creating, Removing, Stage
  <2>4. RequestsApart'
    BY DEF RequestsApart, RequestOK, MembershipsOK, Departing, Creating, Removing, Stage
  <2>5. FamilyKeepsOwner'
    BY DEF FamilyKeepsOwner, MembershipsOK, RequestOK, Recorded, Seated, Creating
  <2> QED
    BY <2>1, <2>2, <2>3, <2>4, <2>5
<1>17. ASSUME NEW r \in Requests, DeleteLeft(r) PROVE FamilyInv'
  <2>a. /\ at[r] = "deleteLeft" /\ at' = [at EXCEPT ![r] = "logLeft"]
        /\ memberOf' = [memberOf EXCEPT ![subject[r]] = NoFamily]
        /\ role' = [role EXCEPT ![subject[r]] = "none"]
        /\ UNCHANGED <<family, ownerId, invite, inviteTo, admitted, entries, exits,
                       subject, scope, code, raced, cut>>
    BY <1>17 DEF DeleteLeft, DeleteMembership, Goto
  <2>b. /\ subject[r] \in Accounts /\ scope[r] \in FamilyIds
        /\ subject[r] \in raced \/ role[subject[r]] = "member"
    BY <2>a DEF RequestOK
  <2>c. \A f \in FamilyIds : Seated(f)' = Seated(f)
    BY <2>a, <2>b DEF Seated, TypeOK
  <2>d. \A f \in FamilyIds : Recorded(f)' = Recorded(f)
    BY <2>a DEF Recorded
  <2>1. TypeOK'
    BY <2>a DEF TypeOK, Stage
  <2>2. MembershipsOK'
    BY <2>a, <2>b, <2>c DEF MembershipsOK, TypeOK
  <2>3. ASSUME NEW q \in Requests PROVE RequestOK(q)'
    <3>1. CASE q = r
      BY <2>a, <2>b, <2>c, <2>d, <3>1 DEF RequestOK, TypeOK, Creating
    <3>2. CASE q # r
      <4>1. at[q] \in {"deleteRemoved", "deleteLeft"} =>
              \/ subject[q] \in raced
              \/ /\ memberOf'[subject[q]] = memberOf[subject[q]]
                 /\ role'[subject[q]] = role[subject[q]]
        BY <2>a, <3>2 DEF RequestsApart, RequestOK, TypeOK, Removing
      <4>2. at'[q] = at[q]
        BY <2>a, <3>2 DEF TypeOK
      <4> QED
        BY <2>a, <2>c, <2>d, <4>1, <4>2 DEF RequestOK, TypeOK, Creating
    <3> QED
      BY <3>1, <3>2
  <2>4. RequestsApart'
    BY <2>a DEF RequestsApart, TypeOK, Creating, Removing
  <2>5. FamilyKeepsOwner'
    <3> SUFFICES ASSUME NEW f \in FamilyIds, Recorded(f), ownerId[f] \notin raced
                 PROVE  /\ family[f] = "exists"
                        /\ memberOf'[ownerId[f]] = f /\ role'[ownerId[f]] = "owner"
      BY <2>a, <2>d DEF FamilyKeepsOwner
    <3>1. /\ family[f] = "exists" /\ ownerId[f] \in Accounts
          /\ memberOf[ownerId[f]] = f /\ role[ownerId[f]] = "owner"
      BY DEF FamilyKeepsOwner, Recorded
    <3>2. ownerId[f] # subject[r]
      BY <2>b, <3>1
    <3> QED
      BY <2>a, <3>1, <3>2 DEF TypeOK
  <2> QED
    BY <2>1, <2>2, <2>3, <2>4, <2>5
<1>18. ASSUME NEW r \in Requests, LogLeft(r) PROVE FamilyInv'
  <2> USE <1>18 DEF LogLeft, AppendExit, Leave, Clear, TypeOK
  <2>1. TypeOK'
    BY DEF Stage, RequestOK, MembershipsOK, Creating, Removing
  <2>2. MembershipsOK'
    BY DEF MembershipsOK, RequestOK, Seated, Creating
  <2>3. ASSUME NEW q \in Requests PROVE RequestOK(q)'
    BY DEF RequestOK, RequestsApart, MembershipsOK, Seated, Recorded, Creating, Removing, Stage
  <2>4. RequestsApart'
    BY DEF RequestsApart, RequestOK, MembershipsOK, Departing, Creating, Removing, Stage
  <2>5. FamilyKeepsOwner'
    BY DEF FamilyKeepsOwner, MembershipsOK, RequestOK, Recorded, Seated, Creating
  <2> QED
    BY <2>1, <2>2, <2>3, <2>4, <2>5
<1>19. ASSUME NEW r \in Requests, Fail(r) PROVE FamilyInv'
  <2> USE <1>19 DEF Fail, Clear, TypeOK
  <2>1. TypeOK'
    BY DEF Stage, RequestOK, MembershipsOK, Creating, Removing
  <2>2. MembershipsOK'
    BY DEF MembershipsOK, RequestOK, Seated, Creating
  <2>3. ASSUME NEW q \in Requests PROVE RequestOK(q)'
    BY DEF RequestOK, RequestsApart, MembershipsOK, Seated, Recorded, Creating, Removing, Stage
  <2>4. RequestsApart'
    BY DEF RequestsApart, RequestOK, MembershipsOK, Departing, Creating, Removing, Stage
  <2>5. FamilyKeepsOwner'
    BY DEF FamilyKeepsOwner, MembershipsOK, RequestOK, Recorded, Seated, Creating
  <2> QED
    BY <2>1, <2>2, <2>3, <2>4, <2>5
<1>20. ASSUME NEW r \in Requests, RejectOwner(r) PROVE FamilyInv'
  <2> USE <1>20 DEF RejectOwner, InsertMembership, TypeOK
  <2>1. TypeOK'
    BY DEF Stage, RequestOK, MembershipsOK, Creating, Removing
  <2>2. MembershipsOK'
    BY DEF MembershipsOK, RequestOK, Seated, Creating
  <2>3. ASSUME NEW q \in Requests PROVE RequestOK(q)'
    BY DEF RequestOK, RequestsApart, MembershipsOK, Seated, Recorded, Creating, Removing, Stage
  <2>4. RequestsApart'
    BY DEF RequestsApart, RequestOK, MembershipsOK, Departing, Creating, Removing, Stage
  <2>5. FamilyKeepsOwner'
    BY DEF FamilyKeepsOwner, MembershipsOK, RequestOK, Recorded, Seated, Creating
  <2> QED
    BY <2>1, <2>2, <2>3, <2>4, <2>5
<1>21. ASSUME NEW c \in Codes, ExpireInvite(c) PROVE FamilyInv'
  <2> USE <1>21 DEF ExpireInvite, TypeOK
  <2>1. TypeOK'
    BY DEF Stage, RequestOK, MembershipsOK, Creating, Removing
  <2>2. MembershipsOK'
    BY DEF MembershipsOK, RequestOK, Seated, Creating
  <2>3. ASSUME NEW q \in Requests PROVE RequestOK(q)'
    BY DEF RequestOK, RequestsApart, MembershipsOK, Seated, Recorded, Creating, Removing, Stage
  <2>4. RequestsApart'
    BY DEF RequestsApart, RequestOK, MembershipsOK, Departing, Creating, Removing, Stage
  <2>5. FamilyKeepsOwner'
    BY DEF FamilyKeepsOwner, MembershipsOK, RequestOK, Recorded, Seated, Creating
  <2> QED
    BY <2>1, <2>2, <2>3, <2>4, <2>5
<1>22. CASE UNCHANGED vars
  BY <1>22 DEF vars, TypeOK, MembershipsOK, RequestOK, RequestsApart, FamilyKeepsOwner,
     Recorded, Seated, Creating, Removing
<1> QED
  BY <1>1, <1>2, <1>3, <1>4, <1>5, <1>6, <1>7, <1>8, <1>9, <1>10, <1>11, <1>12, <1>13, <1>14, <1>15, <1>16, <1>17, <1>18, <1>19, <1>20, <1>21, <1>22
     DEF Next, Arrive, Continue

-----------------------------------------------------------------------------
Admitted(a, f) == \E c \in Codes : a \in admitted[c] /\ inviteTo[c] = f

LEMMA CodeStep == FamilyInv /\ CodeInv /\ [Next]_vars => CodeInv'
<1> SUFFICES ASSUME FamilyInv, CodeInv, [Next]_vars PROVE CodeInv'
  OBVIOUS
<1>0. TypeOK /\ \A r \in Requests : RequestOK(r)
  BY DEF FamilyInv
<1> USE <1>0, FamiliesAssumption DEF CodeInv, TypeOK
<1>a. /\ CodesAdmitOne <=>
           /\ \A c \in Codes : \A a, b \in admitted[c] : a = b
           /\ \A a \in Accounts : role[a] = "member" => Admitted(a, memberOf[a])
      /\ CodesAdmitOne' <=>
           /\ \A c \in Codes : \A a, b \in admitted'[c] : a = b
           /\ \A a \in Accounts : role'[a] = "member" => Admitted(a, memberOf[a])'
  BY DEF CodesAdmitOne, Admitted
<1>b. \A a \in Accounts : role[a] = "member" => memberOf[a] \in FamilyIds
  BY DEF FamilyInv, MembershipsOK
<1>7. ASSUME UNCHANGED <<inviteVars, membershipVars>>,
             \A q \in Requests :
               at'[q] = "createMember" =>
                 /\ at[q] = "createMember"
                 /\ code'[q] = code[q] /\ subject'[q] = subject[q] /\ scope'[q] = scope[q]
      PROVE  CodeInv'
  BY <1>7 DEF CodesAdmitOne, inviteVars, membershipVars
<1>1. ASSUME NEW r \in Requests, IssueInvite(r) PROVE CodeInv'
  <2>0. PICK k \in Codes :
           /\ invite[k] = "absent"
           /\ invite' = [invite EXCEPT ![k] = "open"]
           /\ inviteTo' = [inviteTo EXCEPT ![k] = scope[r]]
    BY <1>1 DEF IssueInvite
  <2>a. UNCHANGED <<admitted, role, memberOf>> /\ Clear(r)
    BY <1>1 DEF IssueInvite, Leave, membershipVars
  <2>1. admitted[k] = {} /\ \A c \in Codes \ {k} : inviteTo'[c] = inviteTo[c]
    BY <2>0
  <2>2. \A a \in Accounts, f \in FamilyIds : Admitted(a, f) => Admitted(a, f)'
    BY <2>1, <2>a DEF Admitted
  <2>3. CodesAdmitOne'
    BY <2>2, <2>a, <1>a, <1>b
  <2>4. \A c \in Codes : invite'[c] \in {"absent", "open"} => admitted'[c] = {}
    BY <2>0, <2>1, <2>a
  <2>5. ASSUME NEW q \in Requests, at'[q] = "createMember"
        PROVE  code'[q] \in Codes /\ subject'[q] \in admitted'[code'[q]]
                 /\ inviteTo'[code'[q]] = scope'[q]
    BY <2>1, <2>5, <2>a DEF Clear
  <2> QED
    BY <2>3, <2>4, <2>5
<1>2. ASSUME NEW r \in Requests, Redeem(r) PROVE CodeInv'
  <2>0. at[r] = "redeem" /\ code[r] \in Codes /\ subject[r] \in Accounts
    BY <1>2 DEF Redeem, RequestOK
  <2>1. CASE invite[code[r]] = "open"
    <3>a. /\ invite' = [invite EXCEPT ![code[r]] = "consumed"]
          /\ admitted' = [admitted EXCEPT ![code[r]] = @ \cup {subject[r]}]
          /\ scope' = [scope EXCEPT ![r] = inviteTo[code[r]]]
          /\ at' = [at EXCEPT ![r] = "createMember"]
          /\ UNCHANGED <<inviteTo, role, memberOf, subject, code>>
      BY <1>2, <2>1 DEF Redeem, Goto, membershipVars
    <3>1. admitted[code[r]] = {} /\ \A c \in Codes : admitted[c] \subseteq admitted'[c]
      BY <2>0, <2>1, <3>a
    <3>2. \A a \in Accounts, f \in FamilyIds : Admitted(a, f) => Admitted(a, f)'
      BY <3>1, <3>a DEF Admitted
    <3>3. CodesAdmitOne'
      BY <2>0, <3>1, <3>2, <3>a, <1>a, <1>b
    <3>4. \A c \in Codes : invite'[c] \in {"absent", "open"} => admitted'[c] = {}
      BY <2>0, <3>a
    <3>5. ASSUME NEW q \in Requests, at'[q] = "createMember"
          PROVE  code'[q] \in Codes /\ subject'[q] \in admitted'[code'[q]]
                   /\ inviteTo'[code'[q]] = scope'[q]
      BY <2>0, <3>1, <3>5, <3>a
    <3> QED
      BY <3>3, <3>4, <3>5
  <2>2. CASE invite[code[r]] # "open"
    BY <1>2, <2>0, <2>2, <1>7 DEF Redeem, Leave, Clear, inviteVars
  <2> QED
    BY <2>1, <2>2
<1>3. ASSUME NEW r \in Requests, CreateMember(r) PROVE CodeInv'
  <2>0. at[r] = "createMember" /\ subject[r] \in Accounts /\ scope[r] \in FamilyIds
    BY <1>3 DEF CreateMember, RequestOK
  <2>1. CASE memberOf[subject[r]] = NoFamily
    <3>a. /\ memberOf' = [memberOf EXCEPT ![subject[r]] = scope[r]]
          /\ at' = [at EXCEPT ![r] = "logJoined"]
          /\ \A a \in Accounts \ {subject[r]} : role'[a] = role[a]
          /\ UNCHANGED <<invite, inviteTo, admitted, scope, subject, code>>
      BY <1>3, <2>1 DEF CreateMember, InsertMembership, Goto, inviteVars
    <3>1. Admitted(subject[r], scope[r])
      BY <2>0 DEF Admitted
    <3>2. \A a \in Accounts, f \in FamilyIds : Admitted(a, f) => Admitted(a, f)'
      BY <3>a DEF Admitted
    <3>3. CodesAdmitOne'
      BY <2>0, <3>1, <3>2, <3>a, <1>a, <1>b
    <3> QED
      BY <3>3, <3>a
  <2>2. CASE memberOf[subject[r]] # NoFamily
    BY <1>3, <2>2, <1>7 DEF CreateMember, Leave, Clear
  <2> QED
    BY <2>1, <2>2
<1>4. ASSUME NEW c \in Codes, ExpireInvite(c) PROVE CodeInv'
  BY <1>4 DEF CodesAdmitOne, ExpireInvite, eventVars, membershipVars, requestVars
<1>5. ASSUME NEW r \in Requests, CreateOwner(r) \/ RejectOwner(r) PROVE CodeInv'
  BY <1>5 DEF CodesAdmitOne, CreateOwner, RejectOwner, InsertMembership, Goto, inviteVars, membershipVars
<1>6. ASSUME NEW r \in Requests, DeleteRemoved(r) \/ DeleteLeft(r) PROVE CodeInv'
  <2>1. /\ memberOf' = [memberOf EXCEPT ![subject[r]] = NoFamily]
        /\ role' = [role EXCEPT ![subject[r]] = "none"]
        /\ \E stage \in {"logRemoved", "logLeft"} : at' = [at EXCEPT ![r] = stage]
        /\ UNCHANGED <<invite, inviteTo, admitted, scope, subject, code>>
    BY <1>6 DEF DeleteRemoved, DeleteLeft, DeleteMembership, Goto, inviteVars
  <2>2. \A a \in Accounts :
          role'[a] = "member" => role[a] = "member" /\ memberOf'[a] = memberOf[a]
    BY <2>1
  <2>3. CodesAdmitOne'
    BY <2>1, <2>2 DEF CodesAdmitOne
  <2>4. \A q \in Requests : at'[q] = "createMember" => at[q] = "createMember"
    BY <2>1
  <2> QED
    BY <2>1, <2>3, <2>4
<1>8. ASSUME NEW r \in Requests, Arrive(r) PROVE CodeInv'
  BY <1>7, <1>8
  DEF Arrive, CreateFind, InviteGuard, JoinFind, RemoveGuard, LeaveGuard, Begin
<1>9. ASSUME NEW r \in Requests,
             \/ CreateFamily(r) \/ DropFamily(r) \/ LogCreated(r) \/ LogJoined(r)
             \/ FindTarget(r) \/ LogRemoved(r) \/ LogLeft(r) \/ Fail(r)
      PROVE  CodeInv'
  BY <1>7, <1>9
  DEF CreateFamily, DropFamily, LogCreated, LogJoined, FindTarget, LogRemoved, LogLeft, Fail,
      AppendEntry, AppendExit, Goto, Leave, Clear
<1>10. CASE UNCHANGED vars
  BY <1>7, <1>10 DEF vars, inviteVars, membershipVars
<1> QED
  BY <1>1, <1>2, <1>3, <1>4, <1>5, <1>6, <1>8, <1>9, <1>10 DEF Next, Continue

-----------------------------------------------------------------------------
(* A code that can still be redeemed has admitted nobody, so no request is *)
(* entering with it: redeeming it puts it in the hands of one request.     *)
LEMMA EntrantsStep ==
  FamilyInv /\ CodeInv /\ EntrantsApart /\ [Next]_vars => EntrantsApart'
<1> SUFFICES ASSUME FamilyInv, CodeInv, EntrantsApart, [Next]_vars PROVE EntrantsApart'
  OBVIOUS
<1>0. TypeOK /\ \A r \in Requests : RequestOK(r)
  BY DEF FamilyInv
<1>1. ASSUME \A q \in Requests : at'[q] = "createMember" =>
               at[q] = "createMember" /\ code'[q] = code[q]
      PROVE  EntrantsApart'
  BY <1>1 DEF EntrantsApart, Entering
<1>2. ASSUME NEW r \in Requests, Redeem(r) PROVE EntrantsApart'
  <2>0. at[r] = "redeem" /\ code[r] \in Codes
    BY <1>0, <1>2 DEF Redeem, RequestOK
  <2>1. CASE invite[code[r]] = "open"
    <3>1. /\ at' = [at EXCEPT ![r] = "createMember"] /\ code' = code
      BY <1>2, <2>1 DEF Redeem, Goto
    <3>2. \A q \in Entering : code[q] # code[r]
      BY <2>0, <2>1 DEF CodeInv, Entering
    <3>3. \A q \in Requests : q \in Entering' <=> q = r \/ q \in Entering
      BY <1>0, <3>1 DEF Entering, TypeOK
    <3>4. ASSUME NEW q \in Entering', NEW s \in Entering', code'[q] = code'[s] PROVE q = s
      <4>1. q \in Requests /\ s \in Requests /\ code[q] = code[s]
        BY <3>1, <3>4 DEF Entering
      <4> QED
        BY <3>2, <3>3, <4>1 DEF EntrantsApart
    <3> QED
      BY <3>4 DEF EntrantsApart
  <2>2. CASE invite[code[r]] # "open"
    BY <1>0, <1>1, <1>2, <2>2 DEF Redeem, Leave, Clear, TypeOK
  <2> QED
    BY <2>1, <2>2
<1>3. ASSUME NEW r \in Requests, Arrive(r) PROVE EntrantsApart'
  BY <1>0, <1>1, <1>3
  DEF Arrive, CreateFind, InviteGuard, JoinFind, RemoveGuard, LeaveGuard, Begin, TypeOK
<1>4. ASSUME NEW r \in Requests,
             \/ CreateFamily(r) \/ CreateOwner(r) \/ RejectOwner(r) \/ DropFamily(r)
             \/ LogCreated(r) \/ IssueInvite(r) \/ CreateMember(r) \/ LogJoined(r)
             \/ FindTarget(r) \/ DeleteRemoved(r) \/ LogRemoved(r) \/ DeleteLeft(r)
             \/ LogLeft(r) \/ Fail(r)
      PROVE  EntrantsApart'
  BY <1>0, <1>1, <1>4
  DEF CreateFamily, CreateOwner, RejectOwner, DropFamily, LogCreated, IssueInvite, CreateMember,
      LogJoined, FindTarget, DeleteRemoved, LogRemoved, DeleteLeft, LogLeft, Fail,
      AppendEntry, AppendExit, Goto, Leave, Clear, TypeOK
<1>5. ASSUME NEW c \in Codes, ExpireInvite(c) PROVE EntrantsApart'
  BY <1>1, <1>5 DEF ExpireInvite, requestVars
<1>6. CASE UNCHANGED vars
  BY <1>1, <1>6 DEF vars
<1> QED
  BY <1>2, <1>3, <1>4, <1>5, <1>6 DEF Next, Continue

-----------------------------------------------------------------------------
(* One more request, or one fewer, with an event still to write.           *)
LEMMA CountAdd ==
  ASSUME NEW S \in SUBSET Requests, NEW T \in SUBSET Requests, NEW r \in Requests,
         r \notin S, T = S \cup {r}
  PROVE  Cardinality(S) \in Nat /\ Cardinality(T) = Cardinality(S) + 1
<1>1. IsFiniteSet(S)
  BY FS_Subset, FamiliesAssumption
<1> QED
  BY <1>1, FS_AddElement, FS_CardinalityType

LEMMA CountType == \A S \in SUBSET Requests : Cardinality(S) \in Nat
  BY FS_Subset, FS_CardinalityType, FamiliesAssumption

LEMMA LogStep == FamilyInv /\ LogInv /\ [Next]_vars => LogInv'
<1> SUFFICES ASSUME FamilyInv, LogInv, [Next]_vars,
                    NEW a \in Accounts \ (raced' \cup cut'), NEW f \in FamilyIds
             PROVE  Balanced(a, f)'
  BY DEF LogInv
<1>0. TypeOK /\ \A r \in Requests : RequestOK(r)
  BY DEF FamilyInv
<1> DEFINE E == Pending(a, f, {"logCreated", "logJoined"})
           X == Pending(a, f, {"logRemoved", "logLeft"})
<1>a. a \notin raced \cup cut => Balanced(a, f)
  BY DEF LogInv
<1>b. /\ E \subseteq Requests /\ X \subseteq Requests
      /\ Cardinality(E) \in Nat /\ Cardinality(X) \in Nat
  BY CountType DEF Pending
<1>c. /\ E' \subseteq Requests /\ X' \subseteq Requests
      /\ Cardinality(E') \in Nat /\ Cardinality(X') \in Nat
  BY CountType DEF Pending
<1>d. /\ entries[<<a, f>>] \in Nat /\ exits[<<a, f>>] \in Nat
      /\ \A r \in Requests :
           /\ r \in E <=> at[r] \in {"logCreated", "logJoined"} /\ subject[r] = a /\ scope[r] = f
           /\ r \in X <=> at[r] \in {"logRemoved", "logLeft"} /\ subject[r] = a /\ scope[r] = f
           /\ r \in E' <=> at'[r] \in {"logCreated", "logJoined"} /\ subject'[r] = a /\ scope'[r] = f
           /\ r \in X' <=> at'[r] \in {"logRemoved", "logLeft"} /\ subject'[r] = a /\ scope'[r] = f
  BY <1>0 DEF TypeOK, Pending
<1>e. /\ Balanced(a, f) <=>
           entries[<<a, f>>] + Cardinality(E)
             = exits[<<a, f>>] + Cardinality(X) + IF memberOf[a] = f THEN 1 ELSE 0
      /\ Balanced(a, f)' <=>
           entries'[<<a, f>>] + Cardinality(E')
             = exits'[<<a, f>>] + Cardinality(X') + IF memberOf'[a] = f THEN 1 ELSE 0
  BY DEF Balanced, Pending
<1> HIDE DEF E, X
(* A step that neither moves the membership nor touches the log. *)
<1>1. ASSUME a \notin raced \cup cut,
             entries'[<<a, f>>] = entries[<<a, f>>], exits'[<<a, f>>] = exits[<<a, f>>],
             (memberOf'[a] = f) <=> (memberOf[a] = f),
             \A q \in Requests : (q \in E' <=> q \in E) /\ (q \in X' <=> q \in X)
      PROVE  Balanced(a, f)'
  <2>1. E' = E /\ X' = X
    BY <1>b, <1>c, <1>1
  <2> QED
    BY <1>a, <1>e, <1>1, <2>1
(* What one request changes of itself. *)
<1>2. ASSUME a \notin raced \cup cut, NEW r \in Requests,
             entries' = entries, exits' = exits, memberOf' = memberOf,
             \A q \in Requests \ {r} :
               at'[q] = at[q] /\ subject'[q] = subject[q] /\ scope'[q] = scope[q],
             {at[r], at'[r]} \cap {"logCreated", "logJoined", "logRemoved", "logLeft"} = {}
      PROVE  Balanced(a, f)'
  <2>1. \A q \in Requests : (q \in E' <=> q \in E) /\ (q \in X' <=> q \in X)
    BY <1>d, <1>2
  <2> QED
    BY <1>1, <1>2, <2>1
<1>3. ASSUME NEW r \in Requests, Arrive(r) PROVE Balanced(a, f)'
  <2>1. PICK stage \in {"createFamily", "issue", "redeem", "findTarget", "deleteLeft"},
             b \in Accounts, g \in FamilyIds \cup {NoFamily}, c \in Codes \cup {NoCode} :
          Begin(r, stage, b, g, c)
    BY <1>0, <1>3 DEF TypeOK, Arrive, CreateFind, InviteGuard, LeaveGuard, JoinFind, RemoveGuard
  <2>2. /\ at[r] = "idle" /\ at'[r] = stage
        /\ raced \subseteq raced' /\ cut' = cut
        /\ entries' = entries /\ exits' = exits /\ memberOf' = memberOf
        /\ \A q \in Requests \ {r} :
             at'[q] = at[q] /\ subject'[q] = subject[q] /\ scope'[q] = scope[q]
    BY <1>0, <2>1 DEF Begin, TypeOK, membershipVars, eventVars
  <2> QED
    BY <1>2, <2>2
<1>4. ASSUME NEW r \in Requests,
             \/ CreateFamily(r) \/ DropFamily(r) \/ IssueInvite(r) \/ Redeem(r) \/ FindTarget(r)
      PROVE  Balanced(a, f)'
  <2>1. /\ at[r] \in {"createFamily", "dropFamily", "issue", "redeem", "findTarget"}
        /\ at'[r] \in {"createOwner", "idle", "createMember", "deleteRemoved"}
        /\ entries' = entries /\ exits' = exits /\ memberOf' = memberOf
        /\ raced' = raced /\ cut' = cut
    BY <1>0, <1>4 DEF TypeOK, CreateFamily, DropFamily, IssueInvite, Redeem, FindTarget, Goto,
       Leave, Clear, membershipVars, eventVars, pastVars
  <2>2. \A q \in Requests \ {r} :
          at'[q] = at[q] /\ subject'[q] = subject[q] /\ scope'[q] = scope[q]
    BY <1>0, <1>4 DEF TypeOK, CreateFamily, DropFamily, IssueInvite, Redeem, FindTarget, Goto,
       Leave, Clear
  <2> QED
    BY <1>2, <2>1, <2>2
(* A membership inserted, its event still to be written. *)
<1>5. ASSUME NEW r \in Requests, CreateOwner(r) \/ CreateMember(r) PROVE Balanced(a, f)'
  <2>0. /\ at[r] \in {"createOwner", "createMember"} /\ subject[r] \in Accounts
        /\ scope[r] \in FamilyIds /\ raced' = raced /\ cut' = cut
        /\ entries' = entries /\ exits' = exits
    BY <1>0, <1>5 DEF CreateOwner, CreateMember, RequestOK, Goto, Leave, pastVars, eventVars
  <2>1. CASE memberOf[subject[r]] = NoFamily
    <3>1. /\ at'[r] \in {"logCreated", "logJoined"}
          /\ subject' = subject /\ scope' = scope
          /\ \A q \in Requests \ {r} : at'[q] = at[q]
          /\ memberOf' = [memberOf EXCEPT ![subject[r]] = scope[r]]
      BY <1>0, <1>5, <2>1 DEF TypeOK, CreateOwner, CreateMember, InsertMembership, Goto
    <3>2. CASE subject[r] = a /\ scope[r] = f
      <4>1. E' = E \cup {r} /\ X' = X /\ r \notin E
        BY <1>b, <1>c, <1>d, <2>0, <3>1, <3>2
      <4>2. memberOf[a] # f /\ memberOf'[a] = f
        BY <1>0, <2>0, <2>1, <3>1, <3>2, FamiliesAssumption DEF TypeOK
      <4>3. Cardinality(E') = Cardinality(E) + 1
        BY <1>b, <1>c, <4>1, CountAdd
      <4> QED
        BY <1>a, <1>b, <1>d, <1>e, <2>0, <4>1, <4>2, <4>3
    <3>3. CASE ~ (subject[r] = a /\ scope[r] = f)
      <4>1. \A q \in Requests : (q \in E' <=> q \in E) /\ (q \in X' <=> q \in X)
        BY <1>d, <2>0, <3>1, <3>3
      <4>2. (memberOf'[a] = f) <=> (memberOf[a] = f)
        BY <1>0, <2>0, <2>1, <3>1, <3>3, FamiliesAssumption DEF TypeOK
      <4> QED
        BY <1>1, <2>0, <4>1, <4>2
    <3> QED
      BY <3>2, <3>3
  <2>2. CASE memberOf[subject[r]] # NoFamily
    <3>1. /\ at'[r] \in {"dropFamily", "idle"} /\ memberOf' = memberOf
          /\ \A q \in Requests \ {r} :
               at'[q] = at[q] /\ subject'[q] = subject[q] /\ scope'[q] = scope[q]
      BY <1>0, <1>5, <2>2
      DEF TypeOK, CreateOwner, CreateMember, Goto, Leave, Clear, membershipVars
    <3> QED
      BY <1>2, <2>0, <3>1
  <2> QED
    BY <2>1, <2>2
(* A membership deleted: while departures are apart, the one read. *)
<1>6. ASSUME NEW r \in Requests, DeleteRemoved(r) \/ DeleteLeft(r) PROVE Balanced(a, f)'
  <2>1. /\ at[r] \in {"deleteRemoved", "deleteLeft"} /\ at'[r] \in {"logRemoved", "logLeft"}
        /\ subject' = subject /\ scope' = scope
        /\ \A q \in Requests \ {r} : at'[q] = at[q]
        /\ memberOf' = [memberOf EXCEPT ![subject[r]] = NoFamily]
        /\ raced' = raced /\ cut' = cut /\ entries' = entries /\ exits' = exits
    BY <1>0, <1>6 DEF TypeOK, DeleteRemoved, DeleteLeft, DeleteMembership, Goto, pastVars, eventVars
  <2>2. /\ subject[r] \in Accounts /\ scope[r] \in FamilyIds
        /\ subject[r] \notin raced => memberOf[subject[r]] = scope[r]
    BY <1>0, <2>1 DEF RequestOK
  <2>3. CASE subject[r] = a /\ scope[r] = f
    <3>1. X' = X \cup {r} /\ E' = E /\ r \notin X
      BY <1>b, <1>c, <1>d, <2>1, <2>3
    <3>2. memberOf[a] = f /\ memberOf'[a] # f
      BY <1>0, <2>1, <2>2, <2>3, FamiliesAssumption DEF TypeOK
    <3>3. Cardinality(X') = Cardinality(X) + 1
      BY <1>b, <1>c, <3>1, CountAdd
    <3> QED
      BY <1>a, <1>b, <1>d, <1>e, <2>1, <3>1, <3>2, <3>3
  <2>4. CASE ~ (subject[r] = a /\ scope[r] = f)
    <3>1. \A q \in Requests : (q \in E' <=> q \in E) /\ (q \in X' <=> q \in X)
      BY <1>d, <2>1, <2>4
    <3>2. (memberOf'[a] = f) <=> (memberOf[a] = f)
      BY <1>0, <2>1, <2>2, <2>4, FamiliesAssumption DEF TypeOK
    <3> QED
      BY <1>1, <2>1, <3>1, <3>2
  <2> QED
    BY <2>3, <2>4
(* The event is written. *)
<1>7. ASSUME NEW r \in Requests, LogCreated(r) \/ LogJoined(r) \/ LogRemoved(r) \/ LogLeft(r)
      PROVE  Balanced(a, f)'
  <2> DEFINE p == <<subject[r], scope[r]>>
  <2>1. /\ at'[r] = "idle" /\ memberOf' = memberOf /\ raced' = raced /\ cut' = cut
        /\ \A q \in Requests \ {r} :
             at'[q] = at[q] /\ subject'[q] = subject[q] /\ scope'[q] = scope[q]
    BY <1>0, <1>7 DEF TypeOK, LogCreated, LogJoined, LogRemoved, LogLeft, AppendEntry, AppendExit,
       Leave, Clear, membershipVars, pastVars
  <2>2. subject[r] \in Accounts /\ scope[r] \in FamilyIds
    BY <1>0, <1>7 DEF RequestOK, LogCreated, LogJoined, LogRemoved, LogLeft
  <2>3. \/ /\ at[r] \in {"logCreated", "logJoined"} /\ exits' = exits
           /\ entries' = [entries EXCEPT ![p] = @ + 1]
        \/ /\ at[r] \in {"logRemoved", "logLeft"} /\ entries' = entries
           /\ exits' = [exits EXCEPT ![p] = @ + 1]
    BY <1>7 DEF LogCreated, LogJoined, LogRemoved, LogLeft, AppendEntry, AppendExit
  <2>4. CASE subject[r] = a /\ scope[r] = f
    <3>1. CASE at[r] \in {"logCreated", "logJoined"}
      <4>1. E = E' \cup {r} /\ X' = X /\ r \notin E'
        BY <1>b, <1>c, <1>d, <2>1, <2>4, <3>1
      <4>2. entries'[<<a, f>>] = entries[<<a, f>>] + 1 /\ exits' = exits
        BY <1>0, <2>2, <2>3, <2>4, <3>1 DEF TypeOK
      <4>3. Cardinality(E) = Cardinality(E') + 1
        BY <1>b, <1>c, <4>1, CountAdd
      <4> QED
        BY <1>a, <1>b, <1>c, <1>d, <1>e, <2>1, <4>1, <4>2, <4>3
    <3>2. CASE at[r] \in {"logRemoved", "logLeft"}
      <4>1. X = X' \cup {r} /\ E' = E /\ r \notin X'
        BY <1>b, <1>c, <1>d, <2>1, <2>4, <3>2
      <4>2. exits'[<<a, f>>] = exits[<<a, f>>] + 1 /\ entries' = entries
        BY <1>0, <2>2, <2>3, <2>4, <3>2 DEF TypeOK
      <4>3. Cardinality(X) = Cardinality(X') + 1
        BY <1>b, <1>c, <4>1, CountAdd
      <4> QED
        BY <1>a, <1>b, <1>c, <1>d, <1>e, <2>1, <4>1, <4>2, <4>3
    <3> QED
      BY <2>3, <3>1, <3>2
  <2>5. CASE ~ (subject[r] = a /\ scope[r] = f)
    <3>1. \A q \in Requests : (q \in E' <=> q \in E) /\ (q \in X' <=> q \in X)
      BY <1>d, <2>1, <2>5
    <3>2. entries'[<<a, f>>] = entries[<<a, f>>] /\ exits'[<<a, f>>] = exits[<<a, f>>]
      BY <1>0, <2>2, <2>3, <2>5 DEF TypeOK
    <3> QED
      BY <1>1, <2>1, <3>1, <3>2
  <2> QED
    BY <2>4, <2>5
(* A request that stops is about another account. *)
<1>8. ASSUME NEW r \in Requests, Fail(r) \/ RejectOwner(r) PROVE Balanced(a, f)'
  <2>1. /\ subject[r] # a /\ a \notin raced \cup cut
        /\ entries' = entries /\ exits' = exits
    BY <1>8 DEF Fail, RejectOwner, eventVars
  <2>2. /\ \A q \in Requests \ {r} :
             at'[q] = at[q] /\ subject'[q] = subject[q] /\ scope'[q] = scope[q]
        /\ subject'[r] # a \/ at'[r] = "idle" \/ at'[r] = "dropFamily"
    BY <1>0, <1>8 DEF Fail, RejectOwner, Clear, TypeOK
  <2>3. memberOf'[a] = memberOf[a]
    BY <1>0, <1>8, <2>1 DEF Fail, RejectOwner, InsertMembership, TypeOK, membershipVars
  <2>4. \A q \in Requests : (q \in E' <=> q \in E) /\ (q \in X' <=> q \in X)
    BY <1>d, <2>1, <2>2
  <2> QED
    BY <1>1, <2>1, <2>3, <2>4
<1>9. ASSUME (\E c \in Codes : ExpireInvite(c)) \/ UNCHANGED vars PROVE Balanced(a, f)'
  <2>1. UNCHANGED <<entries, exits, memberOf, at, subject, scope, raced, cut>>
    BY <1>9 DEF ExpireInvite, vars, eventVars, membershipVars, requestVars, pastVars
  <2>2. \A q \in Requests : (q \in E' <=> q \in E) /\ (q \in X' <=> q \in X)
    BY <1>d, <2>1
  <2> QED
    BY <1>1, <2>1, <2>2
<1> QED
  BY <1>3, <1>4, <1>5, <1>6, <1>7, <1>8, <1>9 DEF Next, Continue

LEMMA OrphanStep == FamilyInv /\ OrphanInv /\ [Next]_vars => OrphanInv'
<1> SUFFICES ASSUME FamilyInv, OrphanInv, [Next]_vars, NEW f \in FamilyIds,
                    family'[f] = "exists"
             PROVE  /\ ownerId'[f] \in Accounts
                    /\ \/ ownerId'[f] \in raced' \cup cut'
                       \/ memberOf'[ownerId'[f]] = f
                       \/ \E r \in Requests : Adopting(r)' /\ scope'[r] = f
  BY DEF OrphanInv
<1> DEFINE Owned ==
      /\ ownerId'[f] \in Accounts
      /\ \/ ownerId'[f] \in raced' \cup cut'
         \/ memberOf'[ownerId'[f]] = f
         \/ \E r \in Requests : Adopting(r)' /\ scope'[r] = f
<1>0. TypeOK /\ \A r \in Requests : RequestOK(r)
  BY DEF FamilyInv
(* The family was there; whoever was about to adopt it still is, or has. *)
<1>1. ASSUME family[f] = "exists", ownerId'[f] = ownerId[f],
             raced \subseteq raced', cut \subseteq cut',
             \/ ownerId[f] \in raced' \cup cut'
             \/ memberOf[ownerId[f]] = f => memberOf'[ownerId[f]] = f,
             \A q \in Requests : Adopting(q) /\ scope[q] = f =>
               \/ Adopting(q)' /\ scope'[q] = f
               \/ ownerId[f] \in raced' \cup cut'
               \/ memberOf'[ownerId[f]] = f
      PROVE  Owned
  BY <1>1 DEF OrphanInv
<1> HIDE DEF Owned
<1>2. ASSUME NEW r \in Requests, CreateFamily(r) PROVE Owned
  <2>0. PICK g \in FamilyIds :
           /\ family[g] = "absent"
           /\ family' = [family EXCEPT ![g] = "exists"]
           /\ ownerId' = [ownerId EXCEPT ![g] = subject[r]]
           /\ scope' = [scope EXCEPT ![r] = g]
    BY <1>2 DEF CreateFamily
  <2>1. /\ at[r] = "createFamily" /\ at' = [at EXCEPT ![r] = "createOwner"]
        /\ UNCHANGED <<memberOf, raced, cut>> /\ subject[r] \in Accounts
    BY <1>0, <1>2 DEF CreateFamily, Goto, pastVars, membershipVars, RequestOK
  <2>2. CASE f = g
    BY <1>0, <2>0, <2>1, <2>2 DEF Owned, Adopting, TypeOK
  <2>3. CASE f # g
    <3>1. family[f] = "exists" /\ ownerId'[f] = ownerId[f]
      BY <1>0, <2>0, <2>3 DEF TypeOK
    <3>2. \A q \in Requests : Adopting(q) => Adopting(q)' /\ scope'[q] = scope[q]
      BY <1>0, <2>0, <2>1 DEF Adopting, TypeOK
    <3> QED
      BY <1>1, <2>1, <3>1, <3>2
  <2> QED
    BY <2>2, <2>3
<1>3. ASSUME NEW r \in Requests, CreateOwner(r) \/ RejectOwner(r) PROVE Owned
  <2>1. /\ at[r] = "createOwner" /\ family' = family /\ ownerId' = ownerId
        /\ raced' = raced /\ cut \subseteq cut' /\ scope' = scope
        /\ \A q \in Requests \ {r} : at'[q] = at[q]
        /\ scope[r] \in FamilyIds /\ subject[r] \in Accounts
        /\ ownerId[scope[r]] = subject[r]
    BY <1>0, <1>3 DEF CreateOwner, RejectOwner, Goto, familyVars, pastVars, RequestOK, Creating, TypeOK
  <2>2. \A b \in Accounts : memberOf[b] # NoFamily => memberOf'[b] = memberOf[b]
    BY <1>0, <1>3, <2>1
    DEF CreateOwner, RejectOwner, InsertMembership, membershipVars, TypeOK
  <2>3. at'[r] = "dropFamily" \/ memberOf'[subject[r]] = scope[r]
    BY <1>0, <1>3, <2>1 DEF CreateOwner, RejectOwner, InsertMembership, Goto, TypeOK
  <2>4. family[f] = "exists" /\ ownerId[f] \in Accounts /\ f # NoFamily
    BY <2>1, FamiliesAssumption DEF OrphanInv
  <2>5. \A q \in Requests : Adopting(q) /\ scope[q] = f =>
          (Adopting(q)' /\ scope'[q] = f) \/ memberOf'[ownerId[f]] = f
    BY <2>1, <2>3 DEF Adopting
  <2> QED
    BY <1>1, <2>1, <2>2, <2>4, <2>5
<1>4. ASSUME NEW r \in Requests, DropFamily(r) PROVE Owned
  <2>1. /\ at[r] = "dropFamily" /\ scope[r] \in FamilyIds /\ f # scope[r]
        /\ family[f] = "exists"
    BY <1>0, <1>4 DEF DropFamily, RequestOK, TypeOK
  <2>2. /\ UNCHANGED <<ownerId, memberOf, raced, cut>>
        /\ \A q \in Requests \ {r} : at'[q] = at[q] /\ scope'[q] = scope[q]
    BY <1>0, <1>4 DEF DropFamily, Leave, Clear, membershipVars, pastVars, TypeOK
  <2>3. \A q \in Requests : Adopting(q) /\ scope[q] = f => Adopting(q)' /\ scope'[q] = f
    BY <2>1, <2>2 DEF Adopting
  <2> QED
    BY <1>1, <2>1, <2>2, <2>3
<1>5. ASSUME NEW r \in Requests, CreateMember(r) PROVE Owned
  <2>1. /\ at[r] = "createMember" /\ UNCHANGED <<family, ownerId, raced, cut>>
        /\ \A q \in Requests \ {r} : at'[q] = at[q] /\ scope'[q] = scope[q]
    BY <1>0, <1>5 DEF CreateMember, Goto, Leave, Clear, familyVars, pastVars, TypeOK
  <2>2. \A b \in Accounts : memberOf[b] # NoFamily => memberOf'[b] = memberOf[b]
    BY <1>0, <1>5 DEF CreateMember, InsertMembership, membershipVars, RequestOK, TypeOK
  <2>3. family[f] = "exists" /\ ownerId[f] \in Accounts /\ f # NoFamily
    BY <2>1, FamiliesAssumption DEF OrphanInv
  <2>4. \A q \in Requests : Adopting(q) => Adopting(q)' /\ scope'[q] = scope[q]
    BY <2>1 DEF Adopting
  <2> QED
    BY <1>1, <2>1, <2>2, <2>3, <2>4
(* While departures are apart, a membership deleted is a plain member's. *)
<1>6. ASSUME NEW r \in Requests, DeleteRemoved(r) \/ DeleteLeft(r) PROVE Owned
  <2>1. /\ at[r] \in {"deleteRemoved", "deleteLeft"} /\ at'[r] \in {"logRemoved", "logLeft"}
        /\ \A q \in Requests \ {r} : at'[q] = at[q]
        /\ memberOf' = [memberOf EXCEPT ![subject[r]] = NoFamily]
        /\ UNCHANGED <<family, ownerId, scope, raced, cut>>
    BY <1>0, <1>6
    DEF TypeOK, DeleteRemoved, DeleteLeft, DeleteMembership, Goto, pastVars, familyVars
  <2>2. /\ subject[r] \in Accounts
        /\ subject[r] \notin raced =>
             role[subject[r]] = "member" /\ memberOf[subject[r]] = scope[r]
    BY <1>0, <2>1 DEF RequestOK
  <2>3. family[f] = "exists" /\ ownerId[f] \in Accounts
    BY <2>1 DEF OrphanInv
  <2>4. ownerId[f] = subject[r] /\ memberOf[subject[r]] = f => subject[r] \in raced
    BY <2>2 DEF FamilyInv, MembershipsOK
  <2>5. \A q \in Requests : Adopting(q) => Adopting(q)' /\ scope'[q] = scope[q]
    BY <2>1 DEF Adopting
  <2>6. \/ ownerId[f] \in raced' \cup cut'
        \/ memberOf[ownerId[f]] = f => memberOf'[ownerId[f]] = f
    BY <1>0, <2>1, <2>3, <2>4 DEF TypeOK
  <2> QED
    BY <1>1, <2>1, <2>3, <2>5, <2>6
(* A request that stops before the family has its owner is about it. *)
<1>7. ASSUME NEW r \in Requests, Fail(r) PROVE Owned
  <2>1. /\ UNCHANGED <<family, ownerId, memberOf, raced>> /\ cut' = cut \cup {subject[r]}
        /\ \A q \in Requests \ {r} : at'[q] = at[q] /\ scope'[q] = scope[q]
    BY <1>0, <1>7 DEF Fail, Clear, familyVars, membershipVars, TypeOK
  <2>2. Adopting(r) => ownerId[scope[r]] = subject[r]
    BY <1>0 DEF Adopting, RequestOK, Creating
  <2>3. \A q \in Requests : Adopting(q) /\ scope[q] = f =>
          (Adopting(q)' /\ scope'[q] = f) \/ ownerId[f] \in cut'
    BY <2>1, <2>2 DEF Adopting
  <2> QED
    BY <1>1, <2>1, <2>3
(* Every other step leaves families, memberships and adoptions alone. *)
<1>8. ASSUME UNCHANGED <<family, ownerId, memberOf>>, raced \subseteq raced', cut' = cut,
             \A q \in Requests : Adopting(q) => Adopting(q)' /\ scope'[q] = scope[q]
      PROVE  Owned
  BY <1>1, <1>8
<1>9. ASSUME NEW r \in Requests, Arrive(r) PROVE Owned
  <2>1. PICK stage \in Stage, b \in Accounts, g \in FamilyIds \cup {NoFamily}, c \in Codes \cup {NoCode} :
          Begin(r, stage, b, g, c)
    BY <1>0, <1>9
    DEF TypeOK, Stage, Arrive, CreateFind, InviteGuard, LeaveGuard, JoinFind, RemoveGuard
  <2>2. /\ at[r] = "idle" /\ raced \subseteq raced' /\ cut' = cut
        /\ UNCHANGED <<family, ownerId, memberOf>>
        /\ \A q \in Requests \ {r} : at'[q] = at[q] /\ scope'[q] = scope[q]
    BY <1>0, <2>1 DEF Begin, TypeOK, membershipVars, familyVars
  <2>3. \A q \in Requests : Adopting(q) => Adopting(q)' /\ scope'[q] = scope[q]
    BY <2>2 DEF Adopting
  <2> QED
    BY <1>8, <2>2, <2>3
<1>10. ASSUME NEW r \in Requests,
              \/ LogCreated(r) \/ IssueInvite(r) \/ Redeem(r) \/ LogJoined(r)
              \/ FindTarget(r) \/ LogRemoved(r) \/ LogLeft(r)
       PROVE  Owned
  <2>1. /\ at[r] \in {"logCreated", "issue", "redeem", "logJoined", "findTarget",
                      "logRemoved", "logLeft"}
        /\ UNCHANGED <<family, ownerId, memberOf, raced, cut>>
    BY <1>10 DEF LogCreated, IssueInvite, Redeem, LogJoined, FindTarget, LogRemoved, LogLeft,
       AppendEntry, AppendExit, Goto, Leave, Clear, familyVars, membershipVars, pastVars
  <2>2. \A q \in Requests \ {r} : at'[q] = at[q] /\ scope'[q] = scope[q]
    BY <1>0, <1>10 DEF TypeOK, LogCreated, IssueInvite, Redeem, LogJoined, FindTarget,
       LogRemoved, LogLeft, AppendEntry, AppendExit, Goto, Leave, Clear
  <2>3. \A q \in Requests : Adopting(q) => Adopting(q)' /\ scope'[q] = scope[q]
    BY <2>1, <2>2 DEF Adopting
  <2> QED
    BY <1>8, <2>1, <2>3
<1>11. ASSUME (\E c \in Codes : ExpireInvite(c)) \/ UNCHANGED vars PROVE Owned
  <2>1. UNCHANGED <<family, ownerId, memberOf, at, scope, raced, cut>>
    BY <1>11 DEF ExpireInvite, vars, familyVars, membershipVars, requestVars, pastVars
  <2> QED
    BY <1>8, <2>1 DEF Adopting
<1> QED
  BY <1>2, <1>3, <1>4, <1>5, <1>6, <1>7, <1>9, <1>10, <1>11 DEF Next, Continue, Owned

-----------------------------------------------------------------------------
(* The invariant FamiliesInv holds in every reachable state: one           *)
(* membership per account, what each request in flight relies on, every    *)
(* family's owner, whom a code has admitted, and what the log still lacks. *)
THEOREM FamilyInvariant == Spec => []FamiliesInv
<1>1. Init => CodeInv
  BY FamiliesAssumption DEF Init, CodeInv, CodesAdmitOne
<1>2. Init => LogInv
  <2> SUFFICES ASSUME Init, NEW a \in Accounts, NEW f \in FamilyIds PROVE Balanced(a, f)
    BY DEF LogInv
  <2>1. /\ Pending(a, f, {"logCreated", "logJoined"}) = {}
        /\ Pending(a, f, {"logRemoved", "logLeft"}) = {}
    BY DEF Init, Pending
  <2>2. entries[<<a, f>>] = 0 /\ exits[<<a, f>>] = 0 /\ memberOf[a] # f
    BY FamiliesAssumption DEF Init
  <2> QED
    BY <2>1, <2>2, FS_EmptySet DEF Balanced
<1>3. Init => OrphanInv
  BY DEF Init, OrphanInv
<1>4. Init => FamiliesInv
  BY <1>1, <1>2, <1>3, FamilyInit DEF FamiliesInv, Init, EntrantsApart, Entering
<1>5. FamiliesInv /\ [Next]_vars => FamiliesInv'
  BY FamilyStep, CodeStep, EntrantsStep, LogStep, OrphanStep DEF FamiliesInv
<1> QED
  BY <1>4, <1>5, PTL DEF Spec

(* A family whose creation was recorded exists and keeps the owner who     *)
(* created it, whatever joins, leaves, removals and failures interleave,   *)
(* unless two departures of that account overlapped (removeMember,         *)
(* leaveFamily, deleteByAccount).                                          *)
THEOREM FamiliesKeepTheirOwner == Spec => []FamilyKeepsOwner
<1>1. FamiliesInv => FamilyKeepsOwner
  BY DEF FamiliesInv, FamilyInv
<1> QED
  BY <1>1, FamilyInvariant, PTL

(* Type correctness of the collections and of the requests' locals.        *)
THEOREM TypeCorrect == Spec => []TypeOK
<1>1. FamiliesInv => TypeOK
  BY DEF FamiliesInv, FamilyInv
<1> QED
  BY <1>1, FamilyInvariant, PTL

(* A code admits one person, to the family it was issued for, however many *)
(* redeem it at once (InvitationService.redeem, joinFamily).               *)
THEOREM CodesAdmitOnePerson == Spec => []CodesAdmitOne
<1>1. FamiliesInv => CodesAdmitOne
  BY DEF FamiliesInv, CodeInv
<1> QED
  BY <1>1, FamilyInvariant, PTL

(* Whatever joins, leaves, removals and failures interleave, once all is   *)
(* answered the append-only log tells every membership: a request writes   *)
(* its event after the membership has changed (createFamily, joinFamily,   *)
(* removeMember, leaveFamily).                                             *)
THEOREM LogTellsEveryMembership == Spec => []LogTellsMembership
<1>1. FamiliesInv => LogTellsMembership
  <2> SUFFICES ASSUME FamilyInv, LogInv, Quiet,
                      NEW a \in Accounts \ (raced \cup cut), NEW f \in FamilyIds
               PROVE  entries[<<a, f>>] = exits[<<a, f>>] + IF memberOf[a] = f THEN 1 ELSE 0
    BY DEF FamiliesInv, LogTellsMembership
  <2>1. /\ Pending(a, f, {"logCreated", "logJoined"}) = {}
        /\ Pending(a, f, {"logRemoved", "logLeft"}) = {}
    BY DEF Quiet, Pending
  <2>2. Balanced(a, f) /\ entries[<<a, f>>] \in Nat /\ exits[<<a, f>>] \in Nat
    BY DEF LogInv, FamilyInv, TypeOK
  <2>3. entries[<<a, f>>] + 0 = exits[<<a, f>>] + 0 + IF memberOf[a] = f THEN 1 ELSE 0
    BY <2>1, <2>2, FS_EmptySet DEF Balanced
  <2>4. CASE memberOf[a] = f
    BY <2>2, <2>3, <2>4
  <2>5. CASE memberOf[a] # f
    BY <2>2, <2>3, <2>5
  <2> QED
    BY <2>4, <2>5
<1> QED
  BY <1>1, FamilyInvariant, PTL

(* The catch of createFamily deletes every family it could not give an     *)
(* owner, whatever else is in flight: once all is answered a family that   *)
(* exists has its owner's membership.                                      *)
THEOREM NoFamilyIsOrphaned == Spec => []NoOrphans
<1>1. FamiliesInv => NoOrphans
  BY DEF FamiliesInv, OrphanInv, NoOrphans, Quiet, Adopting
<1> QED
  BY <1>1, FamilyInvariant, PTL

-----------------------------------------------------------------------------
(* Refinement of Households *)

TicketBar == [c \in Codes |-> Ticket(c)]
GuestBar == [c \in Codes |-> Entrants(c)]

(* One request moves. *)
Alone(r) ==
  \A q \in Requests \ {r} : /\ at'[q] = at[q] /\ subject'[q] = subject[q]
                            /\ scope'[q] = scope[q] /\ code'[q] = code[q]
Pivotal == {"createOwner", "createMember"}

LEMMA AloneMoves ==
  ASSUME TypeOK, NEW r \in Requests, Arrive(r) \/ Continue(r) \/ Fail(r) \/ RejectOwner(r)
  PROVE  Alone(r)
<1>1. CASE Arrive(r)
  BY <1>1 DEF Alone, TypeOK, Arrive, CreateFind, InviteGuard, JoinFind, RemoveGuard, LeaveGuard, Begin
<1>2. CASE CreateFamily(r) \/ CreateOwner(r) \/ RejectOwner(r) \/ DropFamily(r) \/ LogCreated(r)
  BY <1>2 DEF Alone, TypeOK, CreateFamily, CreateOwner, RejectOwner, DropFamily, LogCreated,
              AppendEntry, Goto, Leave, Clear
<1>3. CASE IssueInvite(r) \/ Redeem(r) \/ CreateMember(r) \/ LogJoined(r)
  BY <1>3 DEF Alone, TypeOK, IssueInvite, Redeem, CreateMember, LogJoined,
              AppendEntry, Goto, Leave, Clear
<1>4. CASE FindTarget(r) \/ DeleteRemoved(r) \/ LogRemoved(r) \/ DeleteLeft(r) \/ LogLeft(r)
           \/ Fail(r)
  BY <1>4 DEF Alone, TypeOK, FindTarget, DeleteRemoved, LogRemoved, DeleteLeft, LogLeft, Fail,
              AppendExit, Goto, Leave, Clear
<1> QED
  BY <1>1, <1>2, <1>3, <1>4 DEF Continue

(* What becomes of the foundings and of the guests. *)
LEMMA FoundingsStay ==
  ASSUME NEW r \in Requests, Alone(r), at[r] # "createOwner", at'[r] # "createOwner"
  PROVE  Founding' = Founding
  BY DEF Alone, Founding

LEMMA FoundingBegins ==
  ASSUME NEW r \in Requests, Alone(r), at[r] # "createOwner", at'[r] = "createOwner"
  PROVE  Founding' = Founding \cup {scope'[r]}
  BY DEF Alone, Founding

LEMMA FoundingEnds ==
  ASSUME RequestsApart, NEW r \in Requests, Alone(r), at[r] = "createOwner",
         at'[r] # "createOwner"
  PROVE  Founding' = Founding \ {scope[r]} /\ scope[r] \in Founding
<1>1. \A q \in Requests \ {r} : at[q] = "createOwner" => scope[q] # scope[r]
  BY DEF RequestsApart, Creating
<1> QED
  BY <1>1 DEF Alone, Founding

LEMMA GuestsStay ==
  ASSUME NEW r \in Requests, Alone(r), at[r] # "createMember", at'[r] # "createMember"
  PROVE  GuestBar' = GuestBar
<1>1. ASSUME NEW c \in Codes PROVE Entrants(c)' = Entrants(c)
  BY DEF Alone, Entrants, Entering
<1> QED
  BY <1>1 DEF GuestBar

LEMMA GuestComes ==
  ASSUME NEW r \in Requests, Alone(r), at[r] # "createMember", at'[r] = "createMember",
         code'[r] \in Codes, \A q \in Entering : code[q] # code'[r]
  PROVE  GuestBar' = [GuestBar EXCEPT ![code'[r]] = {subject'[r]}]
<1>1. ASSUME NEW c \in Codes
      PROVE  Entrants(c)' = IF c = code'[r] THEN {subject'[r]} ELSE Entrants(c)
  BY DEF Alone, Entrants, Entering
<1> QED
  BY <1>1 DEF GuestBar

LEMMA GuestGoes ==
  ASSUME EntrantsApart, NEW r \in Requests, Alone(r), at[r] = "createMember",
         at'[r] # "createMember", code[r] \in Codes
  PROVE  /\ GuestBar' = [GuestBar EXCEPT ![code[r]] = {}]
         /\ GuestBar[code[r]] = {subject[r]}
<1>1. \A q \in Requests \ {r} : at[q] = "createMember" => code[q] # code[r]
  BY DEF EntrantsApart, Entering
<1>2. ASSUME NEW c \in Codes
      PROVE  Entrants(c)' = IF c = code[r] THEN {} ELSE Entrants(c)
  BY <1>1 DEF Alone, Entrants, Entering
<1>3. Entrants(code[r]) = {subject[r]}
  BY <1>1 DEF Entrants, Entering
<1> QED
  BY <1>2, <1>3 DEF GuestBar

(* Nothing that shows changes. *)
LEMMA Unseen ==
  ASSUME UNCHANGED <<ownerId, memberOf, role, inviteTo, raced>>,
         Founding' = Founding, TicketBar' = TicketBar, GuestBar' = GuestBar
  PROVE  UNCHANGED Abstract!houseVars
  BY DEF Abstract!houseVars, TicketBar, GuestBar

LEMMA UnseenMove ==
  ASSUME UNCHANGED <<ownerId, memberOf, role, invite, inviteTo, raced>>,
         NEW r \in Requests, Alone(r), at[r] \notin Pivotal, at'[r] \notin Pivotal
  PROVE  UNCHANGED Abstract!houseVars
<1>1. Founding' = Founding /\ GuestBar' = GuestBar
  BY FoundingsStay, GuestsStay DEF Pivotal
<1>2. TicketBar' = TicketBar
  BY DEF TicketBar, Ticket
<1> QED
  BY <1>1, <1>2, Unseen

LEMMA ArriveRefines ==
  ASSUME TypeOK, NEW r \in Requests, Arrive(r)
  PROVE  [Abstract!Next]_(Abstract!houseVars)
<1>1. PICK stage \in Stage \ Pivotal, a \in Accounts, f \in FamilyIds \cup {NoFamily},
           c \in Codes \cup {NoCode} : Begin(r, stage, a, f, c)
  BY DEF TypeOK, Stage, Pivotal, Arrive, CreateFind, InviteGuard, LeaveGuard, JoinFind, RemoveGuard
<1>2. /\ at[r] \notin Pivotal /\ at'[r] \notin Pivotal
      /\ UNCHANGED <<ownerId, memberOf, role, invite, inviteTo>>
      /\ raced' = raced \/ raced' = raced \cup {a}
  BY <1>1 DEF Begin, TypeOK, Pivotal, familyVars, membershipVars, inviteVars
<1>3. Alone(r)
  BY AloneMoves
<1>4. CASE raced' = raced
  BY <1>2, <1>3, <1>4, UnseenMove
<1>5. CASE raced' = raced \cup {a}
  <2>1. Founding' = Founding /\ GuestBar' = GuestBar
    BY <1>2, <1>3, FoundingsStay, GuestsStay DEF Pivotal
  <2>2. TicketBar' = TicketBar
    BY <1>2 DEF TicketBar, Ticket
  <2>3. Abstract!Overlap(a)
    BY <1>2, <1>5, <2>1, <2>2
    DEF Abstract!Overlap, Abstract!founderVars, Abstract!seatVars, Abstract!ticketVars,
        TicketBar, GuestBar
  <2> QED
    BY <2>3 DEF Abstract!Next
<1> QED
  BY <1>2, <1>4, <1>5

(* createFamily: the founder sits or the founding comes to nothing. *)
LEMMA FoundingRefines ==
  ASSUME FamilyInv, NEW r \in Requests,
         CreateFamily(r) \/ CreateOwner(r) \/ RejectOwner(r) \/ (Fail(r) /\ at[r] = "createOwner")
  PROVE  Abstract!Next
<1>0. TypeOK /\ MembershipsOK /\ RequestsApart /\ RequestOK(r)
  BY DEF FamilyInv
<1>1. Alone(r)
  BY <1>0, AloneMoves DEF Continue
<1>2. /\ UNCHANGED <<invite, inviteTo, raced>> /\ at[r] # "createMember" /\ at'[r] # "createMember"
  BY <1>0 DEF CreateFamily, CreateOwner, RejectOwner, Fail, Goto, Clear, inviteVars, pastVars, TypeOK
<1>3. GuestBar' = GuestBar /\ TicketBar' = TicketBar
  BY <1>1, <1>2, GuestsStay DEF TicketBar, Ticket
<1>4. ASSUME CreateFamily(r) PROVE Abstract!Next
  <2>1. PICK f \in FamilyIds :
           /\ family[f] = "absent"
           /\ ownerId' = [ownerId EXCEPT ![f] = subject[r]]
           /\ scope' = [scope EXCEPT ![r] = f]
    BY <1>4 DEF CreateFamily
  <2>2. /\ at[r] = "createFamily" /\ at'[r] = "createOwner" /\ scope'[r] = f
        /\ UNCHANGED <<memberOf, role>> /\ subject[r] \in Accounts /\ ownerId[f] = NoAccount
    BY <1>0, <1>4, <2>1 DEF CreateFamily, Goto, TypeOK, membershipVars, RequestOK, MembershipsOK
  <2>3. Founding' = Founding \cup {f}
    BY <1>1, <2>2, FoundingBegins
  <2>4. Abstract!Found(subject[r], f)
    BY <1>2, <1>3, <2>1, <2>2, <2>3
    DEF Abstract!Found, Abstract!seatVars, Abstract!ticketVars, TicketBar, GuestBar
  <2> QED
    BY <2>2, <2>4 DEF Abstract!Next
<1>5. ASSUME CreateOwner(r) \/ RejectOwner(r) \/ (Fail(r) /\ at[r] = "createOwner")
      PROVE  Abstract!Next
  <2>1. /\ at[r] = "createOwner" /\ at'[r] # "createOwner" /\ ownerId' = ownerId
        /\ \/ UNCHANGED <<memberOf, role>>
           \/ memberOf[subject[r]] = NoFamily /\ InsertMembership(subject[r], scope[r], "owner")
    BY <1>0, <1>5 DEF CreateOwner, RejectOwner, Fail, Goto, Clear, TypeOK, familyVars, membershipVars
  <2>2. scope[r] \in FamilyIds /\ ownerId[scope[r]] = subject[r]
    BY <1>0, <2>1 DEF RequestOK, Creating
  <2>3. Founding' = Founding \ {scope[r]} /\ scope[r] \in Founding
    BY <1>0, <1>1, <2>1, FoundingEnds
  <2>4. CASE UNCHANGED <<memberOf, role>>
    <3>1. Abstract!Abandon(scope[r])
      BY <1>2, <1>3, <2>1, <2>3, <2>4
      DEF Abstract!Abandon, Abstract!seatVars, Abstract!ticketVars, TicketBar, GuestBar
    <3> QED
      BY <2>2, <3>1 DEF Abstract!Next
  <2>5. CASE memberOf[subject[r]] = NoFamily /\ InsertMembership(subject[r], scope[r], "owner")
    <3>1. Abstract!Enthrone(scope[r])
      BY <1>2, <1>3, <2>1, <2>2, <2>3, <2>5
      DEF Abstract!Enthrone, Abstract!Sit, InsertMembership, Abstract!ticketVars, TicketBar, GuestBar
    <3> QED
      BY <2>2, <3>1 DEF Abstract!Next
  <2> QED
    BY <2>1, <2>4, <2>5
<1> QED
  BY <1>4, <1>5

(* issueInvite and the fate of a code. *)
LEMMA CodeRefines ==
  ASSUME FamilyInv, CodeInv, EntrantsApart, NEW r \in Requests,
         IssueInvite(r) \/ Redeem(r) \/ CreateMember(r) \/ (Fail(r) /\ at[r] = "createMember")
  PROVE  [Abstract!Next]_(Abstract!houseVars)
<1>0. TypeOK /\ MembershipsOK /\ RequestOK(r)
  BY DEF FamilyInv
<1>1. Alone(r)
  BY <1>0, AloneMoves DEF Continue
<1>2. /\ UNCHANGED <<ownerId, raced>> /\ at[r] # "createOwner" /\ at'[r] # "createOwner"
  BY <1>0 DEF IssueInvite, Redeem, CreateMember, Fail, Goto, Leave, Clear, familyVars, pastVars, TypeOK
<1>3. Founding' = Founding
  BY <1>1, <1>2, FoundingsStay
<1>4. ASSUME IssueInvite(r) PROVE Abstract!Next
  <2>1. PICK c \in Codes : /\ invite[c] = "absent"
                           /\ invite' = [invite EXCEPT ![c] = "open"]
                           /\ inviteTo' = [inviteTo EXCEPT ![c] = scope[r]]
    BY <1>4 DEF IssueInvite
  <2>2. /\ at[r] = "issue" /\ at'[r] = "idle" /\ UNCHANGED <<memberOf, role>>
        /\ scope[r] \in FamilyIds /\ Seated(scope[r])
    BY <1>0, <1>4 DEF IssueInvite, Leave, Clear, TypeOK, membershipVars, RequestOK
  <2>3. GuestBar' = GuestBar
    BY <1>1, <2>2, GuestsStay
  <2>4. TicketBar' = [TicketBar EXCEPT ![c] = "open"] /\ TicketBar[c] = "absent"
    BY <1>0, <2>1 DEF TicketBar, Ticket, TypeOK
  <2>5. Abstract!Kept(scope[r])
    BY <2>2, FamiliesAssumption DEF Abstract!Kept, Seated
  <2>6. Abstract!Offer(c, scope[r])
    BY <1>2, <1>3, <2>1, <2>2, <2>3, <2>4, <2>5
    DEF Abstract!Offer, Abstract!founderVars, Abstract!seatVars, TicketBar, GuestBar
  <2> QED
    BY <2>2, <2>6 DEF Abstract!Next
<1>5. ASSUME Redeem(r) PROVE [Abstract!Next]_(Abstract!houseVars)
  <2>1. at[r] = "redeem" /\ code[r] \in Codes /\ subject[r] \in Accounts
    BY <1>0, <1>5 DEF Redeem, RequestOK
  <2>2. UNCHANGED <<memberOf, role, inviteTo>>
    BY <1>5 DEF Redeem, membershipVars
  <2>3. CASE invite[code[r]] = "open"
    <3>1. /\ invite' = [invite EXCEPT ![code[r]] = "consumed"]
          /\ at'[r] = "createMember" /\ UNCHANGED <<subject, code>>
      BY <1>0, <1>5, <2>3 DEF Redeem, Goto, TypeOK
    <3>2. \A q \in Entering : code[q] # code'[r]
      BY <2>1, <2>3, <3>1 DEF CodeInv, Entering
    <3>3. GuestBar' = [GuestBar EXCEPT ![code[r]] = {subject[r]}]
      BY <1>1, <2>1, <3>1, <3>2, GuestComes
    <3>4. TicketBar' = [TicketBar EXCEPT ![code[r]] = "closed"] /\ TicketBar[code[r]] = "open"
      BY <1>0, <2>1, <2>3, <3>1 DEF TicketBar, Ticket, TypeOK
    <3>5. Abstract!Redeem(subject[r], code[r])
      BY <1>2, <1>3, <2>2, <3>3, <3>4
      DEF Abstract!Redeem, Abstract!founderVars, Abstract!seatVars, TicketBar, GuestBar
    <3> QED
      BY <2>1, <3>5 DEF Abstract!Next
  <2>4. CASE invite[code[r]] # "open"
    <3>1. at'[r] = "idle" /\ invite' = invite
      BY <1>0, <1>5, <2>4 DEF Redeem, Leave, Clear, TypeOK
    <3> QED
      BY <1>1, <1>2, <2>1, <2>2, <3>1, UnseenMove DEF Pivotal
  <2> QED
    BY <2>3, <2>4
<1>6. ASSUME CreateMember(r) \/ (Fail(r) /\ at[r] = "createMember") PROVE Abstract!Next
  <2>1. /\ at[r] = "createMember" /\ at'[r] # "createMember" /\ UNCHANGED <<invite, inviteTo>>
        /\ \/ UNCHANGED <<memberOf, role>>
           \/ memberOf[subject[r]] = NoFamily /\ InsertMembership(subject[r], scope[r], "member")
    BY <1>0, <1>6 DEF CreateMember, Fail, Goto, Leave, Clear, TypeOK, inviteVars, membershipVars
  <2>2. /\ code[r] \in Codes /\ subject[r] \in Accounts /\ scope[r] \in FamilyIds
        /\ inviteTo[code[r]] = scope[r] /\ Seated(scope[r])
    BY <1>0, <2>1 DEF CodeInv, RequestOK
  <2>3. GuestBar' = [GuestBar EXCEPT ![code[r]] = {}] /\ GuestBar[code[r]] = {subject[r]}
    BY <1>1, <2>1, <2>2, GuestGoes
  <2>4. TicketBar' = TicketBar
    BY <2>1 DEF TicketBar, Ticket
  <2>5. CASE UNCHANGED <<memberOf, role>>
    <3>1. Abstract!TurnAway(code[r])
      BY <1>2, <1>3, <2>1, <2>3, <2>4, <2>5
      DEF Abstract!TurnAway, Abstract!founderVars, Abstract!seatVars, TicketBar, GuestBar
    <3> QED
      BY <2>2, <3>1 DEF Abstract!Next
  <2>6. CASE memberOf[subject[r]] = NoFamily /\ InsertMembership(subject[r], scope[r], "member")
    <3>1. Abstract!Kept(inviteTo[code[r]])
      BY <2>2, FamiliesAssumption DEF Abstract!Kept, Seated
    <3>2. Abstract!Enter(subject[r], code[r])
      BY <1>2, <1>3, <2>1, <2>2, <2>3, <2>4, <2>6, <3>1
      DEF Abstract!Enter, Abstract!Sit, InsertMembership, Abstract!founderVars, TicketBar, GuestBar
    <3> QED
      BY <2>2, <3>2 DEF Abstract!Next
  <2> QED
    BY <2>1, <2>5, <2>6
<1> QED
  BY <1>4, <1>5, <1>6

(* removeMember and leaveFamily: an owner's membership is deleted only by  *)
(* a departure that overlapped with another.                               *)
LEMMA DepartureRefines ==
  ASSUME FamilyInv, NEW r \in Requests, DeleteRemoved(r) \/ DeleteLeft(r)
  PROVE  Abstract!Next
<1>0. TypeOK /\ RequestOK(r)
  BY DEF FamilyInv
<1>1. /\ at[r] \in {"deleteRemoved", "deleteLeft"} /\ at'[r] \in {"logRemoved", "logLeft"}
      /\ DeleteMembership(subject[r]) /\ UNCHANGED <<ownerId, invite, inviteTo, raced>>
  BY <1>0 DEF DeleteRemoved, DeleteLeft, Goto, TypeOK, familyVars, inviteVars, pastVars
<1>2. subject[r] \in Accounts /\ (role[subject[r]] = "member" \/ subject[r] \in raced)
  BY <1>0, <1>1 DEF RequestOK
<1>3. Founding' = Founding /\ GuestBar' = GuestBar
  <2>1. Alone(r)
    BY <1>0, AloneMoves DEF Continue
  <2> QED
    BY <1>1, <2>1, FoundingsStay, GuestsStay
<1>4. TicketBar' = TicketBar
  BY <1>1 DEF TicketBar, Ticket
<1>5. Abstract!Depart(subject[r])
  BY <1>1, <1>2, <1>3, <1>4
  DEF Abstract!Depart, DeleteMembership, Abstract!founderVars, Abstract!ticketVars, TicketBar, GuestBar
<1> QED
  BY <1>2, <1>5 DEF Abstract!Next

LEMMA ExpireRefines ==
  ASSUME TypeOK, NEW c \in Codes, ExpireInvite(c)
  PROVE  [Abstract!Next]_(Abstract!houseVars)
<1>1. /\ invite' = [invite EXCEPT ![c] = "expired"] /\ invite[c] \in {"open", "consumed"}
      /\ UNCHANGED <<ownerId, memberOf, role, inviteTo, raced, at, subject, scope, code>>
  BY DEF ExpireInvite, familyVars, membershipVars, requestVars, pastVars
<1>2. Founding' = Founding /\ GuestBar' = GuestBar
  BY <1>1 DEF Founding, GuestBar, Entrants, Entering
<1>3. CASE invite[c] = "consumed"
  <2>1. \A d \in Codes : Ticket(d)' = Ticket(d)
    BY <1>1, <1>3 DEF Ticket, TypeOK
  <2> QED
    BY <1>1, <1>2, <2>1, Unseen DEF TicketBar
<1>4. CASE invite[c] = "open"
  <2>1. TicketBar' = [TicketBar EXCEPT ![c] = "closed"] /\ TicketBar[c] = "open"
    BY <1>1, <1>4 DEF TicketBar, Ticket, TypeOK
  <2>2. Abstract!Lapse(c)
    BY <1>1, <1>2, <2>1
    DEF Abstract!Lapse, Abstract!founderVars, Abstract!seatVars, TicketBar, GuestBar
  <2> QED
    BY <2>2 DEF Abstract!Next
<1> QED
  BY <1>1, <1>3, <1>4

LEMMA StepRefines ==
  FamilyInv /\ CodeInv /\ EntrantsApart /\ [Next]_vars => [Abstract!Next]_(Abstract!houseVars)
<1> SUFFICES ASSUME FamilyInv, CodeInv, EntrantsApart, [Next]_vars
             PROVE  [Abstract!Next]_(Abstract!houseVars)
  OBVIOUS
<1>0. TypeOK
  BY DEF FamilyInv
<1>1. ASSUME NEW r \in Requests, Arrive(r) PROVE [Abstract!Next]_(Abstract!houseVars)
  BY <1>0, <1>1, ArriveRefines
<1>2. ASSUME NEW r \in Requests,
             \/ CreateFamily(r) \/ CreateOwner(r) \/ RejectOwner(r)
             \/ IssueInvite(r) \/ Redeem(r) \/ CreateMember(r)
             \/ DeleteRemoved(r) \/ DeleteLeft(r)
      PROVE  [Abstract!Next]_(Abstract!houseVars)
  BY <1>2, FoundingRefines, CodeRefines, DepartureRefines
<1>3. ASSUME NEW r \in Requests,
             \/ DropFamily(r) \/ LogCreated(r) \/ LogJoined(r) \/ FindTarget(r)
             \/ LogRemoved(r) \/ LogLeft(r)
      PROVE  UNCHANGED Abstract!houseVars
  <2>1. Alone(r)
    BY <1>0, <1>3, AloneMoves DEF Continue
  <2>2. /\ UNCHANGED <<ownerId, memberOf, role, invite, inviteTo, raced>>
        /\ at[r] \notin Pivotal /\ at'[r] \notin Pivotal
    BY <1>0, <1>3 DEF TypeOK, Pivotal, DropFamily, LogCreated, LogJoined, FindTarget, LogRemoved,
       LogLeft, AppendEntry, AppendExit, Goto, Leave, Clear, familyVars, membershipVars,
       inviteVars, pastVars
  <2> QED
    BY <2>1, <2>2, UnseenMove
<1>4. ASSUME NEW r \in Requests, Fail(r) PROVE [Abstract!Next]_(Abstract!houseVars)
  <2>1. CASE at[r] = "createOwner"
    BY <1>4, <2>1, FoundingRefines
  <2>2. CASE at[r] = "createMember"
    BY <1>4, <2>2, CodeRefines
  <2>3. CASE at[r] \notin Pivotal
    <3>1. Alone(r)
      BY <1>0, <1>4, AloneMoves
    <3>2. /\ UNCHANGED <<ownerId, memberOf, role, invite, inviteTo, raced>>
          /\ at'[r] \notin Pivotal
      BY <1>0, <1>4 DEF TypeOK, Pivotal, Fail, Clear, familyVars, membershipVars, inviteVars
    <3> QED
      BY <2>3, <3>1, <3>2, UnseenMove
  <2> QED
    BY <2>1, <2>2, <2>3 DEF Pivotal
<1>5. ASSUME NEW c \in Codes, ExpireInvite(c) PROVE [Abstract!Next]_(Abstract!houseVars)
  BY <1>0, <1>5, ExpireRefines
<1>6. CASE UNCHANGED vars
  <2>1. Founding' = Founding /\ GuestBar' = GuestBar /\ TicketBar' = TicketBar
    BY <1>6 DEF vars, Founding, GuestBar, Entrants, Entering, TicketBar, Ticket
  <2> QED
    BY <1>6, <2>1, Unseen DEF vars
<1> QED
  BY <1>1, <1>2, <1>3, <1>4, <1>5, <1>6 DEF Next, Continue

LEMMA InitRefines == Init => Abstract!Init
<1> SUFFICES ASSUME Init PROVE Abstract!Init
  OBVIOUS
<1>1. Founding = {}
  BY DEF Init, Founding
<1>2. \A c \in Codes : Entrants(c) = {} /\ Ticket(c) = "absent"
  BY DEF Init, Entrants, Entering, Ticket
<1> QED
  BY <1>1, <1>2 DEF Init, Abstract!Init

(* Every behaviour of the family service's requests is a behaviour of      *)
(* Households: memberships come from a founding or the one use of a code,  *)
(* never two at a time, and an owner's is not taken away unless two        *)
(* departures of the account overlapped (FamiliesService,                  *)
(* InvitationService.redeem, the unique index on accountId).               *)
THEOREM FamiliesImplementHouseholds == Spec => ImplementsHouseholds
<1>1. FamiliesInv => FamilyInv /\ CodeInv /\ EntrantsApart
  BY DEF FamiliesInv
<1> QED
  BY <1>1, InitRefines, StepRefines, FamilyInvariant, PTL
     DEF Spec, ImplementsHouseholds, Abstract!Spec
=============================================================================
