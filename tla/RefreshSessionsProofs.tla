------------------------ MODULE RefreshSessionsProofs ------------------------
(***************************************************************************)
(* Proofs about RefreshSessions, for any accounts, tokens and requests.    *)
(*                                                                         *)
(* The argument: a rotation wins only while the presented token is active, *)
(* and the presented token is known to clients.  So the winner replaces    *)
(* the one usable token of its chain, and nobody wins in a chain that has  *)
(* none left.  What must be added to make that inductive is where the      *)
(* replacement of a pending rotation stands: in the chain and the account  *)
(* of the presented token, unknown to clients, belonging to one request,   *)
(* and revoked only together with the presented token.                     *)
(*                                                                         *)
(* That a reset ends the other sessions follows from where the generation  *)
(* of a session comes from: a replacement inherits that of the token it    *)
(* replaces, so only a sign-in that read before the reset can give an old  *)
(* one to a new document.                                                  *)
(***************************************************************************)
EXTENDS RefreshSessions, TLAPS

-----------------------------------------------------------------------------
LEMMA TypeInit == Init => TypeOK
  BY SessionAssumption DEF Init, TypeOK, Versions, Stage

(* Every step keeps the types.  A stage at which the code uses the looked  *)
(* up session has one (LocalsOK); an inserted document has a chain.        *)
LEMMA TypeStep == TypeOK /\ LocalsOK /\ DocumentsOK /\ [Next]_vars => TypeOK'
<1> SUFFICES ASSUME TypeOK, LocalsOK, DocumentsOK, [Next]_vars PROVE TypeOK'
  OBVIOUS
<1> USE DEF accountVars, sessionVars, requestVars, historyVars
<1>1. ASSUME NEW r \in Requests, NEW a \in Accounts, LoginRead(r, a) PROVE TypeOK'
  BY <1>1 DEF LoginRead, TypeOK, Stage
<1>2. ASSUME NEW r \in Requests, NEW a \in Accounts, ResetPassword(r, a) PROVE TypeOK'
  BY <1>2, SessionAssumption DEF ResetPassword, TypeOK, Stage, Versions
<1>3. ASSUME NEW r \in Requests, NEW t \in Tokens, RefreshFind(r, t) PROVE TypeOK'
  BY <1>3 DEF RefreshFind, TypeOK, Stage
<1>4. ASSUME NEW r \in Requests, NEW a \in Accounts, NEW t \in Tokens, LogoutFind(r, a, t)
      PROVE TypeOK'
  BY <1>4 DEF LogoutFind, TypeOK, Stage
<1>5. ASSUME NEW r \in Requests, LoginIssue(r) PROVE TypeOK'
  BY <1>5, SessionAssumption DEF LoginIssue, InsertSession, Leave, TypeOK, Stage, Versions
<1>6. ASSUME NEW r \in Requests, RefreshAccount(r) PROVE TypeOK'
  BY <1>6, SessionAssumption DEF RefreshAccount, Leave, TypeOK, Stage, Versions
<1>7. ASSUME NEW r \in Requests, RefreshCreate(r) PROVE TypeOK'
  BY <1>7 DEF RefreshCreate, InsertSession, LocalsOK, TypeOK, Stage
<1>8. ASSUME NEW r \in Requests, RefreshClaim(r) PROVE TypeOK'
  BY <1>8, SessionAssumption DEF RefreshClaim, Leave, LocalsOK, TypeOK, Stage, Versions
<1>9. ASSUME NEW r \in Requests, RefreshRevokeChain(r) PROVE TypeOK'
  BY <1>9, SessionAssumption
     DEF RefreshRevokeChain, RevokeActive, Leave, LocalsOK, DocumentsOK, TypeOK, Stage, Versions
<1>10. ASSUME NEW r \in Requests, LogoutRevoke(r) PROVE TypeOK'
  BY <1>10, SessionAssumption DEF LogoutRevoke, RevokeActive, Leave, TypeOK, Stage, Versions
<1>11. ASSUME NEW r \in Requests, ResetRevokeAll(r) PROVE TypeOK'
  BY <1>11, SessionAssumption
     DEF ResetRevokeAll, RevokeActive, OwnedBy, Leave, LocalsOK, DocumentsOK, TypeOK, Stage, Versions
<1>12. ASSUME NEW r \in Requests, Fail(r) PROVE TypeOK'
  BY <1>12, SessionAssumption DEF Fail, Leave, TypeOK, Stage, Versions
<1>13. ASSUME NEW t \in Tokens, Expire(t) PROVE TypeOK'
  BY <1>13 DEF Expire, TypeOK
<1>14. ASSUME NEW t \in Tokens, RemoveExpired(t) PROVE TypeOK'
  BY <1>14 DEF RemoveExpired, TypeOK
<1>15. ASSUME NEW a \in Accounts, DisableAccount(a) PROVE TypeOK'
  BY <1>15 DEF DisableAccount, TypeOK
<1>16. CASE UNCHANGED vars
  BY <1>16 DEF vars, TypeOK
<1> QED
  BY <1>1, <1>2, <1>3, <1>4, <1>5, <1>6, <1>7, <1>8, <1>9, <1>10, <1>11, <1>12,
     <1>13, <1>14, <1>15, <1>16 DEF Next, Arrive, Continue, Environment

-----------------------------------------------------------------------------
LEMMA ChainInit == Init => ChainInv
  BY TypeInit, SessionAssumption
     DEF Init, ChainInv, LocalsOK, DocumentsOK, ReplacementsOK, ReplacementOK,
         EndedChainUnusable, OneUsableTokenPerChain, Usable

LEMMA ChainStep == ChainInv /\ [Next]_vars => ChainInv'
<1> SUFFICES ASSUME ChainInv, [Next]_vars PROVE ChainInv'
  OBVIOUS
<1> USE SessionAssumption
    DEF ChainInv, accountVars, sessionVars, requestVars, historyVars
<1>0. TypeOK'
  BY TypeStep
(* Steps that touch a handler's locals or the environment only. *)
<1>1. ASSUME NEW r \in Requests, NEW a \in Accounts, LoginRead(r, a) PROVE ChainInv'
  BY <1>0, <1>1 DEF LoginRead, TypeOK, LocalsOK, DocumentsOK, ReplacementsOK, ReplacementOK,
         EndedChainUnusable, OneUsableTokenPerChain, Usable
<1>2. ASSUME NEW r \in Requests, NEW a \in Accounts, ResetPassword(r, a) PROVE ChainInv'
  BY <1>0, <1>2 DEF ResetPassword, TypeOK, LocalsOK, DocumentsOK, ReplacementsOK, ReplacementOK,
         EndedChainUnusable, OneUsableTokenPerChain, Usable
<1>3. ASSUME NEW r \in Requests, NEW t \in Tokens, RefreshFind(r, t) PROVE ChainInv'
  BY <1>0, <1>3 DEF RefreshFind, TypeOK, LocalsOK, DocumentsOK, ReplacementsOK, ReplacementOK,
         EndedChainUnusable, OneUsableTokenPerChain, Usable
<1>4. ASSUME NEW r \in Requests, NEW a \in Accounts, NEW t \in Tokens, LogoutFind(r, a, t) PROVE ChainInv'
  <2> USE <1>4 DEF LogoutFind
  <2>1. LocalsOK'
    BY <1>0 DEF TypeOK, LocalsOK
  <2>2. DocumentsOK'
    BY DEF DocumentsOK
  <2>3. ReplacementsOK'
    BY <1>0 DEF TypeOK, ReplacementsOK, ReplacementOK
  <2>4. EndedChainUnusable' /\ OneUsableTokenPerChain'
    BY DEF EndedChainUnusable, OneUsableTokenPerChain, Usable
  <2> QED
    BY <1>0, <2>1, <2>2, <2>3, <2>4
<1>5. ASSUME NEW r \in Requests, RefreshAccount(r) PROVE ChainInv'
  BY <1>0, <1>5 DEF RefreshAccount, Leave, TypeOK, LocalsOK, DocumentsOK, ReplacementsOK, ReplacementOK,
         EndedChainUnusable, OneUsableTokenPerChain, Usable
<1>6. ASSUME NEW r \in Requests, Fail(r) PROVE ChainInv'
  BY <1>0, <1>6 DEF Fail, Leave, TypeOK, LocalsOK, DocumentsOK, ReplacementsOK, ReplacementOK,
         EndedChainUnusable, OneUsableTokenPerChain, Usable
<1>7. ASSUME NEW t \in Tokens, Expire(t) PROVE ChainInv'
  BY <1>0, <1>7 DEF Expire, TypeOK, LocalsOK, DocumentsOK, ReplacementsOK, ReplacementOK,
         EndedChainUnusable, OneUsableTokenPerChain, Usable
<1>8. ASSUME NEW a \in Accounts, DisableAccount(a) PROVE ChainInv'
  BY <1>0, <1>8 DEF DisableAccount, TypeOK, LocalsOK, DocumentsOK, ReplacementsOK, ReplacementOK,
         EndedChainUnusable, OneUsableTokenPerChain, Usable
(* Steps that write session documents. *)
<1>9. ASSUME NEW r \in Requests, LoginIssue(r) PROVE ChainInv'
  <2> USE <1>9 DEF LoginIssue, InsertSession, Leave
  <2>1. LocalsOK'
    BY <1>0 DEF TypeOK, LocalsOK, DocumentsOK, ReplacementsOK, ReplacementOK
  <2>2. DocumentsOK'
    BY <1>0 DEF TypeOK, DocumentsOK, LocalsOK, ReplacementsOK, ReplacementOK
  <2>3. ReplacementsOK'
    BY <1>0 DEF TypeOK, ReplacementsOK, ReplacementOK, DocumentsOK, LocalsOK
  <2>4. EndedChainUnusable'
    BY <1>0 DEF TypeOK, EndedChainUnusable, DocumentsOK, ReplacementsOK, ReplacementOK, LocalsOK
  <2>5. OneUsableTokenPerChain'
    BY <1>0 DEF TypeOK, OneUsableTokenPerChain, Usable, DocumentsOK, ReplacementsOK, ReplacementOK, LocalsOK
  <2> QED
    BY <1>0, <2>1, <2>2, <2>3, <2>4, <2>5
<1>10. ASSUME NEW r \in Requests, RefreshCreate(r) PROVE ChainInv'
  <2> USE <1>10 DEF RefreshCreate, InsertSession
  <2>1. LocalsOK'
    BY <1>0 DEF TypeOK, LocalsOK, DocumentsOK, ReplacementsOK, ReplacementOK
  <2>2. DocumentsOK'
    BY <1>0 DEF TypeOK, DocumentsOK, LocalsOK, ReplacementsOK, ReplacementOK
  <2>3. ReplacementsOK'
    BY <1>0 DEF TypeOK, ReplacementsOK, ReplacementOK, DocumentsOK, LocalsOK
  <2>4. EndedChainUnusable'
    BY <1>0 DEF TypeOK, EndedChainUnusable, DocumentsOK, ReplacementsOK, ReplacementOK, LocalsOK
  <2>5. OneUsableTokenPerChain'
    BY <1>0 DEF TypeOK, OneUsableTokenPerChain, Usable, DocumentsOK, ReplacementsOK, ReplacementOK, LocalsOK
  <2> QED
    BY <1>0, <2>1, <2>2, <2>3, <2>4, <2>5
<1>11. ASSUME NEW r \in Requests, RefreshClaim(r) PROVE ChainInv'
  <2> USE <1>11 DEF RefreshClaim, Leave
  <2>1. LocalsOK'
    BY <1>0 DEF TypeOK, LocalsOK, DocumentsOK, ReplacementsOK, ReplacementOK
  <2>2. DocumentsOK'
    BY <1>0 DEF TypeOK, DocumentsOK, LocalsOK, ReplacementsOK, ReplacementOK
  <2>3. ReplacementsOK'
    BY <1>0 DEF TypeOK, ReplacementsOK, ReplacementOK, DocumentsOK, LocalsOK
  <2>4. EndedChainUnusable'
    BY <1>0 DEF TypeOK, EndedChainUnusable, DocumentsOK, ReplacementsOK, ReplacementOK, LocalsOK
  <2>5. OneUsableTokenPerChain'
    BY <1>0 DEF TypeOK, OneUsableTokenPerChain, Usable, DocumentsOK, ReplacementsOK, ReplacementOK, LocalsOK
  <2> QED
    BY <1>0, <2>1, <2>2, <2>3, <2>4, <2>5
<1>12. ASSUME NEW r \in Requests, RefreshRevokeChain(r) PROVE ChainInv'
  <2> USE <1>12 DEF RefreshRevokeChain, RevokeActive, InChain, Leave
  <2>1. LocalsOK'
    BY <1>0 DEF TypeOK, LocalsOK, DocumentsOK, ReplacementsOK, ReplacementOK
  <2>2. DocumentsOK'
    BY <1>0 DEF TypeOK, DocumentsOK, LocalsOK, ReplacementsOK, ReplacementOK
  <2>3. ReplacementsOK'
    BY <1>0 DEF TypeOK, ReplacementsOK, ReplacementOK, DocumentsOK, LocalsOK
  <2>4. EndedChainUnusable'
    BY <1>0 DEF TypeOK, EndedChainUnusable, DocumentsOK, ReplacementsOK, ReplacementOK, LocalsOK
  <2>5. OneUsableTokenPerChain'
    BY <1>0 DEF TypeOK, OneUsableTokenPerChain, Usable, DocumentsOK, ReplacementsOK, ReplacementOK, LocalsOK
  <2> QED
    BY <1>0, <2>1, <2>2, <2>3, <2>4, <2>5
<1>13. ASSUME NEW r \in Requests, LogoutRevoke(r) PROVE ChainInv'
  <2> USE <1>13 DEF LogoutRevoke, RevokeActive, Leave
  <2>1. LocalsOK'
    BY <1>0 DEF TypeOK, LocalsOK, DocumentsOK, ReplacementsOK, ReplacementOK
  <2>2. DocumentsOK'
    BY <1>0 DEF TypeOK, DocumentsOK, LocalsOK, ReplacementsOK, ReplacementOK
  <2>3. ReplacementsOK'
    BY <1>0 DEF TypeOK, ReplacementsOK, ReplacementOK, DocumentsOK, LocalsOK
  <2>4. EndedChainUnusable'
    BY <1>0 DEF TypeOK, EndedChainUnusable, DocumentsOK, ReplacementsOK, ReplacementOK, LocalsOK
  <2>5. OneUsableTokenPerChain'
    BY <1>0 DEF TypeOK, OneUsableTokenPerChain, Usable, DocumentsOK, ReplacementsOK, ReplacementOK, LocalsOK
  <2> QED
    BY <1>0, <2>1, <2>2, <2>3, <2>4, <2>5
<1>14. ASSUME NEW r \in Requests, ResetRevokeAll(r) PROVE ChainInv'
  <2> USE <1>14 DEF ResetRevokeAll, RevokeActive, OwnedBy, Leave
  <2>1. LocalsOK'
    BY <1>0 DEF TypeOK, LocalsOK, DocumentsOK, ReplacementsOK, ReplacementOK
  <2>2. DocumentsOK'
    BY <1>0 DEF TypeOK, DocumentsOK, LocalsOK, ReplacementsOK, ReplacementOK
  <2>3. ReplacementsOK'
    BY <1>0 DEF TypeOK, ReplacementsOK, ReplacementOK, DocumentsOK, LocalsOK
  <2>4. EndedChainUnusable'
    BY <1>0 DEF TypeOK, EndedChainUnusable, DocumentsOK, ReplacementsOK, ReplacementOK, LocalsOK
  <2>5. OneUsableTokenPerChain'
    BY <1>0 DEF TypeOK, OneUsableTokenPerChain, Usable, DocumentsOK, ReplacementsOK, ReplacementOK, LocalsOK
  <2> QED
    BY <1>0, <2>1, <2>2, <2>3, <2>4, <2>5
<1>15. ASSUME NEW t \in Tokens, RemoveExpired(t) PROVE ChainInv'
  <2> USE <1>15 DEF RemoveExpired
  <2>1. LocalsOK'
    BY <1>0 DEF TypeOK, LocalsOK, DocumentsOK, ReplacementsOK, ReplacementOK
  <2>2. DocumentsOK'
    BY <1>0 DEF TypeOK, DocumentsOK, LocalsOK, ReplacementsOK, ReplacementOK
  <2>3. ReplacementsOK'
    BY <1>0 DEF TypeOK, ReplacementsOK, ReplacementOK, DocumentsOK, LocalsOK
  <2>4. EndedChainUnusable'
    BY <1>0 DEF TypeOK, EndedChainUnusable, DocumentsOK, ReplacementsOK, ReplacementOK, LocalsOK
  <2>5. OneUsableTokenPerChain'
    BY <1>0 DEF TypeOK, OneUsableTokenPerChain, Usable, DocumentsOK, ReplacementsOK, ReplacementOK, LocalsOK
  <2> QED
    BY <1>0, <2>1, <2>2, <2>3, <2>4, <2>5
<1>16. CASE UNCHANGED vars
  BY <1>0, <1>16 DEF vars, LocalsOK, DocumentsOK, ReplacementsOK, ReplacementOK,
     EndedChainUnusable, OneUsableTokenPerChain, Usable
<1> QED
  BY <1>1, <1>2, <1>3, <1>4, <1>5, <1>6, <1>7, <1>8, <1>9, <1>10, <1>11, <1>12,
     <1>13, <1>14, <1>15, <1>16 DEF Next, Arrive, Continue, Environment

-----------------------------------------------------------------------------
(* The invariant ChainInv of RefreshSessions holds in every reachable      *)
(* state: types, documents, pending replacements and usable tokens.        *)
THEOREM ChainInvariant == Spec => []ChainInv
  BY ChainInit, ChainStep, PTL DEF Spec

(* Type correctness of the session store and of the requests' locals.      *)
THEOREM TypeCorrect == Spec => []TypeOK
<1>1. ChainInv => TypeOK
  BY DEF ChainInv
<1> QED
  BY <1>1, ChainInvariant, PTL

(* Reuse detection and password reset are final: whatever rotations were   *)
(* in flight, no token that reached a client works in an ended chain       *)
(* (refresh, confirmPasswordReset in auth.service.ts).                     *)
THEOREM EndedChainsStayUnusable == Spec => []EndedChainUnusable
<1>1. ChainInv => EndedChainUnusable
  BY DEF ChainInv
<1> QED
  BY <1>1, ChainInvariant, PTL

(* Concurrent refreshes of one token never leave two usable tokens in its  *)
(* chain (refresh and revokeByIdIfActive).                                 *)
THEOREM OneUsableToken == Spec => []OneUsableTokenPerChain
<1>1. ChainInv => OneUsableTokenPerChain
  BY DEF ChainInv
<1> QED
  BY <1>1, ChainInvariant, PTL

-----------------------------------------------------------------------------
(* Password resets *)

(* No document is inserted, no token reaches a client and no reset is      *)
(* answered: at most active documents stop being active.                   *)
LEMMA NothingAdded ==
  ASSUME ResetInv, TypeOK', ReplacementsOK',
         UNCHANGED <<owner, chain, known, proof, answered, overtaken>>,
         \A t \in Tokens : status'[t] = "active" => status[t] = "active",
         \A r \in Requests : at'[r] = "claim" =>
           at[r] = "claim" /\ token'[r] = token[r] /\ fresh'[r] = fresh[r]
  PROVE  ProofsOK' /\ ResetEndsOtherSessions'
<1>1. ProofsOK'
  BY DEF ResetInv, ProofsOK
<1>2. ResetEndsOtherSessions'
  BY DEF ResetInv, ResetEndsOtherSessions, ChainInv, TypeOK
<1> QED
  BY <1>1, <1>2

LEMMA ResetInit == Init => ResetInv
  BY ChainInit, SessionAssumption DEF Init, ResetInv, ProofsOK, ResetEndsOtherSessions

LEMMA ResetStep == ResetInv /\ [Next]_vars => ResetInv'
<1> SUFFICES ASSUME ResetInv, [Next]_vars PROVE ResetInv'
  OBVIOUS
<1>0. ChainInv /\ ChainInv'
  BY ChainStep DEF ResetInv
<1>1. TypeOK /\ TypeOK' /\ ReplacementsOK'
  BY <1>0 DEF ChainInv
<1> SUFFICES ProofsOK' /\ ResetEndsOtherSessions'
  BY <1>0 DEF ResetInv
<1> USE DEF accountVars, sessionVars, requestVars, historyVars
<1>2. ASSUME NEW r \in Requests, NEW a \in Accounts, LoginRead(r, a) \/ ResetPassword(r, a)
      PROVE  ProofsOK' /\ ResetEndsOtherSessions'
  BY <1>1, <1>2, NothingAdded DEF LoginRead, ResetPassword, TypeOK
<1>3. ASSUME NEW r \in Requests, NEW t \in Tokens, RefreshFind(r, t)
      PROVE  ProofsOK' /\ ResetEndsOtherSessions'
  BY <1>1, <1>3, NothingAdded DEF RefreshFind, TypeOK
<1>4. ASSUME NEW r \in Requests, NEW a \in Accounts, NEW t \in Tokens, LogoutFind(r, a, t)
      PROVE  ProofsOK' /\ ResetEndsOtherSessions'
  BY <1>1, <1>4, NothingAdded DEF LogoutFind, TypeOK
<1>5. ASSUME NEW r \in Requests, RefreshAccount(r) \/ Fail(r)
      PROVE  ProofsOK' /\ ResetEndsOtherSessions'
  BY <1>1, <1>5, NothingAdded DEF RefreshAccount, Fail, Leave, TypeOK
<1>6. ASSUME NEW r \in Requests, RefreshRevokeChain(r) \/ LogoutRevoke(r)
      PROVE  ProofsOK' /\ ResetEndsOtherSessions'
  BY <1>1, <1>6, NothingAdded DEF RefreshRevokeChain, LogoutRevoke, RevokeActive, Leave, TypeOK
<1>7. ASSUME NEW t \in Tokens, Expire(t) \/ RemoveExpired(t)
      PROVE  ProofsOK' /\ ResetEndsOtherSessions'
  BY <1>1, <1>7, NothingAdded DEF Expire, RemoveExpired, TypeOK
<1>8. ASSUME NEW a \in Accounts, DisableAccount(a)
      PROVE  ProofsOK' /\ ResetEndsOtherSessions'
  BY <1>1, <1>8, NothingAdded DEF DisableAccount
(* A sign-in either was checked against a password at least as new as the  *)
(* last answered reset, or opens an overtaken chain.                       *)
<1>9. ASSUME NEW r \in Requests, LoginIssue(r)
      PROVE  ProofsOK' /\ ResetEndsOtherSessions'
  <2>1. PICK t \in Tokens :
          /\ InsertSession(t, subject[r], t, checked[r])
          /\ known' = known \cup {t}
          /\ overtaken' = IF checked[r] < answered[subject[r]]
                            THEN overtaken \cup {t} ELSE overtaken
    BY <1>9 DEF LoginIssue
  <2>2. subject[r] \in Accounts /\ answered' = answered
    BY <1>0, <1>9 DEF LoginIssue, ChainInv, LocalsOK
  <2>3. \A s \in Tokens \ {t} : /\ status'[s] = status[s] /\ owner'[s] = owner[s]
                                /\ chain'[s] = chain[s] /\ proof'[s] = proof[s]
    BY <1>1, <2>1 DEF InsertSession, TypeOK
  <2>4. /\ status[t] = "absent" /\ t \notin known
        /\ owner'[t] = subject[r] /\ chain'[t] = t /\ proof'[t] = checked[r]
    BY <1>0, <1>1, <2>1 DEF InsertSession, TypeOK, ChainInv, DocumentsOK
  <2>5. \A q \in Requests : at'[q] = "claim" =>
          /\ at[q] = "claim" /\ token'[q] = token[q] /\ fresh'[q] = fresh[q]
          /\ token[q] \in Tokens \ {t} /\ fresh[q] \in Tokens \ {t}
    BY <1>0, <1>1, <1>9, <2>4
       DEF LoginIssue, Leave, TypeOK, ChainInv, LocalsOK, ReplacementsOK, ReplacementOK
  <2>6. ProofsOK'
    BY <2>3, <2>5 DEF ResetInv, ProofsOK
  <2>7. ResetEndsOtherSessions'
    <3> SUFFICES ASSUME NEW s \in known', status'[s] = "active", chain'[s] \notin overtaken'
                 PROVE  proof'[s] >= answered'[owner'[s]]
      BY DEF ResetEndsOtherSessions
    <3>1. CASE s = t
      <4>1. ~(checked[r] < answered[subject[r]])
        BY <2>1, <2>4, <3>1
      <4>2. checked[r] \in Nat /\ answered[subject[r]] \in Nat
        BY <1>1, <2>2, SessionAssumption DEF TypeOK, Versions
      <4> QED
        BY <2>2, <2>4, <3>1, <4>1, <4>2
    <3>2. CASE s # t
      <4>1. s \in known /\ s \in Tokens \ {t} /\ chain[s] \notin overtaken
        BY <1>1, <2>1, <2>3, <3>2 DEF TypeOK
      <4> QED
        BY <2>2, <2>3, <4>1 DEF ResetInv, ResetEndsOtherSessions
    <3> QED
      BY <3>1, <3>2
  <2> QED
    BY <2>6, <2>7
(* The replacement takes the sign-in of the presented token; no client     *)
(* knows it yet.                                                           *)
<1>10. ASSUME NEW r \in Requests, RefreshCreate(r)
       PROVE  ProofsOK' /\ ResetEndsOtherSessions'
  <2>1. PICK n \in Tokens :
          /\ InsertSession(n, owner[token[r]], chain[token[r]], proof[token[r]])
          /\ fresh' = [fresh EXCEPT ![r] = n]
    BY <1>10 DEF RefreshCreate
  <2>2. \A s \in Tokens \ {n} : /\ status'[s] = status[s] /\ owner'[s] = owner[s]
                                /\ chain'[s] = chain[s] /\ proof'[s] = proof[s]
    BY <1>1, <2>1 DEF InsertSession, TypeOK
  <2>3. n \notin known /\ status[n] = "absent" /\ proof'[n] = proof[token[r]]
    BY <1>0, <1>1, <2>1 DEF InsertSession, TypeOK, ChainInv, DocumentsOK
  <2>4. \A q \in Requests \ {r} : at'[q] = "claim" =>
          /\ at[q] = "claim" /\ token'[q] = token[q] /\ fresh'[q] = fresh[q]
          /\ token[q] \in Tokens \ {n} /\ fresh[q] \in Tokens \ {n}
    BY <1>0, <1>1, <1>10, <2>1, <2>3
       DEF RefreshCreate, TypeOK, ChainInv, LocalsOK, ReplacementsOK, ReplacementOK
  <2>5. token'[r] = token[r] /\ token[r] \in Tokens \ {n} /\ fresh'[r] = n
    BY <1>0, <1>1, <1>10, <2>1, <2>3 DEF RefreshCreate, TypeOK, ChainInv, LocalsOK
  <2>6. ProofsOK'
    BY <2>2, <2>3, <2>4, <2>5 DEF ResetInv, ProofsOK
  <2>7. ResetEndsOtherSessions'
    BY <1>1, <1>10, <2>2, <2>3 DEF RefreshCreate, ResetInv, ResetEndsOtherSessions, TypeOK
  <2> QED
    BY <2>6, <2>7
(* The presented token was active and known, so its sign-in is recent      *)
(* enough, and the replacement goes back to the same one.                  *)
<1>11. ASSUME NEW r \in Requests, RefreshClaim(r)
       PROVE  ProofsOK' /\ ResetEndsOtherSessions'
  <2>1. CASE status[token[r]] # "active"
    BY <1>1, <1>11, <2>1, NothingAdded DEF RefreshClaim, TypeOK
  <2>2. CASE status[token[r]] = "active"
    <3>1. /\ token[r] \in known
          /\ chain[fresh[r]] = chain[token[r]] /\ owner[fresh[r]] = owner[token[r]]
          /\ proof[fresh[r]] = proof[token[r]]
      BY <1>0, <1>11 DEF RefreshClaim, ChainInv, LocalsOK, ReplacementsOK, ReplacementOK,
                         ResetInv, ProofsOK
    <3>2. /\ status' = [status EXCEPT ![token[r]] = "revoked"]
          /\ known' = known \cup {fresh[r]}
          /\ UNCHANGED <<chain, owner, proof, answered, overtaken>>
      BY <1>11, <2>2 DEF RefreshClaim
    <3>3. ProofsOK'
      BY <1>1, <1>11, <2>2, <3>2 DEF RefreshClaim, Leave, ResetInv, ProofsOK, TypeOK
    <3>4. ResetEndsOtherSessions'
      BY <1>1, <2>2, <3>1, <3>2 DEF ResetInv, ResetEndsOtherSessions, TypeOK
    <3> QED
      BY <3>3, <3>4
  <2> QED
    BY <2>1, <2>2
(* Answering a reset leaves the account no active document at all.         *)
<1>12. ASSUME NEW r \in Requests, ResetRevokeAll(r)
       PROVE  ProofsOK' /\ ResetEndsOtherSessions'
  <2>1. /\ \A t \in Tokens : status'[t] = "active" =>
               status[t] = "active" /\ owner[t] # subject[r]
        /\ \A a \in Accounts \ {subject[r]} : answered'[a] = answered[a]
        /\ UNCHANGED <<owner, chain, known, proof, overtaken>>
    BY <1>1, <1>12 DEF ResetRevokeAll, RevokeActive, OwnedBy, TypeOK
  <2>2. ProofsOK'
    BY <1>1, <1>12 DEF ResetRevokeAll, Leave, RevokeActive, ResetInv, ProofsOK, TypeOK
  <2>3. DocumentsOK
    BY <1>0 DEF ChainInv
  <2>4. \A t \in Tokens : status[t] = "active" => owner[t] \in Accounts
    <3>1. owner \in [Tokens -> Accounts \cup {NoAccount}]
      BY <1>1 DEF TypeOK
    <3>2. \A t \in Tokens : status[t] = "active" => owner[t] # NoAccount
      BY <2>3 DEF DocumentsOK
    <3> QED
      BY <3>1, <3>2
  <2>5. ResetEndsOtherSessions'
    <3> SUFFICES ASSUME NEW t \in known, status'[t] = "active", chain[t] \notin overtaken
                 PROVE  proof[t] >= answered'[owner[t]]
      BY <2>1 DEF ResetEndsOtherSessions
    <3>1. t \in Tokens
      BY <1>1 DEF TypeOK
    <3> QED
      BY <2>1, <2>4, <3>1 DEF ResetInv, ResetEndsOtherSessions
  <2> QED
    BY <2>2, <2>5
<1>13. CASE UNCHANGED vars
  BY <1>1, <1>13, NothingAdded DEF vars
<1> QED
  BY <1>2, <1>3, <1>4, <1>5, <1>6, <1>7, <1>8, <1>9, <1>10, <1>11, <1>12, <1>13
     DEF Next, Arrive, Continue, Environment

(* A password reset that was answered has ended every session of the       *)
(* account, those rotated while it ran and those an earlier reset that     *)
(* stopped halfway had left included; only the session of a sign-in that   *)
(* had read the old password and was answered after the reset can work     *)
(* (confirmPasswordReset, login and refresh in auth.service.ts).           *)
THEOREM ResetEndsTheOthers == Spec => []ResetEndsOtherSessions
<1>1. ResetInv => ResetEndsOtherSessions
  BY DEF ResetInv
<1> QED
  BY <1>1, ResetInit, ResetStep, PTL DEF Spec

-----------------------------------------------------------------------------
(* Refinement of SessionChains *)

CurrentBar == [c \in Tokens |-> Usable(c)]
OpenedBar == {chain[t] : t \in known}

(* Ending the chains in C, seen from the abstract specification.           *)
LEMMA EndRefines ==
  ASSUME NEW C \in SUBSET Tokens,
         known' = known, OpenedBar' = OpenedBar,
         CurrentBar' = [c \in Tokens |-> IF c \in C THEN {} ELSE Usable(c)]
  PROVE  Abstract!Next
<1>1. Abstract!End(C)
  BY DEF Abstract!End, CurrentBar, OpenedBar
<1> QED
  BY <1>1 DEF Abstract!Next

LEMMA StepRefines ==
  ChainInv /\ [Next]_vars => [Abstract!Next]_(Abstract!chainVars)
<1> SUFFICES ASSUME ChainInv, [Next]_vars
             PROVE  [Abstract!Next]_(Abstract!chainVars)
  OBVIOUS
<1> USE DEF ChainInv, accountVars, sessionVars, requestVars, historyVars
<1>1. ASSUME UNCHANGED <<status, chain, known>>
      PROVE  UNCHANGED Abstract!chainVars
  BY <1>1 DEF Abstract!chainVars, Usable
<1>2. ASSUME NEW r \in Requests, NEW a \in Accounts, LoginRead(r, a) \/ ResetPassword(r, a)
      PROVE  UNCHANGED Abstract!chainVars
  BY <1>1, <1>2 DEF LoginRead, ResetPassword
<1>3. ASSUME NEW r \in Requests, NEW t \in Tokens, RefreshFind(r, t)
      PROVE  UNCHANGED Abstract!chainVars
  BY <1>1, <1>3 DEF RefreshFind
<1>4. ASSUME NEW r \in Requests, NEW a \in Accounts, NEW t \in Tokens, LogoutFind(r, a, t)
      PROVE  UNCHANGED Abstract!chainVars
  BY <1>1, <1>4 DEF LogoutFind
<1>5. ASSUME NEW r \in Requests, RefreshAccount(r) \/ Fail(r)
      PROVE  UNCHANGED Abstract!chainVars
  BY <1>1, <1>5 DEF RefreshAccount, Fail
<1>6. ASSUME NEW t \in Tokens, Expire(t)
      PROVE  UNCHANGED Abstract!chainVars
  BY <1>1, <1>6 DEF Expire
<1>7. ASSUME NEW a \in Accounts, DisableAccount(a)
      PROVE  UNCHANGED Abstract!chainVars
  BY <1>1, <1>7 DEF DisableAccount
(* A sign-in opens the chain of the token it inserts. *)
<1>8. ASSUME NEW r \in Requests, LoginIssue(r)
      PROVE  Abstract!Next
  <2>1. PICK t \in Tokens : /\ InsertSession(t, subject[r], t, checked[r])
                            /\ known' = known \cup {t}
    BY <1>8 DEF LoginIssue
  <2>2. t \notin OpenedBar /\ t \notin known
    BY <2>1 DEF InsertSession, OpenedBar, DocumentsOK, TypeOK
  <2>3. CurrentBar' = [CurrentBar EXCEPT ![t] = {t}]
    <3>1. \A s \in known : status'[s] = status[s] /\ chain'[s] = chain[s]
      BY <2>1, <2>2 DEF InsertSession, TypeOK
    <3>2. status'[t] = "active" /\ chain'[t] = t
      BY <2>1 DEF InsertSession, TypeOK
    <3>3. \A d \in Tokens : Usable(d)' = IF d = t THEN {t} ELSE Usable(d)
      BY <2>1, <2>2, <3>1, <3>2 DEF Usable, OpenedBar, TypeOK
    <3> QED
      BY <3>3 DEF CurrentBar
  <2>4. OpenedBar' = OpenedBar \cup {t}
    BY <2>1, <2>2 DEF InsertSession, OpenedBar, TypeOK
  <2>5. Abstract!Open(t, t)
    BY <2>1, <2>2, <2>3, <2>4 DEF Abstract!Open, CurrentBar, OpenedBar
  <2> QED
    BY <2>5 DEF Abstract!Next
(* An inserted replacement is not known, so the abstract state stutters.   *)
<1>9. ASSUME NEW r \in Requests, RefreshCreate(r)
      PROVE  UNCHANGED Abstract!chainVars
  <2>1. \A t \in known : status'[t] = status[t] /\ chain'[t] = chain[t]
    BY <1>9 DEF RefreshCreate, InsertSession, DocumentsOK, TypeOK
  <2>2. known' = known
    BY <1>9 DEF RefreshCreate
  <2> QED
    BY <2>1, <2>2 DEF Abstract!chainVars, Usable
(* A won claim hands the chain over; a lost one changes nothing yet.       *)
<1>10. ASSUME NEW r \in Requests, RefreshClaim(r)
       PROVE  [Abstract!Next]_(Abstract!chainVars)
  <2>1. CASE status[token[r]] # "active"
    BY <1>1, <1>10, <2>1 DEF RefreshClaim
  <2>2. CASE status[token[r]] = "active"
    <3> DEFINE c == chain[token[r]]
    <3>1. /\ token[r] \in known /\ fresh[r] \in Tokens \ known
          /\ status[fresh[r]] = "active" /\ chain[fresh[r]] = c
          /\ c \in Tokens
      BY <1>10, <2>2 DEF RefreshClaim, LocalsOK, ReplacementsOK, ReplacementOK,
                          DocumentsOK, TypeOK
    <3>2. /\ status' = [status EXCEPT ![token[r]] = "revoked"]
          /\ known' = known \cup {fresh[r]}
          /\ chain' = chain
      BY <1>10, <2>2 DEF RefreshClaim
    <3>3. Usable(c) = {token[r]}
      BY <2>2, <3>1 DEF Usable, OneUsableTokenPerChain
    <3>4. \A d \in Tokens : Usable(d)' = IF d = c THEN {fresh[r]} ELSE Usable(d)
      BY <3>1, <3>2, <3>3 DEF Usable, TypeOK
    <3>5. CurrentBar' = [CurrentBar EXCEPT ![c] = {fresh[r]}]
      BY <3>1, <3>4 DEF CurrentBar
    <3>6. OpenedBar' = OpenedBar
      BY <3>1, <3>2 DEF OpenedBar
    <3>7. Abstract!HandOver(c, token[r], fresh[r])
      BY <3>1, <3>2, <3>3, <3>5, <3>6 DEF Abstract!HandOver, CurrentBar, OpenedBar
    <3> QED
      BY <3>1, <3>7 DEF Abstract!Next, TypeOK
  <2> QED
    BY <2>1, <2>2
(* Revoking a whole chain ends it. *)
<1>11. ASSUME NEW r \in Requests, RefreshRevokeChain(r)
       PROVE  Abstract!Next
  <2> DEFINE C == {chain[token[r]]}
  <2>1. C \in SUBSET Tokens
    BY <1>11 DEF RefreshRevokeChain, LocalsOK, DocumentsOK, TypeOK
  <2>2. \A d \in Tokens : Usable(d)' = IF d \in C THEN {} ELSE Usable(d)
    BY <1>11 DEF RefreshRevokeChain, RevokeActive, InChain, Usable, TypeOK
  <2>3. known' = known /\ OpenedBar' = OpenedBar
    BY <1>11 DEF RefreshRevokeChain, RevokeActive, OpenedBar
  <2> QED
    BY <2>1, <2>2, <2>3, EndRefines DEF CurrentBar
(* A sign-out ends the chain whose usable token it revokes, if it has one. *)
<1>12. ASSUME NEW r \in Requests, LogoutRevoke(r)
       PROVE  Abstract!Next
  <2> DEFINE C == {d \in Tokens : token[r] \in Usable(d)}
  <2>1. \A d \in Tokens : Usable(d)' = IF d \in C THEN {} ELSE Usable(d)
    BY <1>12 DEF LogoutRevoke, RevokeActive, Usable, OneUsableTokenPerChain, TypeOK
  <2>2. known' = known /\ OpenedBar' = OpenedBar
    BY <1>12 DEF LogoutRevoke, RevokeActive, OpenedBar
  <2> QED
    BY <2>1, <2>2, EndRefines DEF CurrentBar
(* A reset ends every chain of the account. *)
<1>13. ASSUME NEW r \in Requests, ResetRevokeAll(r)
       PROVE  Abstract!Next
  <2> DEFINE C == {d \in Tokens : \E t \in Usable(d) : owner[t] = subject[r]}
  <2>1. \A d \in Tokens : Usable(d)' = IF d \in C THEN {} ELSE Usable(d)
    BY <1>13 DEF ResetRevokeAll, RevokeActive, OwnedBy, Usable, OneUsableTokenPerChain, TypeOK
  <2>2. known' = known /\ OpenedBar' = OpenedBar
    BY <1>13 DEF ResetRevokeAll, RevokeActive, OpenedBar
  <2> QED
    BY <2>1, <2>2, EndRefines DEF CurrentBar
(* The TTL monitor ends the chain whose usable token it removes. *)
<1>14. ASSUME NEW t \in Tokens, RemoveExpired(t)
       PROVE  Abstract!Next
  <2> DEFINE C == {d \in Tokens : t \in Usable(d)}
  <2>1. \A d \in Tokens : Usable(d)' = IF d \in C THEN {} ELSE Usable(d)
    BY <1>14 DEF RemoveExpired, Usable, OneUsableTokenPerChain, TypeOK
  <2>2. known' = known /\ OpenedBar' = OpenedBar
    BY <1>14 DEF RemoveExpired, OpenedBar
  <2> QED
    BY <2>1, <2>2, EndRefines DEF CurrentBar
<1>15. CASE UNCHANGED vars
  BY <1>1, <1>15 DEF vars
<1> QED
  BY <1>2, <1>3, <1>4, <1>5, <1>6, <1>7, <1>8, <1>9, <1>10, <1>11, <1>12, <1>13,
     <1>14, <1>15 DEF Next, Arrive, Continue, Environment

LEMMA InitRefines == Init => Abstract!Init
  BY DEF Init, Abstract!Init, Usable

(* Every behaviour of the API's session handlers is a behaviour of         *)
(* SessionChains: one usable token per sign-in, handed over on rotation,   *)
(* and a chain that has ended never has a usable token again.              *)
THEOREM SessionsImplementChains == Spec => ImplementsChains
  BY InitRefines, StepRefines, ChainInvariant, PTL
     DEF Spec, ImplementsChains, Abstract!Spec
=============================================================================
