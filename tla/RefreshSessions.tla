--------------------------- MODULE RefreshSessions ---------------------------
(***************************************************************************)
(* The rotating refresh sessions of the API: sign-in, refresh with reuse   *)
(* detection, sign-out and the session side of a password reset.  A        *)
(* request is a process; every database call it awaits is one step, so     *)
(* requests interleave where the code awaits.  There is no transaction.    *)
(*                                                                         *)
(* A session document is named by its token; a rotation chain (the UUID    *)
(* drawn at sign-in) by the first token issued in it.                      *)
(***************************************************************************)
EXTENDS Naturals

CONSTANTS
  Accounts,    \* registered accounts
  Tokens,      \* refresh tokens that can ever be generated
  Requests,    \* requests the server handles concurrently
  NoAccount, NoToken,
  MaxResets,   \* bound: password resets of one account
  Disturbances \* what the environment does besides sending requests

ASSUME SessionAssumption ==
  /\ NoAccount \notin Accounts
  /\ NoToken \notin Tokens
  /\ MaxResets \in Nat
  /\ Disturbances \subseteq {"fail", "expire", "disable"}

VARIABLES
  \* accounts collection
  password,  \* password[a]: how often a's password was replaced
  disabled,  \* accounts whose status is 'disabled'
  \* refreshSessions collection
  status,    \* status[t]: state of the document of token t
  chain,     \* chain[t]: its rotationChainId
  owner,     \* owner[t]: its accountId
  expired,   \* tokens whose expiresAt has passed
  \* requests in flight: local variables of the handlers
  at,        \* at[r]: the call r awaits next, or "idle"
  token,     \* token[r]: the session r looked up
  fresh,     \* fresh[r]: the session r created by a rotation
  subject,   \* subject[r]: the account r works for
  checked,   \* checked[r]: the password version a sign-in r was checked against
  \* history
  known,     \* tokens some response has carried to a client
  ended,     \* chains revoked as a whole
  proof,     \* proof[t]: password version its sign-in was checked against
  answered,  \* answered[a]: password version of the last reset answered
  overtaken  \* chains whose sign-in had read a password that an answered reset replaced

accountVars == <<password, disabled>>
sessionVars == <<status, chain, owner, expired>>
requestVars == <<at, token, fresh, subject, checked>>
historyVars == <<known, ended, proof, answered, overtaken>>
vars == <<password, disabled, status, chain, owner, expired,
          at, token, fresh, subject, checked, known, ended, proof, answered, overtaken>>

Versions == 0 .. MaxResets
Stage == {"idle", "issue", "account", "create", "claim", "revokeChain",
          "logout", "revokeAll"}

TypeOK ==
  /\ password \in [Accounts -> Versions]
  /\ disabled \subseteq Accounts
  /\ status \in [Tokens -> {"absent", "active", "revoked", "removed"}]
  /\ chain \in [Tokens -> Tokens \cup {NoToken}]
  /\ owner \in [Tokens -> Accounts \cup {NoAccount}]
  /\ expired \subseteq Tokens
  /\ at \in [Requests -> Stage]
  /\ token \in [Requests -> Tokens \cup {NoToken}]
  /\ fresh \in [Requests -> Tokens \cup {NoToken}]
  /\ subject \in [Requests -> Accounts \cup {NoAccount}]
  /\ checked \in [Requests -> Versions]
  /\ known \subseteq Tokens
  /\ ended \subseteq Tokens
  /\ proof \in [Tokens -> Versions]
  /\ answered \in [Accounts -> Versions]
  /\ overtaken \subseteq Tokens

Init ==
  /\ password = [a \in Accounts |-> 0]
  /\ disabled = {}
  /\ status = [t \in Tokens |-> "absent"]
  /\ chain = [t \in Tokens |-> NoToken]
  /\ owner = [t \in Tokens |-> NoAccount]
  /\ expired = {}
  /\ at = [r \in Requests |-> "idle"]
  /\ token = [r \in Requests |-> NoToken]
  /\ fresh = [r \in Requests |-> NoToken]
  /\ subject = [r \in Requests |-> NoAccount]
  /\ checked = [r \in Requests |-> 0]
  /\ known = {}
  /\ ended = {}
  /\ proof = [t \in Tokens |-> 0]
  /\ answered = [a \in Accounts |-> 0]
  /\ overtaken = {}

-----------------------------------------------------------------------------
(* Steps shared by the handlers *)

(* The request is over: it answered, or threw. *)
Leave(r) ==
  /\ at' = [at EXCEPT ![r] = "idle"]
  /\ token' = [token EXCEPT ![r] = NoToken]
  /\ fresh' = [fresh EXCEPT ![r] = NoToken]
  /\ subject' = [subject EXCEPT ![r] = NoAccount]
  /\ checked' = [checked EXCEPT ![r] = 0]

(* issueSession: insert the document of a token never generated before. *)
InsertSession(t, a, c, version) ==
  /\ status[t] = "absent"
  /\ status' = [status EXCEPT ![t] = "active"]
  /\ owner' = [owner EXCEPT ![t] = a]
  /\ chain' = [chain EXCEPT ![t] = c]
  /\ proof' = [proof EXCEPT ![t] = version]
  /\ UNCHANGED expired

(* updateMany({..., revokedAt: null}) over the documents in S. *)
RevokeActive(S) ==
  /\ status' = [t \in Tokens |->
                  IF t \in S /\ status[t] = "active" THEN "revoked" ELSE status[t]]
  /\ UNCHANGED <<chain, owner, expired>>

InChain(c) == {t \in Tokens : chain[t] = c}
OwnedBy(a) == {t \in Tokens : owner[t] = a}

-----------------------------------------------------------------------------
(* login *)

(* findByEmail and the checks made on that one read.  A password that does *)
(* not match the hash just read, or a disabled account, ends in a 401.     *)
LoginRead(r, a) ==
  /\ at[r] = "idle"
  /\ a \notin disabled
  /\ at' = [at EXCEPT ![r] = "issue"]
  /\ subject' = [subject EXCEPT ![r] = a]
  /\ checked' = [checked EXCEPT ![r] = password[a]]
  /\ UNCHANGED <<accountVars, sessionVars, token, fresh, historyVars>>

(* issueSession with a new rotation chain, then the 200 with the pair. *)
LoginIssue(r) ==
  /\ at[r] = "issue"
  /\ \E t \in Tokens :
       /\ InsertSession(t, subject[r], t, checked[r])
       /\ known' = known \cup {t}
       /\ overtaken' = IF checked[r] < answered[subject[r]] THEN overtaken \cup {t} ELSE overtaken
  /\ Leave(r)
  /\ UNCHANGED <<accountVars, ended, answered>>

-----------------------------------------------------------------------------
(* refresh *)

(* findByTokenHash.  An unknown (or removed) document and an expired one   *)
(* are answered 401 with no effect; a revoked one is reuse.                *)
RefreshFind(r, t) ==
  /\ at[r] = "idle"
  /\ t \in known
  /\ \/ /\ status[t] = "revoked"
        /\ at' = [at EXCEPT ![r] = "revokeChain"]
     \/ /\ status[t] = "active"
        /\ t \notin expired
        /\ at' = [at EXCEPT ![r] = "account"]
  /\ token' = [token EXCEPT ![r] = t]
  /\ UNCHANGED <<accountVars, sessionVars, fresh, subject, checked, historyVars>>

(* findById on the owner; a disabled account is answered 401. *)
RefreshAccount(r) ==
  /\ at[r] = "account"
  /\ IF owner[token[r]] \in disabled
       THEN Leave(r)
       ELSE /\ at' = [at EXCEPT ![r] = "create"]
            /\ UNCHANGED <<token, fresh, subject, checked>>
  /\ UNCHANGED <<accountVars, sessionVars, historyVars>>

(* Mutant of RefreshCreate: issueSession is called without the chain, so   *)
(* the replacement opens a chain of its own.                               *)
RefreshCreateNewChain(r) ==
  /\ at[r] = "create"
  /\ \E n \in Tokens :
       /\ InsertSession(n, owner[token[r]], n, proof[token[r]])
       /\ fresh' = [fresh EXCEPT ![r] = n]
  /\ at' = [at EXCEPT ![r] = "claim"]
  /\ UNCHANGED <<accountVars, token, subject, checked, known, ended, answered, overtaken>>

(* The replacement is created before the presented token is claimed. *)
RefreshCreate(r) ==
  /\ at[r] = "create"
  /\ \E n \in Tokens :
       /\ InsertSession(n, owner[token[r]], chain[token[r]], proof[token[r]])
       /\ fresh' = [fresh EXCEPT ![r] = n]
  /\ at' = [at EXCEPT ![r] = "claim"]
  /\ UNCHANGED <<accountVars, token, subject, checked, known, ended, answered, overtaken>>

(* Mutant of RefreshClaim: revokeById, which does not tell who came first. *)
RefreshClaimUnchecked(r) ==
  /\ at[r] = "claim"
  /\ status' = [status EXCEPT ![token[r]] = "revoked"]
  /\ known' = known \cup {fresh[r]}
  /\ Leave(r)
  /\ UNCHANGED <<accountVars, chain, owner, expired, ended, proof, answered, overtaken>>

(* Mutant of RefreshClaim: the winner leaves the presented token active.   *)
RefreshClaimKeepsOld(r) ==
  /\ at[r] = "claim"
  /\ IF status[token[r]] = "active"
       THEN /\ known' = known \cup {fresh[r]}
            /\ Leave(r)
       ELSE /\ at' = [at EXCEPT ![r] = "revokeChain"]
            /\ UNCHANGED <<known, token, fresh, subject, checked>>
  /\ UNCHANGED <<accountVars, sessionVars, ended, proof, answered, overtaken>>

(* Mutant of RefreshClaim: the loser answers 401 and leaves its            *)
(* replacement behind.                                                     *)
RefreshClaimLoserLeaves(r) ==
  /\ at[r] = "claim"
  /\ IF status[token[r]] = "active"
       THEN /\ status' = [status EXCEPT ![token[r]] = "revoked"]
            /\ known' = known \cup {fresh[r]}
       ELSE UNCHANGED <<status, known>>
  /\ Leave(r)
  /\ UNCHANGED <<accountVars, chain, owner, expired, ended, proof, answered, overtaken>>

(* revokeByIdIfActive: the winner answers with the replacement, the loser  *)
(* goes on to revoke the chain.                                            *)
RefreshClaim(r) ==
  /\ at[r] = "claim"
  /\ IF status[token[r]] = "active"
       THEN /\ status' = [status EXCEPT ![token[r]] = "revoked"]
            /\ known' = known \cup {fresh[r]}
            /\ Leave(r)
       ELSE /\ at' = [at EXCEPT ![r] = "revokeChain"]
            /\ UNCHANGED <<status, known, token, fresh, subject, checked>>
  /\ UNCHANGED <<accountVars, chain, owner, expired, ended, proof, answered, overtaken>>

(* revokeChain, then the 401. *)
RefreshRevokeChain(r) ==
  /\ at[r] = "revokeChain"
  /\ RevokeActive(InChain(chain[token[r]]))
  /\ ended' = ended \cup {chain[token[r]]}
  /\ Leave(r)
  /\ UNCHANGED <<accountVars, known, proof, answered, overtaken>>

-----------------------------------------------------------------------------
(* logout *)

(* findByTokenHash; only an unrevoked session of the caller goes on. *)
LogoutFind(r, a, t) ==
  /\ at[r] = "idle"
  /\ a \notin disabled
  /\ t \in known
  /\ status[t] = "active"
  /\ owner[t] = a
  /\ at' = [at EXCEPT ![r] = "logout"]
  /\ token' = [token EXCEPT ![r] = t]
  /\ UNCHANGED <<accountVars, sessionVars, fresh, subject, checked, historyVars>>

(* revokeById: unconditional, so it may hit a session revoked meanwhile. *)
LogoutRevoke(r) ==
  /\ at[r] = "logout"
  /\ RevokeActive({token[r]})
  /\ Leave(r)
  /\ UNCHANGED <<accountVars, historyVars>>

-----------------------------------------------------------------------------
(* confirmPasswordReset, once the emailed code has been accepted *)

(* updatePassword.  markEmailVerified and clearFailedLogin, awaited next,  *)
(* do not touch this state.                                                *)
ResetPassword(r, a) ==
  /\ at[r] = "idle"
  /\ password[a] < MaxResets
  /\ password' = [password EXCEPT ![a] = @ + 1]
  /\ at' = [at EXCEPT ![r] = "revokeAll"]
  /\ subject' = [subject EXCEPT ![r] = a]
  /\ checked' = [checked EXCEPT ![r] = password[a] + 1]
  /\ UNCHANGED <<disabled, sessionVars, token, fresh, historyVars>>

(* revokeAllForAccount, then the 204. *)
ResetRevokeAll(r) ==
  /\ at[r] = "revokeAll"
  /\ RevokeActive(OwnedBy(subject[r]))
  /\ ended' = ended \cup {chain[t] : t \in OwnedBy(subject[r])}
  /\ answered' = [answered EXCEPT ![subject[r]] =
                    IF checked[r] > @ THEN checked[r] ELSE @]
  /\ Leave(r)
  /\ UNCHANGED <<accountVars, known, proof, overtaken>>

-----------------------------------------------------------------------------
(* The environment *)

(* A call rejects, or the process dies, with the request half done. *)
Fail(r) ==
  /\ "fail" \in Disturbances
  /\ at[r] # "idle"
  /\ Leave(r)
  /\ UNCHANGED <<accountVars, sessionVars, historyVars>>

(* expiresAt passes.  The lifetime of a session (days) is longer than any  *)
(* request, so a replacement does not expire in the hands of its creator.  *)
Expire(t) ==
  /\ "expire" \in Disturbances
  /\ status[t] \in {"active", "revoked"}
  /\ t \notin expired
  /\ \A r \in Requests : fresh[r] # t
  /\ expired' = expired \cup {t}
  /\ UNCHANGED <<accountVars, status, chain, owner, requestVars, historyVars>>

(* MongoDB's TTL monitor removes an expired document. *)
RemoveExpired(t) ==
  /\ t \in expired
  /\ status[t] \in {"active", "revoked"}
  /\ status' = [status EXCEPT ![t] = "removed"]
  /\ UNCHANGED <<accountVars, chain, owner, expired, requestVars, historyVars>>

(* An operator disables an account in the database. *)
DisableAccount(a) ==
  /\ "disable" \in Disturbances
  /\ a \notin disabled
  /\ disabled' = disabled \cup {a}
  /\ UNCHANGED <<password, sessionVars, requestVars, historyVars>>

-----------------------------------------------------------------------------
(* A request the server has accepted takes its next step. *)
Continue(r) ==
  \/ LoginIssue(r)
  \/ RefreshAccount(r)
  \/ RefreshCreate(r)
  \/ RefreshClaim(r)
  \/ RefreshRevokeChain(r)
  \/ LogoutRevoke(r)
  \/ ResetRevokeAll(r)

Arrive(r) ==
  \/ \E a \in Accounts : LoginRead(r, a) \/ ResetPassword(r, a)
  \/ \E t \in Tokens : RefreshFind(r, t)
  \/ \E a \in Accounts, t \in Tokens : LogoutFind(r, a, t)

Environment ==
  \/ \E r \in Requests : Fail(r)
  \/ \E t \in Tokens : Expire(t) \/ RemoveExpired(t)
  \/ \E a \in Accounts : DisableAccount(a)

Next ==
  \/ \E r \in Requests : Arrive(r) \/ Continue(r)
  \/ Environment

Spec == Init /\ [][Next]_vars

(* An accepted request runs on; clients and the clock owe nothing. *)
Fairness == \A r \in Requests : WF_vars(Continue(r))
FairSpec == Spec /\ Fairness

-----------------------------------------------------------------------------
(* Properties *)

Usable(c) == {t \in known : chain[t] = c /\ status[t] = "active"}

(* A handler past its first read holds what that read gave it, and only a  *)
(* rotation about to claim holds a replacement: the local variables of     *)
(* auth.service.ts refresh/login/logout/confirmPasswordReset.              *)
LocalsOK ==
  \A r \in Requests :
    /\ at[r] \in {"account", "create", "claim", "revokeChain", "logout"}
         => token[r] \in known
    /\ at[r] \in {"issue", "revokeAll"} <=> subject[r] \in Accounts
    /\ at[r] = "claim" => fresh[r] \in Tokens \ known

(* Once a chain has been revoked as a whole (reuse, reset), no token that  *)
(* ever reached a client works in it, whatever rotations were in flight:   *)
(* the claim of refresh() that "no rotated session can survive the race".  *)
EndedChainUnusable ==
  \A t \in known : chain[t] \in ended => status[t] # "active"

(* However many requests present the same token at once, at most one token *)
(* held by clients works in a chain (FR-008: rotation supersedes).         *)
OneUsableTokenPerChain ==
  \A c \in Tokens : \A t1, t2 \in Usable(c) : t1 = t2

(* An inserted document has an account and a chain whose first session was *)
(* inserted; only inserted documents expire or reach clients.              *)
DocumentsOK ==
  \A t \in Tokens :
    /\ status[t] = "absent" <=> chain[t] = NoToken
    /\ status[t] = "absent" <=> owner[t] = NoAccount
    /\ status[t] # "absent" => /\ status[chain[t]] # "absent"
                               /\ owner[chain[t]] = owner[t]
    /\ t \in known \cup expired => status[t] # "absent"
    /\ t \in ended => status[t] # "absent"

(* The replacement of a rotation that has yet to claim. *)
ReplacementOK(r) ==
  at[r] = "claim" =>
    /\ fresh[r] \in Tokens
    /\ status[fresh[r]] \in {"active", "revoked"}
    /\ status[token[r]] = "active" => status[fresh[r]] = "active"
    /\ chain[fresh[r]] = chain[token[r]]
    /\ owner[fresh[r]] = owner[token[r]]
    /\ fresh[r] \notin expired
    /\ \A q \in Requests \ {r} : at[q] = "claim" => fresh[q] # fresh[r]
ReplacementsOK == \A r \in Requests : ReplacementOK(r)

(* The inductive invariant. *)
ChainInv ==
  /\ TypeOK
  /\ LocalsOK
  /\ DocumentsOK
  /\ ReplacementsOK
  /\ EndedChainUnusable
  /\ OneUsableTokenPerChain

(* The store behaves as chains that are handed over and end for good.      *)
Abstract == INSTANCE SessionChains WITH
  Chains <- Tokens,
  current <- [c \in Tokens |-> Usable(c)],
  opened <- {chain[t] : t \in known},
  issued <- known
ImplementsChains == Abstract!Spec

(* The replacement a losing rotation leaves behind is revoked too: when no *)
(* call fails, a chain revoked as a whole ends up with no active document. *)
EndedChainDrains ==
  \A c \in Tokens :
    c \in ended ~> [](\A t \in InChain(c) : status[t] # "active")

(* After a password reset has been answered, no usable token goes back to  *)
(* a sign-in with an older password (FR-024 as spec.md states it).         *)
ResetEndsOldSessions ==
  \A t \in known :
    status[t] = "active" => proof[t] >= answered[owner[t]]

(* The same, except for a sign-in that was in flight over the reset: that  *)
(* sessions rotated meanwhile, or left by a reset that stopped halfway,    *)
(* are ended all the same.                                                 *)
ResetEndsOtherSessions ==
  \A t \in known :
    status[t] = "active" /\ chain[t] \notin overtaken => proof[t] >= answered[owner[t]]

(* What it rests on: a replacement goes back to the sign-in of the token   *)
(* presented.                                                              *)
ProofsOK == \A r \in Requests : at[r] = "claim" => proof[fresh[r]] = proof[token[r]]

(* Inductive together with ChainInv. *)
ResetInv == ChainInv /\ ProofsOK /\ ResetEndsOtherSessions
=============================================================================
