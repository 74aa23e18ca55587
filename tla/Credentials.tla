------------------------------ MODULE Credentials ------------------------------
(***************************************************************************)
(* The account behind one e-mail address: registration, the one-time codes *)
(* that verify the address or reset the password, and the lockout of       *)
(* sign-in.  Addresses share no state, so one is enough.  A call is a      *)
(* process and every awaited database call is a step; what sign-in and     *)
(* reset do to sessions is in RefreshSessions.                             *)
(***************************************************************************)
EXTENDS Naturals, Sequences, FiniteSets

CONSTANTS
  Calls,        \* requests in flight at once
  MaxAttempts,  \* OTP_POLICY.maxAttempts
  MaxFailed,    \* LOGIN_LOCKOUT.maxFailedAttempts
  MaxCalls      \* bound on the requests accepted

ASSUME CredentialsAssumption ==
  /\ MaxAttempts \in Nat \ {0}
  /\ MaxFailed \in Nat \ {0}
  /\ MaxCalls \in Nat
  /\ IsFiniteSet(Calls)

VARIABLES
  account,  \* the account document, registered once it is inserted
  codes,    \* oneTimeCodes in the order of createdAt
  call,     \* call[r]: what r awaits next, and the local variables of its handler
  arrived,  \* number of calls accepted, for MaxCalls
  \* history
  won,      \* codes a submitted value has matched
  misses,   \* wrong passwords recorded since the last lock or clear
  crossed,  \* two issues of one purpose overlapped
  lost      \* a failed sign-in saved a counter read before another write

credentialVars == <<account, codes, call, arrived, won, misses, crossed, lost>>

Purposes == {"email_verification", "password_reset"}
Account == [registered : BOOLEAN, verified : BOOLEAN, failed : Nat, locked : BOOLEAN]
Code == [purpose : Purposes, state : {"active", "consumed", "gone"}, attempts : Nat,
         mailed : BOOLEAN]
Stages == {"idle", "insert", "sweep", "store", "mail", "find", "count", "consume",
           "password", "verified", "clear", "read", "save"}
Call == [at : Stages, op : {"none", "register", "issue", "verify", "reset", "login"},
         purpose : Purposes, guess : Nat, held : Nat, seen : Nat, retired : SUBSET Nat]
Idle == [at |-> "idle", op |-> "none", purpose |-> "email_verification", guess |-> 0,
         held |-> 0, seen |-> 0, retired |-> {}]

CredentialsTypeOK ==
  /\ account \in Account
  /\ codes \in Seq(Code)
  /\ call \in [Calls -> Call]
  /\ arrived \in Nat
  /\ won \subseteq DOMAIN codes
  /\ misses \in Nat
  /\ crossed \in BOOLEAN
  /\ lost \in BOOLEAN

CredentialsInit ==
  /\ account = [registered |-> FALSE, verified |-> FALSE, failed |-> 0, locked |-> FALSE]
  /\ codes = <<>>
  /\ call = [r \in Calls |-> Idle]
  /\ arrived = 0
  /\ won = {}
  /\ misses = 0
  /\ crossed = FALSE
  /\ lost = FALSE

-----------------------------------------------------------------------------
Of(purpose) == {c \in DOMAIN codes : codes[c].purpose = purpose}
ActiveOf(purpose) == {c \in Of(purpose) : codes[c].state = "active"}

(* Codes that are over: used, removed or expired, or followed by another.  *)
Retired(purpose) ==
  {c \in Of(purpose) : codes[c].state # "active" \/ \E d \in Of(purpose) : d > c}

Await(r, stage) == call' = [call EXCEPT ![r].at = stage]
Answer(r) == call' = [call EXCEPT ![r] = Idle]

CallArrives(r, what, purpose, guess, stage) ==
  /\ call[r].at = "idle"
  /\ arrived < MaxCalls
  /\ arrived' = arrived + 1
  /\ call' = [call EXCEPT ![r] =
                 [at |-> stage, op |-> what, purpose |-> purpose, guess |-> guess,
                  held |-> 0, seen |-> 0, retired |-> Retired(purpose)]]
  /\ UNCHANGED <<account, codes, won, misses, crossed, lost>>

(* A submitted code: one that was mailed, or 0 for any other value.        *)
Submitted == {0} \cup {c \in DOMAIN codes : codes[c].mailed}

-----------------------------------------------------------------------------
(* The handlers begin.  Calls about an unknown address change nothing.     *)

(* existsByEmail *)
Register(r) ==
  ~account.registered /\ CallArrives(r, "register", "email_verification", 0, "insert")

(* findById: only an unverified account gets a new code. *)
ResendVerification(r) ==
  /\ account.registered /\ ~account.verified
  /\ CallArrives(r, "issue", "email_verification", 0, "sweep")

RequestPasswordReset(r) ==
  account.registered /\ CallArrives(r, "issue", "password_reset", 0, "sweep")

VerifyEmail(r) ==
  /\ account.registered
  /\ \E g \in Submitted : CallArrives(r, "verify", "email_verification", g, "find")

ConfirmPasswordReset(r) ==
  /\ account.registered
  /\ \E g \in Submitted : CallArrives(r, "reset", "password_reset", g, "find")

(* findByEmail: the hash to match and lockedUntil come from this one read. *)
Login(r) ==
  /\ account.registered /\ ~account.locked
  /\ \E stage \in {"clear", "read"} : CallArrives(r, "login", "password_reset", 0, stage)

-----------------------------------------------------------------------------
(* accounts.create: the unique index on email refuses the second.          *)
InsertAccount(r) ==
  /\ call[r].at = "insert"
  /\ IF account.registered
       THEN Answer(r) /\ UNCHANGED account
       ELSE account' = [account EXCEPT !.registered = TRUE] /\ Await(r, "sweep")
  /\ UNCHANGED <<codes, arrived, won, misses, crossed, lost>>

-----------------------------------------------------------------------------
(* OneTimeCodeService.issue, then the mail *)

(* Mutant of DeleteUnconsumed: an issue leaves the earlier codes alone.    *)
DeleteNothing(r) ==
  /\ call[r].at = "sweep"
  /\ Await(r, "store")
  /\ UNCHANGED <<account, codes, arrived, won, misses, crossed, lost>>

(* deleteUnconsumed *)
DeleteUnconsumed(r) ==
  /\ call[r].at = "sweep"
  /\ codes' = [c \in DOMAIN codes |->
                 IF c \in ActiveOf(call[r].purpose) THEN [codes[c] EXCEPT !.state = "gone"]
                                                    ELSE codes[c]]
  /\ crossed' = (crossed \/ \E q \in Calls : call[q].at = "store"
                                             /\ call[q].purpose = call[r].purpose)
  /\ Await(r, "store")
  /\ UNCHANGED <<account, arrived, won, misses, lost>>

StoreCode(r) ==
  /\ call[r].at = "store"
  /\ codes' = Append(codes, [purpose |-> call[r].purpose, state |-> "active",
                             attempts |-> 0, mailed |-> FALSE])
  /\ call' = [call EXCEPT ![r].at = "mail", ![r].held = Len(codes) + 1]
  /\ UNCHANGED <<account, arrived, won, misses, crossed, lost>>

MailCode(r) ==
  /\ call[r].at = "mail"
  /\ codes' = [codes EXCEPT ![call[r].held].mailed = TRUE]
  /\ Answer(r)
  /\ UNCHANGED <<account, arrived, won, misses, crossed, lost>>

-----------------------------------------------------------------------------
(* OneTimeCodeService.verify *)

(* Mutant of FindActive: the cap is not looked at.                         *)
FindUncapped(r) ==
  /\ call[r].at = "find"
  /\ LET live == ActiveOf(call[r].purpose) IN
       IF live = {}
         THEN Answer(r)
         ELSE \E c \in live :
                /\ \A d \in live : d <= c
                /\ call' = [call EXCEPT ![r].at = "count", ![r].held = c]
  /\ UNCHANGED <<account, codes, arrived, won, misses, crossed, lost>>

(* findActive: the newest; none, or one out of attempts, verifies nothing. *)
FindActive(r) ==
  /\ call[r].at = "find"
  /\ LET live == ActiveOf(call[r].purpose)
         newest == {c \in live : \A d \in live : d <= c}
         open == {c \in newest : codes[c].attempts < MaxAttempts}
     IN IF open = {}
          THEN Answer(r)
          ELSE \E c \in open : call' = [call EXCEPT ![r].at = "count", ![r].held = c]
  /\ UNCHANGED <<account, codes, arrived, won, misses, crossed, lost>>

(* Mutant of CountAttempt: a comparison that throws counts as a match.     *)
CountMatchesAll(r) ==
  /\ call[r].at = "count"
  /\ codes' = [codes EXCEPT ![call[r].held].attempts = @ + 1]
  /\ won' = IF call[r].guess = call[r].held THEN won \cup {call[r].held} ELSE won
  /\ Await(r, "consume")
  /\ UNCHANGED <<account, arrived, misses, crossed, lost>>

(* incrementAttempt, and the comparison with the hash read before.  (Of a  *)
(* document removed since, attempts counts what was compared all the same.) *)
CountAttempt(r) ==
  /\ call[r].at = "count"
  /\ codes' = [codes EXCEPT ![call[r].held].attempts = @ + 1]
  /\ IF call[r].guess = call[r].held
       THEN won' = won \cup {call[r].held} /\ Await(r, "consume")
       ELSE UNCHANGED won /\ Answer(r)
  /\ UNCHANGED <<account, arrived, misses, crossed, lost>>

(* markConsumed, by id: it does not tell who consumed the code first.      *)
MarkConsumed(r) ==
  /\ call[r].at = "consume"
  /\ codes' = [codes EXCEPT ![call[r].held].state = IF @ = "gone" THEN @ ELSE "consumed"]
  /\ Await(r, IF call[r].op = "verify" THEN "verified" ELSE "password")
  /\ UNCHANGED <<account, arrived, won, misses, crossed, lost>>

-----------------------------------------------------------------------------
(* What the handlers do once the code is accepted *)

(* updatePassword: the password itself is in RefreshSessions. *)
UpdatePassword(r) ==
  /\ call[r].at = "password"
  /\ Await(r, "verified")
  /\ UNCHANGED <<account, codes, arrived, won, misses, crossed, lost>>

MarkEmailVerified(r) ==
  /\ call[r].at = "verified"
  /\ account' = [account EXCEPT !.verified = TRUE]
  /\ IF call[r].op = "verify" THEN Answer(r) ELSE Await(r, "clear")
  /\ UNCHANGED <<codes, arrived, won, misses, crossed, lost>>

(* clearFailedLogin: a sign-in with the right password, or a reset.        *)
ClearFailedLogin(r) ==
  /\ call[r].at = "clear"
  /\ account' = [account EXCEPT !.failed = 0, !.locked = FALSE]
  /\ misses' = 0
  /\ Answer(r)
  /\ UNCHANGED <<codes, arrived, won, crossed, lost>>

-----------------------------------------------------------------------------
(* registerFailedLogin *)

ReadFailedLogin(r) ==
  /\ call[r].at = "read"
  /\ call' = [call EXCEPT ![r].at = "save", ![r].seen = account.failed]
  /\ UNCHANGED <<account, codes, arrived, won, misses, crossed, lost>>

(* Mutant of SaveFailedLogin: the account locks one miss too late.         *)
SaveFailedLoginLate(r) ==
  /\ call[r].at = "save"
  /\ LET n == call[r].seen + 1 IN
       account' = IF n > MaxFailed THEN [account EXCEPT !.failed = 0, !.locked = TRUE]
                                   ELSE [account EXCEPT !.failed = n]
  /\ misses' = IF account'.failed = 0 THEN 0 ELSE misses + 1
  /\ lost' = (lost \/ call[r].seen # account.failed)
  /\ Answer(r)
  /\ UNCHANGED <<codes, arrived, won, crossed>>

(* save() writes the counter computed from the read, whatever it is now.   *)
SaveFailedLogin(r) ==
  /\ call[r].at = "save"
  /\ LET n == call[r].seen + 1 IN
       account' = IF n >= MaxFailed THEN [account EXCEPT !.failed = 0, !.locked = TRUE]
                                    ELSE [account EXCEPT !.failed = n]
  /\ misses' = IF account'.failed = 0 THEN 0 ELSE misses + 1
  /\ lost' = (lost \/ call[r].seen # account.failed)
  /\ Answer(r)
  /\ UNCHANGED <<codes, arrived, won, crossed>>

-----------------------------------------------------------------------------
(* A call rejects, or the process dies: what was written stays.            *)
CallFails(r) ==
  /\ call[r].at # "idle"
  /\ Answer(r)
  /\ UNCHANGED <<account, codes, arrived, won, misses, crossed, lost>>

(* expiresAt of a code passes: findActive leaves it out from then on.      *)
ExpireCode(c) ==
  /\ codes[c].state = "active"
  /\ codes' = [codes EXCEPT ![c].state = "gone"]
  /\ UNCHANGED <<account, call, arrived, won, misses, crossed, lost>>

(* lockedUntil passes. *)
LockPasses ==
  /\ account.locked
  /\ account' = [account EXCEPT !.locked = FALSE]
  /\ UNCHANGED <<codes, call, arrived, won, misses, crossed, lost>>

CredentialStep(r) ==
  \/ Register(r) \/ ResendVerification(r) \/ RequestPasswordReset(r)
  \/ VerifyEmail(r) \/ ConfirmPasswordReset(r) \/ Login(r)
  \/ InsertAccount(r) \/ DeleteUnconsumed(r) \/ StoreCode(r) \/ MailCode(r)
  \/ FindActive(r) \/ CountAttempt(r) \/ MarkConsumed(r)
  \/ UpdatePassword(r) \/ MarkEmailVerified(r) \/ ClearFailedLogin(r)
  \/ ReadFailedLogin(r) \/ SaveFailedLogin(r)
  \/ CallFails(r)

CredentialsNext ==
  \/ \E r \in Calls : CredentialStep(r)
  \/ \E c \in DOMAIN codes : ExpireCode(c)
  \/ LockPasses

CredentialsSpec == CredentialsInit /\ [][CredentialsNext]_credentialVars

-----------------------------------------------------------------------------
(* Properties *)

(* The handler of r has been told by OneTimeCodeService.verify, or is      *)
(* about to be, that the submitted code is right.                          *)
Accepting(r) ==
  call[r].op \in {"verify", "reset"}
    /\ call[r].at \in {"consume", "password", "verified", "clear"}

(* A code used, expired or replaced before a call arrived is not accepted  *)
(* from that call, whatever else is in flight (FR-021 and the single use   *)
(* one-time-code.service.ts promises); only two issues of one purpose that *)
(* overlap can leave two codes standing, the older good after the newer.   *)
RetiredCodesFail ==
  \A r \in Calls : Accepting(r) /\ ~crossed => call[r].held \notin call[r].retired

(* The cap holds up to the calls in flight: each may compare one more      *)
(* value on the count it read before the others' incrementAttempt.         *)
AttemptsBounded ==
  \A c \in DOMAIN codes : codes[c].attempts <= MaxAttempts + Cardinality(Calls) - 1

(* An address is verified only by a mailed code that came back: through    *)
(* verifyEmail, or through the reset that "proves inbox control".          *)
VerifiedProvesInbox ==
  account.verified => \E c \in won : codes[c].mailed

(* The counter of registerFailedLogin tells the wrong passwords since the  *)
(* last lock or clear, and never MaxFailed of them without the lock,       *)
(* unless a save wrote over a counter it had not read.                     *)
LockoutCounts == ~lost => account.failed = misses /\ misses < MaxFailed

-----------------------------------------------------------------------------
(* What makes the properties inductive *)

(* A code a handler holds was issued; one it was told is right has been    *)
(* matched by a mailed value, and a value submitted was mailed or matches  *)
(* nothing.                                                                *)
HeldOK ==
  \A r \in Calls :
    /\ call[r].at = "count" => call[r].held \in DOMAIN codes
    /\ call[r].at \in {"consume", "password", "verified"} =>
         call[r].held \in won /\ codes[call[r].held].mailed
    /\ call[r].guess # 0 => call[r].guess \in DOMAIN codes /\ codes[call[r].guess].mailed

(* While no two issues of one purpose overlapped: at most one is about to  *)
(* store its code, none stands meanwhile, and the one standing is newest.  *)
IssuesApart ==
  ~crossed =>
    /\ \A q \in Calls, r \in Calls :
         call[q].at = "store" /\ call[r].at = "store" /\ call[q].purpose = call[r].purpose
           => q = r
    /\ \A r \in Calls, c \in DOMAIN codes :
         call[r].at = "store" /\ codes[c].purpose = call[r].purpose
           => codes[c].state # "active"
    /\ \A c, d \in DOMAIN codes :
         codes[c].purpose = codes[d].purpose /\ codes[c].state = "active" => d <= c

(* What was over when a call arrived stays over, and is not what it holds. *)
RetiredOK ==
  \A r \in Calls :
    /\ call[r].retired \subseteq DOMAIN codes
    /\ ~crossed => \A c \in call[r].retired : codes[c].state # "active"
    /\ ~crossed /\ call[r].at \in {"count", "consume", "password", "verified", "clear"}
         => call[r].held \notin call[r].retired

(* The attempts counted on a code and those about to be counted. *)
Counting(c) == {r \in Calls : call[r].at = "count" /\ call[r].held = c}
CountsBounded ==
  \A c \in DOMAIN codes :
    codes[c].attempts + Cardinality(Counting(c)) <= MaxAttempts + Cardinality(Calls) - 1

CredentialsInv ==
  /\ CredentialsTypeOK /\ HeldOK /\ IssuesApart /\ RetiredOK /\ CountsBounded
  /\ VerifiedProvesInbox /\ LockoutCounts
=============================================================================
