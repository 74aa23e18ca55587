---------------------------- MODULE ServicesProofs -----------------------------
(***************************************************************************)
(* What is proved of the services whose requests meet in single documents: *)
(* codes and sign-ins (Credentials), reminders, and accounts, categories   *)
(* and templates (Catalog).  They share no state and no lemma.  At the end *)
(* they are put together with Transfers and Reports.                       *)
(***************************************************************************)
EXTENDS MCServices, TransfersProofs, ReportsProofs, FiniteSetTheorems, SequenceTheorems, TLAPS

-----------------------------------------------------------------------------
(***************************************************************************)
(* CredentialsInv is inductive, for any number of calls in flight and any  *)
(* limits.  Each conjunct is a lemma of its own: what a step does to the   *)
(* codes is CodesStep, and the rest follows call by call.                  *)
(***************************************************************************)

LEMMA CodesDomain ==
  ASSUME CredentialsTypeOK
  PROVE  /\ Len(codes) \in Nat
         /\ DOMAIN codes = 1 .. Len(codes)
         /\ \A c \in DOMAIN codes : codes[c] \in Code
         /\ codes = [c \in DOMAIN codes |-> codes[c]]
<1>1. codes \in Seq(Code)
  BY DEF CredentialsTypeOK
<1>2. codes \in [1 .. Len(codes) -> Code] /\ DOMAIN codes = 1 .. Len(codes)
      /\ Len(codes) \in Nat
  BY <1>1, LenProperties
<1> QED BY <1>2

(* What no step undoes: codes are not removed from the sequence nor moved, *)
(* one that is over stays over, one that was mailed stays mailed.          *)
CodesKept ==
  /\ DOMAIN codes \subseteq DOMAIN codes'
  /\ \A c \in DOMAIN codes :
       /\ codes'[c].purpose = codes[c].purpose
       /\ codes'[c].state = "active" => codes[c].state = "active"
       /\ codes[c].mailed => codes'[c].mailed

(* Codes changed in place, none of them for the worse. *)
LEMMA CodesInPlace ==
  ASSUME CredentialsTypeOK, DOMAIN codes' = DOMAIN codes,
         codes' = [c \in DOMAIN codes |-> codes'[c]],
         \A c \in DOMAIN codes :
           /\ codes'[c] \in Code
           /\ codes'[c].purpose = codes[c].purpose
           /\ codes'[c].state = "active" => codes[c].state = "active"
           /\ codes[c].mailed => codes'[c].mailed
  PROVE  codes' \in Seq(Code) /\ CodesKept
<1>1. codes' \in [1 .. Len(codes) -> Code] /\ Len(codes) \in Nat
  BY CodesDomain
<1>2. codes' \in Seq(Code)
  BY <1>1, SeqDef
<1>3. CodesKept
  BY DEF CodesKept
<1> QED BY <1>2, <1>3

(* Only an issue makes a code; every other step keeps their number.        *)
LEMMA CodesStep ==
  ASSUME CredentialsTypeOK, HeldOK, CredentialsNext
  PROVE  codes' \in Seq(Code) /\ CodesKept
<1> USE CodesDomain
<1>1. CASE UNCHANGED codes
  BY <1>1 DEF CredentialsTypeOK, CodesKept
<1>2. ASSUME NEW r \in Calls, DeleteUnconsumed(r)
      PROVE  codes' \in Seq(Code) /\ CodesKept
  BY <1>2, CodesInPlace DEF DeleteUnconsumed, Code
<1>3. ASSUME NEW r \in Calls, StoreCode(r)
      PROVE  codes' \in Seq(Code) /\ CodesKept
  <2> DEFINE new == [purpose |-> call[r].purpose, state |-> "active",
                     attempts |-> 0, mailed |-> FALSE]
  <2>1. new \in Code
    BY DEF CredentialsTypeOK, Call, Code
  <2>2. codes' = Append(codes, new) /\ codes \in Seq(Code)
    BY <1>3 DEF StoreCode, CredentialsTypeOK
  <2> HIDE DEF new
  <2>3. /\ codes' \in Seq(Code) /\ DOMAIN codes \subseteq DOMAIN codes'
        /\ \A c \in DOMAIN codes : codes'[c] = codes[c]
    BY <2>1, <2>2
  <2> QED BY <2>3 DEF CodesKept
<1>4. ASSUME NEW r \in Calls, MailCode(r)
      PROVE  codes' \in Seq(Code) /\ CodesKept
  BY <1>4, CodesInPlace DEF MailCode, Code
<1>5. ASSUME NEW r \in Calls, CountAttempt(r)
      PROVE  codes' \in Seq(Code) /\ CodesKept
  <2>1. call[r].held \in DOMAIN codes
    BY <1>5 DEF CountAttempt, HeldOK
  <2>2. codes[call[r].held].attempts + 1 \in Nat
    BY <2>1 DEF Code
  <2>3. PICK n \in Nat : codes' = [codes EXCEPT ![call[r].held].attempts = n]
    BY <1>5, <2>2 DEF CountAttempt
  <2> QED BY <2>3, CodesInPlace DEF Code
<1>6. ASSUME NEW r \in Calls, MarkConsumed(r)
      PROVE  codes' \in Seq(Code) /\ CodesKept
  BY <1>6, CodesInPlace DEF MarkConsumed, Code
<1>7. ASSUME NEW c \in DOMAIN codes, ExpireCode(c)
      PROVE  codes' \in Seq(Code) /\ CodesKept
  BY <1>7, CodesInPlace DEF ExpireCode, Code
<1> QED
  BY <1>1, <1>2, <1>3, <1>4, <1>5, <1>6, <1>7
  DEF CredentialsNext, CredentialStep, Register, ResendVerification, RequestPasswordReset,
      VerifyEmail, ConfirmPasswordReset, Login, CallArrives, InsertAccount, FindActive,
      UpdatePassword, MarkEmailVerified, ClearFailedLogin, ReadFailedLogin,
      SaveFailedLogin, CallFails, LockPasses

-----------------------------------------------------------------------------
(* What a step does to its call: it goes on to another stage, it ends, or  *)
(* it has just arrived. *)

OthersRest(r) == \A q \in Calls \ {r} : call'[q] = call[q]

GoesOn(r, stage, held) ==
  /\ OthersRest(r)
  /\ call'[r].at = stage /\ call'[r].held = held
  /\ call'[r].purpose = call[r].purpose /\ call'[r].guess = call[r].guess
  /\ call'[r].retired = call[r].retired

Ends(r) ==
  /\ OthersRest(r)
  /\ call'[r].at = "idle" /\ call'[r].held = 0 /\ call'[r].guess = 0
  /\ call'[r].retired = {}

LEMMA AwaitGoesOn ==
  ASSUME CredentialsTypeOK, NEW r \in Calls, NEW stage \in Stages, Await(r, stage)
  PROVE  call' \in [Calls -> Call] /\ GoesOn(r, stage, call[r].held)
  BY DEF CredentialsTypeOK, Call, Await, GoesOn, OthersRest

LEMMA AnswerEnds ==
  ASSUME CredentialsTypeOK, NEW r \in Calls, Answer(r)
  PROVE  call' \in [Calls -> Call] /\ Ends(r)
<1>1. Idle \in Call
  BY DEF Idle, Call, Purposes, Stages
<1> QED BY <1>1 DEF CredentialsTypeOK, Answer, Ends, OthersRest, Idle

LEMMA HoldGoesOn ==
  ASSUME CredentialsTypeOK, NEW r \in Calls, NEW stage \in Stages, NEW held \in Nat,
         call' = [call EXCEPT ![r].at = stage, ![r].held = held]
  PROVE  call' \in [Calls -> Call] /\ GoesOn(r, stage, held)
  BY DEF CredentialsTypeOK, Call, GoesOn, OthersRest

LEMMA SeenGoesOn ==
  ASSUME CredentialsTypeOK, NEW r \in Calls, NEW saw \in Nat,
         call' = [call EXCEPT ![r].at = "save", ![r].seen = saw]
  PROVE  call' \in [Calls -> Call] /\ GoesOn(r, "save", call[r].held)
  BY DEF CredentialsTypeOK, Call, Stages, GoesOn, OthersRest

(* A call that arrives holds no code and knows which are over. *)
Arrived(r, purpose, guess, stage) ==
  /\ OthersRest(r)
  /\ call'[r].at = stage /\ call'[r].held = 0
  /\ call'[r].purpose = purpose /\ call'[r].guess = guess
  /\ call'[r].retired = Retired(purpose)

LEMMA CallArrived ==
  ASSUME CredentialsTypeOK, NEW r \in Calls, NEW what \in {"register", "issue", "verify",
         "reset", "login"}, NEW purpose \in Purposes, NEW guess \in Nat, NEW stage \in Stages,
         CallArrives(r, what, purpose, guess, stage)
  PROVE  call' \in [Calls -> Call] /\ arrived' \in Nat /\ Arrived(r, purpose, guess, stage)
<1>1. Retired(purpose) \in SUBSET Nat
  BY CodesDomain DEF Retired, Of
<1>2. arrived' \in Nat
  BY DEF CallArrives, CredentialsTypeOK
<1> QED BY <1>1, <1>2 DEF CredentialsTypeOK, Call, CallArrives, Arrived, OthersRest

(* The ways a call steps, with what the invariant needs of each.           *)
Arrives(r) ==
  /\ UNCHANGED <<codes, won, crossed>>
  /\ \E purpose \in Purposes, guess \in Submitted,
        stage \in {"insert", "sweep", "find", "clear", "read"} :
       Arrived(r, purpose, guess, stage)

Sweeps(r) ==
  /\ GoesOn(r, "store", call[r].held)
  /\ \A c \in DOMAIN codes' : codes'[c].purpose = call[r].purpose => codes'[c].state # "active"
  /\ \A q \in Calls : call[q].at = "store" /\ call[q].purpose = call[r].purpose => crossed'

Finds(r) ==
  /\ UNCHANGED <<codes, won, crossed>>
  /\ \E c \in ActiveOf(call[r].purpose) :
       codes[c].attempts < MaxAttempts /\ GoesOn(r, "count", c)

Matches(r) ==
  /\ call[r].at = "count" /\ call[r].guess = call[r].held /\ call[r].held \in won'
  /\ GoesOn(r, "consume", call[r].held)

Accepts(r) ==
  /\ call[r].at \in {"consume", "password", "verified"}
  /\ \E stage \in {"password", "verified", "clear"} : GoesOn(r, stage, call[r].held)

PassesBy(r) ==
  \E stage \in {"sweep", "mail", "save"}, held \in Nat : GoesOn(r, stage, held)

CallSteps(r) ==
  /\ call' \in [Calls -> Call] /\ arrived' \in Nat
  /\ \/ Ends(r) \/ Arrives(r) \/ Sweeps(r) \/ Finds(r) \/ Matches(r) \/ Accepts(r)
     \/ PassesBy(r)

LEMMA HeldIsNat ==
  ASSUME CredentialsTypeOK, NEW r \in Calls
  PROVE  call[r].held \in Nat
  BY DEF CredentialsTypeOK, Call

(* Every handler steps in one of these ways. *)
LEMMA CallStepsOK ==
  ASSUME CredentialsTypeOK, NEW r \in Calls, CredentialStep(r)
  PROVE  CallSteps(r)
<1> USE HeldIsNat DEF CallSteps
<1>0. arrived \in Nat /\ Submitted \subseteq Nat /\ 0 \in Submitted
  BY CodesDomain DEF CredentialsTypeOK, Submitted
<1>1. ASSUME NEW what \in {"register", "issue", "verify", "reset", "login"},
             NEW purpose \in Purposes, NEW guess \in Submitted,
             NEW stage \in {"insert", "sweep", "find", "clear", "read"},
             CallArrives(r, what, purpose, guess, stage)
      PROVE  CallSteps(r)
  <2>1. stage \in Stages
    BY DEF Stages
  <2>2. call' \in [Calls -> Call] /\ arrived' \in Nat /\ Arrived(r, purpose, guess, stage)
    BY <1>0, <1>1, <2>1, CallArrived
  <2>3. UNCHANGED <<codes, won, crossed>>
    BY <1>1 DEF CallArrives
  <2> QED BY <2>2, <2>3 DEF Arrives
<1>2. CASE Register(r) \/ ResendVerification(r) \/ RequestPasswordReset(r)
           \/ VerifyEmail(r) \/ ConfirmPasswordReset(r) \/ Login(r)
  BY <1>0, <1>1, <1>2 DEF Register, ResendVerification, RequestPasswordReset, VerifyEmail,
     ConfirmPasswordReset, Login, Purposes
<1>3. ASSUME Answer(r), arrived' = arrived
      PROVE  CallSteps(r)
  BY <1>0, <1>3, AnswerEnds
<1>4. ASSUME NEW stage \in {"sweep", "mail", "save"}, Await(r, stage), arrived' = arrived
      PROVE  CallSteps(r)
  BY <1>0, <1>4, AwaitGoesOn DEF PassesBy, Stages
<1>5. CASE InsertAccount(r)
  BY <1>3, <1>4, <1>5 DEF InsertAccount
<1>6. CASE DeleteUnconsumed(r)
  <2>1. call' \in [Calls -> Call] /\ GoesOn(r, "store", call[r].held) /\ arrived' \in Nat
    BY <1>0, <1>6, AwaitGoesOn DEF DeleteUnconsumed, Stages
  <2>2. \A c \in DOMAIN codes' :
          codes'[c].purpose = call[r].purpose => codes'[c].state # "active"
    BY <1>6, CodesDomain DEF DeleteUnconsumed, ActiveOf, Of, Code
  <2>3. \A q \in Calls : call[q].at = "store" /\ call[q].purpose = call[r].purpose => crossed'
    BY <1>6 DEF DeleteUnconsumed
  <2> QED BY <2>1, <2>2, <2>3 DEF Sweeps
<1>7. CASE StoreCode(r)
  <2>1. Len(codes) + 1 \in Nat
    BY CodesDomain
  <2>2. call' = [call EXCEPT ![r].at = "mail", ![r].held = Len(codes) + 1]
        /\ arrived' = arrived
    BY <1>7 DEF StoreCode
  <2>3. call' \in [Calls -> Call] /\ GoesOn(r, "mail", Len(codes) + 1)
    BY <2>1, <2>2, HoldGoesOn DEF Stages
  <2> QED BY <1>0, <2>1, <2>2, <2>3 DEF PassesBy
<1>8. CASE MailCode(r) \/ CallFails(r) \/ ClearFailedLogin(r) \/ SaveFailedLogin(r)
  BY <1>3, <1>8 DEF MailCode, CallFails, ClearFailedLogin, SaveFailedLogin
<1>9. CASE FindActive(r)
  <2>1. CASE Answer(r)
    BY <1>3, <1>9, <2>1 DEF FindActive
  <2>2. ASSUME NEW c \in ActiveOf(call[r].purpose), codes[c].attempts < MaxAttempts,
               call' = [call EXCEPT ![r].at = "count", ![r].held = c]
        PROVE  CallSteps(r)
    <3>1. c \in Nat
      BY CodesDomain DEF ActiveOf, Of
    <3>2. call' \in [Calls -> Call] /\ GoesOn(r, "count", c)
      BY <2>2, <3>1, HoldGoesOn DEF Stages
    <3>3. arrived' = arrived /\ UNCHANGED <<codes, won, crossed>>
      BY <1>9 DEF FindActive
    <3> QED BY <1>0, <2>2, <3>2, <3>3 DEF Finds
  <2> QED BY <1>9, <2>1, <2>2 DEF FindActive
<1>10. CASE CountAttempt(r)
  <2>1. CASE call[r].guess = call[r].held
    <3>1. call[r].at = "count" /\ call[r].held \in won' /\ Await(r, "consume")
          /\ arrived' = arrived
      BY <1>10, <2>1 DEF CountAttempt
    <3>2. call' \in [Calls -> Call] /\ GoesOn(r, "consume", call[r].held)
      BY <3>1, AwaitGoesOn DEF Stages
    <3> QED BY <1>0, <2>1, <3>1, <3>2 DEF Matches
  <2>2. CASE call[r].guess # call[r].held
    BY <1>3, <1>10, <2>2 DEF CountAttempt
  <2> QED BY <2>1, <2>2
<1>11. ASSUME call[r].at \in {"consume", "password", "verified"}, arrived' = arrived,
              NEW stage \in {"password", "verified", "clear"}, Await(r, stage)
       PROVE  CallSteps(r)
  BY <1>0, <1>11, AwaitGoesOn DEF Accepts, Stages
<1>12. CASE MarkConsumed(r)
  BY <1>11, <1>12 DEF MarkConsumed
<1>13. CASE UpdatePassword(r)
  BY <1>11, <1>13 DEF UpdatePassword
<1>14. CASE MarkEmailVerified(r)
  BY <1>3, <1>11, <1>14 DEF MarkEmailVerified
<1>15. CASE ReadFailedLogin(r)
  <2>1. account.failed \in Nat
    BY DEF CredentialsTypeOK, Account
  <2> QED BY <1>0, <1>15, <2>1, SeenGoesOn DEF ReadFailedLogin, PassesBy
<1> QED
  BY <1>2, <1>5, <1>6, <1>7, <1>8, <1>9, <1>10, <1>12, <1>13, <1>14, <1>15
  DEF CredentialStep

-----------------------------------------------------------------------------
(* The conjuncts, one lemma each *)

(* A step is one of a call, or the calls rest. *)
LEMMA WhoSteps ==
  ASSUME CredentialsTypeOK, CredentialsNext
  PROVE  \/ \E r \in Calls : CredentialStep(r) /\ CallSteps(r)
         \/ UNCHANGED <<call, won, crossed, arrived, misses, lost>> /\ DOMAIN codes' = DOMAIN codes
<1>1. ASSUME NEW c \in DOMAIN codes, ExpireCode(c)
      PROVE  UNCHANGED <<call, won, crossed, arrived, misses, lost>> /\ DOMAIN codes' = DOMAIN codes
  BY <1>1, CodesDomain DEF ExpireCode
<1>2. CASE LockPasses
  BY <1>2 DEF LockPasses
<1> QED BY <1>1, <1>2, CallStepsOK DEF CredentialsNext

LEMMA HistoryGrows ==
  ASSUME CredentialsTypeOK, CredentialsNext
  PROVE  won \subseteq won' /\ (crossed => crossed') /\ (lost => lost')
<1>1. ASSUME NEW r \in Calls, CountAttempt(r)
      PROVE  won \subseteq won' /\ UNCHANGED <<crossed, lost>>
  BY <1>1 DEF CountAttempt
<1>2. ASSUME NEW r \in Calls, DeleteUnconsumed(r)
      PROVE  UNCHANGED <<won, lost>> /\ (crossed => crossed')
  BY <1>2 DEF DeleteUnconsumed
<1>3. ASSUME NEW r \in Calls, SaveFailedLogin(r)
      PROVE  UNCHANGED <<won, crossed>> /\ (lost => lost')
  BY <1>3 DEF SaveFailedLogin
<1>4. ASSUME NEW r \in Calls, CredentialStep(r),
             ~CountAttempt(r), ~DeleteUnconsumed(r), ~SaveFailedLogin(r)
      PROVE  UNCHANGED <<won, crossed, lost>>
  BY <1>4 DEF CredentialStep, Register, ResendVerification, RequestPasswordReset,
      VerifyEmail, ConfirmPasswordReset, Login, CallArrives, InsertAccount,
      StoreCode, MailCode, FindActive, MarkConsumed, UpdatePassword,
      MarkEmailVerified, ClearFailedLogin, ReadFailedLogin, CallFails
<1> QED BY <1>1, <1>2, <1>3, <1>4, WhoSteps

(* Only StoreCode makes a code: active, mailed to nobody, never tried. *)
LEMMA StoredCode ==
  ASSUME CredentialsTypeOK, NEW r \in Calls, StoreCode(r)
  PROVE  /\ DOMAIN codes' = DOMAIN codes \cup {Len(codes) + 1}
         /\ \A c \in DOMAIN codes : codes'[c] = codes[c] /\ c < Len(codes) + 1
         /\ codes'[Len(codes) + 1].purpose = call[r].purpose
         /\ codes'[Len(codes) + 1].state = "active"
         /\ codes'[Len(codes) + 1].attempts = 0
<1> DEFINE new == [purpose |-> call[r].purpose, state |-> "active",
                   attempts |-> 0, mailed |-> FALSE]
<1>1. new \in Code
  BY DEF CredentialsTypeOK, Call, Code
<1>2. codes' = Append(codes, new) /\ codes \in Seq(Code)
  BY DEF StoreCode, CredentialsTypeOK
<1>3. new.purpose = call[r].purpose /\ new.state = "active" /\ new.attempts = 0
  OBVIOUS
<1> HIDE DEF new
<1> QED BY <1>1, <1>2, <1>3, CodesDomain

LEMMA NoNewCode ==
  ASSUME CredentialsTypeOK, CredentialsNext, \A r \in Calls : ~StoreCode(r)
  PROVE  DOMAIN codes' = DOMAIN codes
<1> USE CodesDomain
<1>1. ASSUME NEW r \in Calls, CredentialStep(r)
      PROVE  DOMAIN codes' = DOMAIN codes
  BY <1>1 DEF CredentialStep, Register, ResendVerification, RequestPasswordReset,
      VerifyEmail, ConfirmPasswordReset, Login, CallArrives, InsertAccount, DeleteUnconsumed,
      MailCode, FindActive, CountAttempt, MarkConsumed,
      UpdatePassword, MarkEmailVerified, ClearFailedLogin, ReadFailedLogin,
      SaveFailedLogin, CallFails
<1> QED BY <1>1, WhoSteps

LEMMA HeldStep ==
  ASSUME CredentialsTypeOK, HeldOK, CredentialsNext
  PROVE  HeldOK'
<1>1. CodesKept /\ won \subseteq won' /\ won \subseteq DOMAIN codes
  BY CodesStep, HistoryGrows DEF CredentialsTypeOK
<1> SUFFICES ASSUME NEW q \in Calls
    PROVE  /\ call'[q].at = "count" => call'[q].held \in DOMAIN codes'
           /\ call'[q].at \in {"consume", "password", "verified"} =>
                call'[q].held \in won' /\ codes'[call'[q].held].mailed
           /\ call'[q].guess # 0 => call'[q].guess \in DOMAIN codes'
                                    /\ codes'[call'[q].guess].mailed
  BY DEF HeldOK
<1>2. CASE call'[q] = call[q]
  BY <1>1, <1>2 DEF HeldOK, CodesKept
<1>3. CASE call'[q] # call[q]
  <2>1. CallSteps(q)
    <3>1. PICK r \in Calls : CallSteps(r)
      BY <1>3, WhoSteps
    <3>2. r = q
      BY <1>3, <3>1
      DEF CallSteps, Ends, Arrives, Arrived, Sweeps, Finds, Matches, Accepts, PassesBy,
          GoesOn, OthersRest
    <3> QED BY <3>1, <3>2
  <2>2. CASE Ends(q)
    BY <2>2 DEF Ends
  <2>3. CASE Arrives(q)
    BY <2>3 DEF Arrives, Arrived, Submitted
  <2>4. CASE Finds(q)
    BY <2>4 DEF Finds, GoesOn, ActiveOf, Of, HeldOK
  <2>5. CASE Matches(q)
    <3>1. call[q].held \in DOMAIN codes /\ codes[call[q].held].mailed
      <4>1. call[q].held \in DOMAIN codes /\ call[q].guess = call[q].held
        BY <2>5 DEF Matches, HeldOK
      <4>2. call[q].held # 0
        BY <4>1, CodesDomain
      <4> QED BY <4>1, <4>2 DEF HeldOK
    <3> QED BY <1>1, <2>5, <3>1 DEF Matches, GoesOn, HeldOK, CodesKept
  <2>6. CASE Accepts(q)
    BY <1>1, <2>6 DEF Accepts, GoesOn, HeldOK, CodesKept
  <2>7. CASE Sweeps(q) \/ PassesBy(q)
    BY <1>1, <2>7 DEF Sweeps, PassesBy, GoesOn, HeldOK, CodesKept
  <2> QED BY <2>1, <2>2, <2>3, <2>4, <2>5, <2>6, <2>7 DEF CallSteps
<1> QED BY <1>2, <1>3

LEMMA RetiredStep ==
  ASSUME CredentialsTypeOK, HeldOK, IssuesApart, RetiredOK, CredentialsNext
  PROVE  RetiredOK'
<1>1. CodesKept /\ (crossed => crossed')
  BY CodesStep, HistoryGrows
<1> SUFFICES ASSUME NEW q \in Calls
    PROVE  /\ call'[q].retired \subseteq DOMAIN codes'
           /\ ~crossed' => \A c \in call'[q].retired : codes'[c].state # "active"
           /\ ~crossed' /\ call'[q].at \in {"count", "consume", "password", "verified", "clear"}
                => call'[q].held \notin call'[q].retired
  BY DEF RetiredOK
<1>2. ASSUME call'[q].retired = call[q].retired
      PROVE  /\ call'[q].retired \subseteq DOMAIN codes'
             /\ ~crossed' => \A c \in call'[q].retired : codes'[c].state # "active"
  BY <1>1, <1>2 DEF RetiredOK, CodesKept
<1>3. CASE call'[q] = call[q]
  BY <1>1, <1>2, <1>3 DEF RetiredOK
<1>4. CASE call'[q] # call[q]
  <2>1. CallSteps(q)
    <3>1. PICK r \in Calls : CallSteps(r)
      BY <1>4, WhoSteps
    <3>2. r = q
      BY <1>4, <3>1
      DEF CallSteps, Ends, Arrives, Arrived, Sweeps, Finds, Matches, Accepts, PassesBy,
          GoesOn, OthersRest
    <3> QED BY <3>1, <3>2
  <2>2. CASE Ends(q)
    BY <2>2 DEF Ends
  <2>3. CASE Arrives(q)
    <3>1. PICK purpose \in Purposes : call'[q].retired = Retired(purpose) /\ call'[q].held = 0
      BY <2>3 DEF Arrives, Arrived
    <3>2. ~crossed => \A c \in Retired(purpose) : codes[c].state # "active"
      BY CodesDomain DEF Retired, Of, IssuesApart
    <3> QED BY <2>3, <3>1, <3>2, CodesDomain DEF Arrives, Retired, Of
  <2>4. CASE Finds(q)
    <3>1. PICK c \in ActiveOf(call[q].purpose) : GoesOn(q, "count", c)
      BY <2>4 DEF Finds
    <3>2. ~crossed => c \notin call[q].retired
      BY DEF ActiveOf, Of, RetiredOK
    <3> QED BY <1>1, <1>2, <3>1, <3>2 DEF GoesOn
  <2>5. CASE Matches(q)
    BY <1>1, <1>2, <2>5 DEF Matches, GoesOn, RetiredOK
  <2>6. CASE Accepts(q)
    BY <1>1, <1>2, <2>6 DEF Accepts, GoesOn, RetiredOK
  <2>7. CASE Sweeps(q) \/ PassesBy(q)
    BY <1>2, <2>7 DEF Sweeps, PassesBy, GoesOn
  <2> QED BY <2>1, <2>2, <2>3, <2>4, <2>5, <2>6, <2>7 DEF CallSteps
<1> QED BY <1>3, <1>4

LEMMA ApartStep ==
  ASSUME CredentialsTypeOK, HeldOK, IssuesApart, CredentialsNext
  PROVE  IssuesApart'
<1>1. CodesKept /\ (crossed => crossed')
  BY CodesStep, HistoryGrows
<1> SUFFICES ASSUME ~crossed'
    PROVE
      /\ \A q \in Calls, r \in Calls :
           call'[q].at = "store" /\ call'[r].at = "store" /\ call'[q].purpose = call'[r].purpose
             => q = r
      /\ \A r \in Calls, c \in DOMAIN codes' :
           call'[r].at = "store" /\ codes'[c].purpose = call'[r].purpose
             => codes'[c].state # "active"
      /\ \A c, d \in DOMAIN codes' :
           codes'[c].purpose = codes'[d].purpose /\ codes'[c].state = "active" => d <= c
  BY DEF IssuesApart
<1>2. ASSUME NEW r \in Calls, StoreCode(r)
      PROVE  IssuesApart'
  <2>1. GoesOn(r, "mail", Len(codes) + 1) /\ call[r].at = "store"
    <3>1. call' = [call EXCEPT ![r].at = "mail", ![r].held = Len(codes) + 1]
      BY <1>2 DEF StoreCode
    <3>2. Len(codes) + 1 \in Nat
      BY CodesDomain
    <3>3. GoesOn(r, "mail", Len(codes) + 1)
      BY <3>1, <3>2, HoldGoesOn DEF Stages
    <3> QED BY <1>2, <3>3 DEF StoreCode
  <2>2. \A q \in Calls : call'[q].at = "store" => q # r /\ call'[q] = call[q]
    BY <2>1 DEF GoesOn, OthersRest
  <2>3. \A c \in DOMAIN codes : codes[c].purpose = call[r].purpose => codes[c].state # "active"
    BY <1>1, <2>1 DEF IssuesApart
  <2>4. \A q \in Calls : call'[q].at = "store" => call[q].purpose # call[r].purpose
    BY <1>1, <2>1, <2>2 DEF IssuesApart
  <2>5. \A c, d \in DOMAIN codes' :
           codes'[c].purpose = codes'[d].purpose /\ codes'[c].state = "active" => d <= c
    BY <1>1, <1>2, <2>3, StoredCode, CodesDomain DEF IssuesApart
  <2>6. \A q \in Calls, c \in DOMAIN codes' :
          call'[q].at = "store" /\ codes'[c].purpose = call'[q].purpose
            => codes'[c].state # "active"
    BY <1>1, <1>2, <2>2, <2>4, StoredCode DEF IssuesApart
  <2>7. \A q \in Calls, p \in Calls :
          call'[q].at = "store" /\ call'[p].at = "store" /\ call'[q].purpose = call'[p].purpose
            => q = p
    BY <1>1, <2>2 DEF IssuesApart
  <2> QED BY <2>5, <2>6, <2>7 DEF IssuesApart
<1>3. CASE \A r \in Calls : ~StoreCode(r)
  <2>1. DOMAIN codes' = DOMAIN codes
    BY <1>3, NoNewCode
  <2>2. \A c, d \in DOMAIN codes' :
           codes'[c].purpose = codes'[d].purpose /\ codes'[c].state = "active" => d <= c
    BY <1>1, <2>1 DEF CodesKept, IssuesApart
  <2>3. CASE \A q \in Calls : call'[q].at = "store" => call'[q] = call[q]
    <3>1. \A q \in Calls, c \in DOMAIN codes' :
            call'[q].at = "store" /\ codes'[c].purpose = call'[q].purpose
              => codes'[c].state # "active"
      BY <1>1, <2>1, <2>3 DEF CodesKept, IssuesApart
    <3>2. \A q \in Calls, p \in Calls :
            call'[q].at = "store" /\ call'[p].at = "store" /\ call'[q].purpose = call'[p].purpose
              => q = p
      BY <1>1, <2>3 DEF IssuesApart
    <3> QED BY <2>2, <3>1, <3>2
  <2>4. CASE \E q \in Calls : call'[q].at = "store" /\ call'[q] # call[q]
    <3>1. PICK r \in Calls : Sweeps(r)
      <4>1. PICK q \in Calls : call'[q].at = "store" /\ call'[q] # call[q]
        BY <2>4
      <4>2. PICK r \in Calls : CallSteps(r)
        BY <4>1, WhoSteps
      <4>3. OthersRest(r)
        BY <4>2 DEF CallSteps, Ends, Arrives, Arrived, Sweeps, Finds, Matches, Accepts,
                    PassesBy, GoesOn
      <4>4. q = r
        BY <4>1, <4>3 DEF OthersRest
      <4>5. ~Ends(r) /\ ~Finds(r) /\ ~Matches(r)
        BY <4>1, <4>4 DEF Ends, Finds, Matches, GoesOn
      <4>6. ~Arrives(r) /\ ~Accepts(r) /\ ~PassesBy(r)
        BY <4>1, <4>4 DEF Arrives, Arrived, Accepts, PassesBy, GoesOn
      <4> QED BY <4>2, <4>5, <4>6 DEF CallSteps
    <3>2. \A q \in Calls \ {r} : call'[q] = call[q]
      BY <3>1 DEF Sweeps, GoesOn, OthersRest
    <3>3. call'[r].purpose = call[r].purpose
      BY <3>1 DEF Sweeps, GoesOn
    <3>4. \A q \in Calls, c \in DOMAIN codes' :
            call'[q].at = "store" /\ codes'[c].purpose = call'[q].purpose
              => codes'[c].state # "active"
      BY <1>1, <2>1, <3>1, <3>2, <3>3 DEF Sweeps, CodesKept, IssuesApart
    <3>5. \A q \in Calls \ {r} : call[q].at = "store" => call[q].purpose # call[r].purpose
      BY <3>1 DEF Sweeps
    <3>6. \A q \in Calls, p \in Calls :
            call'[q].at = "store" /\ call'[p].at = "store" /\ call'[q].purpose = call'[p].purpose
              => q = p
      BY <1>1, <3>2, <3>3, <3>5 DEF IssuesApart
    <3> QED BY <2>2, <3>4, <3>6
  <2> QED BY <2>3, <2>4
<1> QED BY <1>2, <1>3 DEF IssuesApart

LEMMA CountingFinite ==
  ASSUME NEW c
  PROVE  /\ Cardinality(Counting(c)) \in Nat /\ Cardinality(Calls) \in Nat
         /\ Cardinality(Counting(c)) <= Cardinality(Calls)
         /\ IsFiniteSet(Counting(c))
<1>1. Counting(c) \in SUBSET Calls
  BY DEF Counting
<1> QED BY <1>1, FS_Subset, FS_CardinalityType, CredentialsAssumption

(* Only CountAttempt counts. *)
LEMMA AttemptsKept ==
  ASSUME CredentialsTypeOK, CredentialsNext, \A r \in Calls : ~CountAttempt(r),
         NEW c \in DOMAIN codes
  PROVE  codes'[c].attempts = codes[c].attempts
<1> USE CodesDomain DEF Code
<1>1. ASSUME NEW r \in Calls, DeleteUnconsumed(r)
      PROVE  codes'[c].attempts = codes[c].attempts
  BY <1>1 DEF DeleteUnconsumed
<1>2. ASSUME NEW r \in Calls, StoreCode(r)
      PROVE  codes'[c].attempts = codes[c].attempts
  BY <1>2, StoredCode
<1>3. ASSUME NEW r \in Calls, MailCode(r)
      PROVE  codes'[c].attempts = codes[c].attempts
  BY <1>3 DEF MailCode
<1>4. ASSUME NEW r \in Calls, MarkConsumed(r)
      PROVE  codes'[c].attempts = codes[c].attempts
  BY <1>4 DEF MarkConsumed
<1>5. ASSUME NEW d \in DOMAIN codes, ExpireCode(d)
      PROVE  codes'[c].attempts = codes[c].attempts
  BY <1>5 DEF ExpireCode
<1>6. CASE UNCHANGED codes
  BY <1>6
<1> QED
  BY <1>1, <1>2, <1>3, <1>4, <1>5, <1>6
  DEF CredentialsNext, CredentialStep, Register, ResendVerification, RequestPasswordReset,
      VerifyEmail, ConfirmPasswordReset, Login, CallArrives, InsertAccount, FindActive,
      UpdatePassword, MarkEmailVerified, ClearFailedLogin, ReadFailedLogin,
      SaveFailedLogin, CallFails, LockPasses

LEMMA CountsStep ==
  ASSUME CredentialsTypeOK, HeldOK, CountsBounded, CredentialsNext
  PROVE  CountsBounded'
<1>1. MaxAttempts \in Nat \ {0} /\ \A c \in DOMAIN codes : codes[c].attempts \in Nat
  BY CredentialsAssumption, CodesDomain DEF Code
<1> SUFFICES ASSUME NEW c \in DOMAIN codes'
    PROVE  codes'[c].attempts + Cardinality(Counting(c)')
             <= MaxAttempts + Cardinality(Calls) - 1
  BY DEF CountsBounded
<1>2. /\ Cardinality(Counting(c)) \in Nat /\ Cardinality(Calls) \in Nat
      /\ IsFiniteSet(Counting(c))
      /\ Cardinality(Counting(c)') \in Nat
      /\ Cardinality(Counting(c)') <= Cardinality(Calls)
  <2>1. Counting(c)' \in SUBSET Calls
    BY DEF Counting
  <2> QED BY <2>1, FS_Subset, FS_CardinalityType, CredentialsAssumption, CountingFinite
<1>3. ASSUME c \in DOMAIN codes, codes'[c].attempts = codes[c].attempts,
             Counting(c)' \subseteq Counting(c)
      PROVE  codes'[c].attempts + Cardinality(Counting(c)')
               <= MaxAttempts + Cardinality(Calls) - 1
  <2>1. Cardinality(Counting(c)') <= Cardinality(Counting(c))
    BY <1>2, <1>3, FS_Subset
  <2>2. codes[c].attempts + Cardinality(Counting(c)) <= MaxAttempts + Cardinality(Calls) - 1
    BY <1>3 DEF CountsBounded
  <2> QED BY <1>1, <1>2, <1>3, <2>1, <2>2
<1>4. ASSUME NEW r \in Calls, StoreCode(r), c \notin DOMAIN codes
      PROVE  codes'[c].attempts + Cardinality(Counting(c)')
               <= MaxAttempts + Cardinality(Calls) - 1
  <2>1. codes'[c].attempts = 0
    BY <1>4, StoredCode
  <2> QED BY <1>1, <1>2, <2>1
<1>5. ASSUME NEW r \in Calls, CountAttempt(r)
      PROVE  codes'[c].attempts + Cardinality(Counting(c)')
               <= MaxAttempts + Cardinality(Calls) - 1
  <2>1. /\ DOMAIN codes' = DOMAIN codes /\ call[r].at = "count"
        /\ call[r].held \in DOMAIN codes
    BY <1>5, CodesDomain DEF CountAttempt, HeldOK
  <2>2. OthersRest(r) /\ call'[r].at # "count"
    <3>1. CASE Answer(r)
      BY <3>1, AnswerEnds DEF Ends
    <3>2. CASE Await(r, "consume")
      BY <3>2, AwaitGoesOn DEF GoesOn, Stages
    <3> QED BY <1>5, <3>1, <3>2 DEF CountAttempt
  <2>3. Counting(c)' = Counting(c) \ {r}
    BY <2>2 DEF Counting, OthersRest
  <2>4. CASE c # call[r].held
    <3>1. codes'[c] = codes[c]
      BY <1>5, <2>1, <2>4, CodesDomain DEF CountAttempt
    <3> QED BY <1>3, <2>1, <2>3, <3>1
  <2>5. CASE c = call[r].held
    <3>1. r \in Counting(c)
      BY <2>1, <2>5 DEF Counting
    <3>2. Cardinality(Counting(c)') = Cardinality(Counting(c)) - 1
      BY <1>2, <2>3, <3>1, FS_RemoveElement
    <3>3. codes'[c].attempts = codes[c].attempts + 1
      <4>1. codes' = [codes EXCEPT ![c].attempts = codes[c].attempts + 1]
        BY <1>5, <2>5 DEF CountAttempt
      <4>2. codes[c] \in Code
        BY <2>1, <2>5, CodesDomain
      <4> QED BY <2>1, <2>5, <4>1, <4>2, CodesDomain DEF Code
    <3>4. codes[c].attempts + Cardinality(Counting(c)) <= MaxAttempts + Cardinality(Calls) - 1
      BY <2>1, <2>5 DEF CountsBounded
    <3> QED BY <1>1, <1>2, <2>1, <2>5, <3>2, <3>3, <3>4
  <2> QED BY <2>4, <2>5
<1>6. CASE \A r \in Calls : ~CountAttempt(r)
  <2>1. CASE c \notin DOMAIN codes
    BY <1>4, <2>1, NoNewCode
  <2>2. CASE c \in DOMAIN codes
    <3>1. codes'[c].attempts = codes[c].attempts
      BY <1>6, <2>2, AttemptsKept
    <3>2. CASE Counting(c)' \subseteq Counting(c)
      BY <1>3, <2>2, <3>1, <3>2
    <3>3. CASE \E q \in Calls : q \in Counting(c)' /\ q \notin Counting(c)
      <4>1. PICK q \in Calls : /\ call'[q].at = "count" /\ call'[q].held = c
                               /\ q \notin Counting(c)
        BY <3>3 DEF Counting
      <4>2. call'[q] # call[q]
        BY <4>1 DEF Counting
      <4>3. PICK r \in Calls : CallSteps(r)
        BY <4>2, WhoSteps
      <4>4. OthersRest(r)
        BY <4>3 DEF CallSteps, Ends, Arrives, Arrived, Sweeps, Finds, Matches, Accepts,
                    PassesBy, GoesOn
      <4>5. q = r
        BY <4>2, <4>4 DEF OthersRest
      <4>6. Finds(r)
        <5>1. ~Ends(r) /\ ~Sweeps(r) /\ ~Matches(r)
          BY <4>1, <4>5 DEF Ends, Sweeps, Matches, GoesOn
        <5>2. ~Arrives(r) /\ ~Accepts(r) /\ ~PassesBy(r)
          BY <4>1, <4>5 DEF Arrives, Arrived, Accepts, PassesBy, GoesOn
        <5> QED BY <4>3, <5>1, <5>2 DEF CallSteps
      <4>7. codes[c].attempts < MaxAttempts
        BY <4>1, <4>5, <4>6 DEF Finds, GoesOn
      <4> QED BY <1>1, <1>2, <2>2, <3>1, <4>7
    <3> QED BY <3>2, <3>3 DEF Counting
  <2> QED BY <2>1, <2>2
<1> QED BY <1>5, <1>6

(* An address is verified by a call that was told its code is right.       *)
LEMMA VerifiedStep ==
  ASSUME CredentialsTypeOK, HeldOK, VerifiedProvesInbox, CredentialsNext
  PROVE  VerifiedProvesInbox'
<1>1. CodesKept /\ won \subseteq won' /\ won \subseteq DOMAIN codes
  BY CodesStep, HistoryGrows DEF CredentialsTypeOK
<1>2. ASSUME \E c \in won : codes[c].mailed
      PROVE  VerifiedProvesInbox'
  BY <1>1, <1>2 DEF VerifiedProvesInbox, CodesKept
<1>3. ASSUME NEW r \in Calls, MarkEmailVerified(r)
      PROVE  VerifiedProvesInbox'
  BY <1>2, <1>3 DEF MarkEmailVerified, HeldOK
<1>4. CASE account'.verified = account.verified
  BY <1>2, <1>4 DEF VerifiedProvesInbox
<1>5. ASSUME \A r \in Calls : ~MarkEmailVerified(r)
      PROVE  account'.verified = account.verified
  <2> USE DEF CredentialsTypeOK, Account
  <2>1. ASSUME NEW r \in Calls, InsertAccount(r)
        PROVE  account'.verified = account.verified
    BY <2>1 DEF InsertAccount
  <2>2. ASSUME NEW r \in Calls, ClearFailedLogin(r)
        PROVE  account'.verified = account.verified
    BY <2>2 DEF ClearFailedLogin
  <2>3. ASSUME NEW r \in Calls, SaveFailedLogin(r)
        PROVE  account'.verified = account.verified
    BY <2>3 DEF SaveFailedLogin
  <2>4. CASE LockPasses
    BY <2>4 DEF LockPasses
  <2>5. CASE UNCHANGED account
    BY <2>5
  <2> QED
    BY <1>5, <2>1, <2>2, <2>3, <2>4, <2>5
    DEF CredentialsNext, CredentialStep, Register, ResendVerification, RequestPasswordReset,
        VerifyEmail, ConfirmPasswordReset, Login, CallArrives, DeleteUnconsumed, StoreCode,
        MailCode, FindActive, CountAttempt, MarkConsumed, UpdatePassword, ReadFailedLogin,
        CallFails, ExpireCode
<1> QED BY <1>3, <1>4, <1>5

(* What a save writes, of a counter seen as n - 1. *)
LEMMA SavedCounter ==
  ASSUME CredentialsTypeOK, NEW r \in Calls, SaveFailedLogin(r)
  PROVE  /\ account' \in Account
         /\ account'.failed = IF call[r].seen + 1 >= MaxFailed THEN 0 ELSE call[r].seen + 1
<1>1. PICK n \in Nat : n = call[r].seen + 1
  BY DEF CredentialsTypeOK, Call
<1>2. account' = IF n >= MaxFailed THEN [account EXCEPT !.failed = 0, !.locked = TRUE]
                                   ELSE [account EXCEPT !.failed = n]
  BY <1>1 DEF SaveFailedLogin
<1>3. account \in Account
  BY DEF CredentialsTypeOK
<1>4. CASE n >= MaxFailed
  <2>1. account' = [account EXCEPT !.failed = 0, !.locked = TRUE]
    BY <1>2, <1>4
  <2>2. account' \in Account /\ account'.failed = 0
    BY <1>3, <2>1 DEF Account
  <2> QED BY <1>1, <1>4, <2>2
<1>5. CASE ~(n >= MaxFailed)
  <2>1. account' = [account EXCEPT !.failed = n]
    BY <1>2, <1>5
  <2>2. account' \in Account /\ account'.failed = n
    BY <1>3, <2>1 DEF Account
  <2> QED BY <1>1, <1>5, <2>2
<1> QED BY <1>4, <1>5

LEMMA LockoutStep ==
  ASSUME CredentialsTypeOK, LockoutCounts, CredentialsNext
  PROVE  LockoutCounts'
<1>1. MaxFailed \in Nat \ {0}
  BY CredentialsAssumption
<1>2. ASSUME NEW r \in Calls, SaveFailedLogin(r)
      PROVE  LockoutCounts'
  <2>1. call[r].seen \in Nat /\ misses \in Nat
    BY DEF CredentialsTypeOK, Call
  <2>2. /\ misses' = IF account'.failed = 0 THEN 0 ELSE misses + 1
        /\ ~lost' => ~lost /\ call[r].seen = account.failed
    BY <1>2 DEF SaveFailedLogin
  <2> QED BY <1>1, <1>2, <2>1, <2>2, SavedCounter DEF LockoutCounts
<1>3. ASSUME NEW r \in Calls, ClearFailedLogin(r)
      PROVE  LockoutCounts'
  <2>1. account'.failed = 0
    BY <1>3 DEF ClearFailedLogin, CredentialsTypeOK, Account
  <2> QED BY <1>1, <1>3, <2>1 DEF ClearFailedLogin, LockoutCounts
<1>4. CASE account'.failed = account.failed /\ misses' = misses
  BY <1>4, HistoryGrows DEF LockoutCounts
<1>5. ASSUME \A r \in Calls : ~SaveFailedLogin(r) /\ ~ClearFailedLogin(r)
      PROVE  account'.failed = account.failed /\ misses' = misses
  <2> USE DEF CredentialsTypeOK, Account
  <2>1. ASSUME NEW r \in Calls, InsertAccount(r)
        PROVE  account'.failed = account.failed /\ misses' = misses
    BY <2>1 DEF InsertAccount
  <2>2. ASSUME NEW r \in Calls, MarkEmailVerified(r)
        PROVE  account'.failed = account.failed /\ misses' = misses
    BY <2>2 DEF MarkEmailVerified
  <2>3. CASE LockPasses
    BY <2>3 DEF LockPasses
  <2>4. CASE UNCHANGED <<account, misses>>
    BY <2>4
  <2> QED
    BY <1>5, <2>1, <2>2, <2>3, <2>4
    DEF CredentialsNext, CredentialStep, Register, ResendVerification, RequestPasswordReset,
        VerifyEmail, ConfirmPasswordReset, Login, CallArrives, DeleteUnconsumed, StoreCode,
        MailCode, FindActive, CountAttempt, MarkConsumed, UpdatePassword, ReadFailedLogin,
        CallFails, ExpireCode
<1> QED BY <1>2, <1>3, <1>4, <1>5

LEMMA AccountStep ==
  ASSUME CredentialsTypeOK, CredentialsNext
  PROVE  account' \in Account
<1>1. account \in Account
  BY DEF CredentialsTypeOK
<1>2. ASSUME NEW r \in Calls, InsertAccount(r)
      PROVE  account' \in Account
  BY <1>1, <1>2 DEF InsertAccount, Account
<1>3. ASSUME NEW r \in Calls, MarkEmailVerified(r)
      PROVE  account' \in Account
  BY <1>1, <1>3 DEF MarkEmailVerified, Account
<1>4. ASSUME NEW r \in Calls, ClearFailedLogin(r)
      PROVE  account' \in Account
  BY <1>1, <1>4 DEF ClearFailedLogin, Account
<1>5. CASE LockPasses
  BY <1>1, <1>5 DEF LockPasses, Account
<1>6. CASE UNCHANGED account
  BY <1>1, <1>6
<1> QED
  BY <1>2, <1>3, <1>4, <1>5, <1>6, SavedCounter
  DEF CredentialsNext, CredentialStep, Register, ResendVerification, RequestPasswordReset,
      VerifyEmail, ConfirmPasswordReset, Login, CallArrives, DeleteUnconsumed, StoreCode,
      MailCode, FindActive, CountAttempt, MarkConsumed, UpdatePassword, ReadFailedLogin,
      CallFails, ExpireCode

HistoryTyped ==
  won \subseteq DOMAIN codes /\ misses \in Nat /\ crossed \in BOOLEAN /\ lost \in BOOLEAN

LEMMA TypeStep ==
  ASSUME CredentialsTypeOK, HeldOK, CredentialsNext
  PROVE  CredentialsTypeOK'
<1>1. codes' \in Seq(Code) /\ DOMAIN codes \subseteq DOMAIN codes'
  BY CodesStep DEF CodesKept
<1>2. call' \in [Calls -> Call] /\ arrived' \in Nat
  BY WhoSteps DEF CallSteps, CredentialsTypeOK
<1>3. HistoryTyped'
  <2> USE <1>1 DEF CredentialsTypeOK, HistoryTyped
  <2>1. ASSUME NEW r \in Calls, DeleteUnconsumed(r)
        PROVE  HistoryTyped'
    BY <2>1 DEF DeleteUnconsumed
  <2>2. ASSUME NEW r \in Calls, CountAttempt(r)
        PROVE  HistoryTyped'
    BY <2>2 DEF CountAttempt, HeldOK
  <2>3. ASSUME NEW r \in Calls, SaveFailedLogin(r)
        PROVE  HistoryTyped'
    <3>1. misses' \in {0, misses + 1} /\ misses + 1 \in Nat
      BY <2>3 DEF SaveFailedLogin
    <3>2. UNCHANGED <<won, crossed>> /\ lost' \in BOOLEAN
      BY <2>3 DEF SaveFailedLogin
    <3> QED BY <3>1, <3>2
  <2>4. ASSUME NEW r \in Calls, ClearFailedLogin(r)
        PROVE  HistoryTyped'
    BY <2>4 DEF ClearFailedLogin
  <2>5. CASE UNCHANGED <<won, misses, crossed, lost>>
    BY <2>5
  <2> QED
    BY <2>1, <2>2, <2>3, <2>4, <2>5
    DEF CredentialsNext, CredentialStep, Register, ResendVerification, RequestPasswordReset,
        VerifyEmail, ConfirmPasswordReset, Login, CallArrives, InsertAccount, StoreCode,
        MailCode, FindActive, MarkConsumed, UpdatePassword, MarkEmailVerified,
        ReadFailedLogin, CallFails, ExpireCode, LockPasses
<1> QED BY <1>1, <1>2, <1>3, AccountStep DEF CredentialsTypeOK, HistoryTyped

-----------------------------------------------------------------------------
(* The invariant holds before anybody has called. *)
THEOREM CredentialsInvInit ==
  ASSUME CredentialsInit PROVE CredentialsInv
<1> USE CredentialsAssumption DEF CredentialsInit
<1>1. Idle \in Call /\ Idle.at = "idle" /\ Idle.guess = 0 /\ Idle.retired = {}
  BY DEF Idle, Call, Purposes, Stages
<1>2. codes \in Seq(Code) /\ DOMAIN codes = {}
  <2>1. codes = <<>> /\ <<>> \in Seq(Code)
    OBVIOUS
  <2> QED BY <2>1
<1>3. account \in Account
  BY DEF Account
<1>4. CredentialsTypeOK
  BY <1>1, <1>2, <1>3 DEF CredentialsTypeOK
<1>5. HeldOK /\ IssuesApart /\ RetiredOK
  BY <1>1, <1>2 DEF HeldOK, IssuesApart, RetiredOK
<1>6. CountsBounded /\ VerifiedProvesInbox /\ LockoutCounts
  BY <1>2 DEF CountsBounded, VerifiedProvesInbox, LockoutCounts
<1> QED BY <1>4, <1>5, <1>6 DEF CredentialsInv

(* Every step of a handler keeps it. *)
THEOREM CredentialsInvStep ==
  ASSUME CredentialsInv, [CredentialsNext]_credentialVars PROVE CredentialsInv'
<1>1. CASE CredentialsNext
  BY <1>1, TypeStep, HeldStep, ApartStep, RetiredStep, CountsStep, VerifiedStep, LockoutStep
  DEF CredentialsInv
<1>2. CASE UNCHANGED credentialVars
  BY <1>2 DEF credentialVars, CredentialsInv, CredentialsTypeOK, HeldOK, IssuesApart,
     RetiredOK, CountsBounded, Counting, VerifiedProvesInbox, LockoutCounts
<1> QED BY <1>1, <1>2

(* The account, its codes and what every call holds of them stay as        *)
(* CredentialsInv says, whatever overlaps, fails or expires.               *)
THEOREM CredentialsInvAlways == CredentialsSpec => []CredentialsInv
  BY CredentialsInvInit, CredentialsInvStep, PTL DEF CredentialsSpec

(* OneTimeCodeService.verify accepts no code that was over when the call   *)
(* arrived, unless two issues of its purpose overlapped.                   *)
THEOREM RetiredCodesAlwaysFail == CredentialsSpec => []RetiredCodesFail
<1>1. CredentialsInv => RetiredCodesFail
  BY DEF CredentialsInv, RetiredOK, RetiredCodesFail, Accepting
<1> QED BY <1>1, CredentialsInvAlways, PTL

(* A code is compared with at most maxAttempts values and one more for     *)
(* every other call in flight.                                             *)
THEOREM AttemptsStayBounded == CredentialsSpec => []AttemptsBounded
<1>1. CredentialsInv => AttemptsBounded
  <2> SUFFICES ASSUME CredentialsInv, NEW c \in DOMAIN codes
               PROVE  codes[c].attempts <= MaxAttempts + Cardinality(Calls) - 1
    BY DEF AttemptsBounded
  <2>1. codes[c].attempts \in Nat
    BY CodesDomain DEF CredentialsInv, Code
  <2>2. codes[c].attempts + Cardinality(Counting(c)) <= MaxAttempts + Cardinality(Calls) - 1
    BY DEF CredentialsInv, CountsBounded
  <2> QED BY <2>1, <2>2, CountingFinite, CredentialsAssumption
<1> QED BY <1>1, CredentialsInvAlways, PTL

(* An address is verified only after a code mailed to it came back.        *)
THEOREM VerifiedAlwaysProvesInbox == CredentialsSpec => []VerifiedProvesInbox
<1>1. CredentialsInv => VerifiedProvesInbox
  BY DEF CredentialsInv
<1> QED BY <1>1, CredentialsInvAlways, PTL

(* registerFailedLogin locks after MaxFailed wrong passwords in a row,     *)
(* unless a save wrote over a counter it had not read.                     *)
THEOREM LockoutAlwaysCounts == CredentialsSpec => []LockoutCounts
<1>1. CredentialsInv => LockoutCounts
  BY DEF CredentialsInv
<1> QED BY <1>1, CredentialsInvAlways, PTL

-----------------------------------------------------------------------------
(***************************************************************************)
(* RemindersInv is inductive, for any finite sets of reminders and         *)
(* requests and any cap.  CapStep counts; the rest is about configurations *)
(* (ConfigInv) and follows request by request.                             *)
(***************************************************************************)

ConfigInv == RemindersTypeOK /\ PendingCoherent /\ RemindersCoherent

(* What an update computes from a well-formed edit of a stored             *)
(* configuration is a configuration.                                       *)
LEMMA EffectiveType ==
  ASSUME NEW given \in Updates, NEW old \in Configs
  PROVE  Effective(given, old) \in Configs
  BY DEF Effective, Updates, Giving, Given, Configs, Cadences, Selectors

LEMMA ExistingStored ==
  ASSUME RemindersTypeOK, NEW b \in Existing
  PROVE  b \in Bells /\ reminder[b] \in Configs
  BY DEF RemindersTypeOK, Existing

(* A request that begins brings a coherent configuration. *)
LEMMA OrderKeepsInv ==
  ASSUME ConfigInv, NEW p \in Phones, NEW stage \in {"insert", "update"},
         NEW b \in Bells \cup {NoBell}, NEW c \in Configs, Coherent(c),
         Order(p, stage, b, c)
  PROVE  ConfigInv'
<1>1. RemindersTypeOK'
  BY DEF ConfigInv, RemindersTypeOK, Order
<1>2. PendingCoherent'
  <2> SUFFICES ASSUME NEW q \in Phones, phone'[q].at # "idle"
               PROVE  Coherent(phone'[q].config)
    BY DEF PendingCoherent, Coherent
  <2>1. CASE q = p
    BY <2>1 DEF ConfigInv, RemindersTypeOK, Order
  <2>2. CASE q # p
    BY <2>2 DEF ConfigInv, RemindersTypeOK, PendingCoherent, Order
  <2> QED BY <2>1, <2>2
<1>3. RemindersCoherent'
  BY DEF ConfigInv, RemindersCoherent, Existing, Order, Coherent
<1> QED BY <1>1, <1>2, <1>3 DEF ConfigInv

(* A request that ends owes no write. *)
LEMMA FinishKeepsPending ==
  ASSUME ConfigInv, NEW p \in Phones, Finish(p)
  PROVE  PendingCoherent'
  BY DEF ConfigInv, RemindersTypeOK, PendingCoherent, Finish, Quiet, Coherent

LEMMA FinishType ==
  ASSUME ConfigInv, NEW p \in Phones, Finish(p)
  PROVE  /\ phone' \in [Phones -> [at : {"idle", "insert", "update"},
                                   target : Bells \cup {NoBell}, config : Configs]]
         /\ orders' \in Nat
<1>1. Quiet \in [at : {"idle", "insert", "update"}, target : Bells \cup {NoBell},
                 config : Configs]
  BY DEF Quiet, Plain, Configs, Cadences, Selectors
<1> QED BY <1>1 DEF ConfigInv, RemindersTypeOK, Finish

(* A request that writes its configuration over reminder b, and ends.      *)
LEMMA WriteKeepsInv ==
  ASSUME ConfigInv, NEW p \in Phones, phone[p].at # "idle", NEW b \in Bells,
         reminder' = [reminder EXCEPT ![b] = phone[p].config], Finish(p)
  PROVE  ConfigInv'
<1>1. phone[p].config \in Configs /\ Coherent(phone[p].config)
  BY DEF ConfigInv, RemindersTypeOK, PendingCoherent
<1>2. RemindersTypeOK'
  BY <1>1, FinishType DEF ConfigInv, RemindersTypeOK
<1>3. RemindersCoherent'
  <2> SUFFICES ASSUME NEW e \in Existing'
               PROVE  Coherent(reminder'[e])
    BY DEF RemindersCoherent, Coherent
  <2>1. CASE e = b
    BY <1>1, <2>1 DEF ConfigInv, RemindersTypeOK
  <2>2. CASE e # b
    BY <2>2 DEF ConfigInv, RemindersTypeOK, RemindersCoherent, Existing
  <2> QED BY <2>1, <2>2
<1> QED BY <1>2, <1>3, FinishKeepsPending DEF ConfigInv

LEMMA ConfigInit ==
  ASSUME RemindersInit PROVE ConfigInv
<1>1. Quiet \in [at : {"idle", "insert", "update"}, target : Bells \cup {NoBell},
                 config : Configs]
  BY DEF Quiet, Plain, Configs, Cadences, Selectors
<1>2. RemindersTypeOK
  BY <1>1 DEF RemindersInit, RemindersTypeOK
<1>3. PendingCoherent
  BY DEF RemindersInit, PendingCoherent, Quiet
<1>4. RemindersCoherent
  BY DEF RemindersInit, RemindersCoherent, Existing
<1> QED BY <1>2, <1>3, <1>4 DEF ConfigInv

LEMMA ConfigStep ==
  ASSUME ConfigInv, [RemindersNext]_reminderVars PROVE ConfigInv'
<1>1. ASSUME NEW p \in Phones, NEW c \in Configs, BeginReminder(p, c)
      PROVE  ConfigInv'
  BY <1>1, OrderKeepsInv DEF BeginReminder
<1>2. ASSUME NEW p \in Phones, NEW b \in Bells, NEW given \in Updates,
             BeginUpdateReminder(p, b, given)
      PROVE  ConfigInv'
  <2>1. Effective(given, reminder[b]) \in Configs
    BY <1>2, ExistingStored, EffectiveType DEF BeginUpdateReminder, ConfigInv
  <2> QED BY <1>2, <2>1, OrderKeepsInv DEF BeginUpdateReminder
<1>3. ASSUME NEW p \in Phones, InsertReminder(p)
      PROVE  ConfigInv'
  BY <1>3, WriteKeepsInv DEF InsertReminder
<1>4. ASSUME NEW p \in Phones, UpdateReminder(p)
      PROVE  ConfigInv'
  <2>1. CASE phone[p].target \in Existing
    <3>1. phone[p].target \in Bells
      BY <2>1 DEF Existing
    <3> QED BY <1>4, <2>1, <3>1, WriteKeepsInv DEF UpdateReminder
  <2>2. CASE phone[p].target \notin Existing
    <3>1. UNCHANGED reminder
      BY <1>4, <2>2 DEF UpdateReminder
    <3> QED BY <1>4, <3>1, FinishType, FinishKeepsPending
         DEF UpdateReminder, ConfigInv, RemindersTypeOK, RemindersCoherent, Existing, Coherent
  <2> QED BY <2>1, <2>2
<1>5. ASSUME NEW p \in Phones, PhoneFails(p)
      PROVE  ConfigInv'
  BY <1>5, FinishType, FinishKeepsPending
     DEF PhoneFails, ConfigInv, RemindersTypeOK, RemindersCoherent, Existing, Coherent
<1>6. ASSUME NEW b \in Bells, DeleteReminder(b)
      PROVE  ConfigInv'
  <2>1. RemindersTypeOK'
    BY <1>6 DEF DeleteReminder, ConfigInv, RemindersTypeOK
  <2>2. PendingCoherent'
    BY <1>6 DEF DeleteReminder, ConfigInv, PendingCoherent, Coherent
  <2>3. RemindersCoherent'
    BY <1>6 DEF DeleteReminder, ConfigInv, RemindersTypeOK, RemindersCoherent,
                Existing, Coherent
  <2> QED BY <2>1, <2>2, <2>3 DEF ConfigInv
<1>7. CASE UNCHANGED reminderVars
  BY <1>7 DEF reminderVars, ConfigInv, RemindersTypeOK, PendingCoherent,
              RemindersCoherent, Existing, Coherent
<1> QED BY <1>1, <1>2, <1>3, <1>4, <1>5, <1>6, <1>7 DEF RemindersNext

-----------------------------------------------------------------------------
(* The cap *)

LEMMA CountsAreNat ==
  /\ IsFiniteSet(Existing) /\ Cardinality(Existing) \in Nat
  /\ IsFiniteSet(Inserting) /\ Cardinality(Inserting) \in Nat
  /\ Cardinality(Phones) \in Nat /\ Cardinality(Inserting) <= Cardinality(Phones)
<1>1. Existing \in SUBSET Bells /\ Inserting \in SUBSET Phones
  BY DEF Existing, Inserting
<1> QED BY <1>1, FS_Subset, FS_CardinalityType, RemindersAssumption

LEMMA CountsAreNatPrimed ==
  /\ IsFiniteSet(Existing') /\ Cardinality(Existing') \in Nat
  /\ IsFiniteSet(Inserting') /\ Cardinality(Inserting') \in Nat
  /\ Cardinality(Inserting') <= Cardinality(Phones)
<1>1. Existing' \in SUBSET Bells /\ Inserting' \in SUBSET Phones
  BY DEF Existing, Inserting
<1> QED BY <1>1, FS_Subset, FS_CardinalityType, RemindersAssumption

(* A step with which neither the reminders nor the inserts to come grow.   *)
LEMMA CapShrinks ==
  ASSUME CapWithInserts, Existing' \subseteq Existing, Inserting' \subseteq Inserting
  PROVE  CapWithInserts'
<1>1. /\ Cardinality(Existing') <= Cardinality(Existing)
      /\ Cardinality(Inserting') <= Cardinality(Inserting)
  BY CountsAreNat, FS_Subset
<1> QED
  BY <1>1, CountsAreNat, CountsAreNatPrimed, RemindersAssumption DEF CapWithInserts

LEMMA CapStep ==
  ASSUME RemindersTypeOK, CapWithInserts, [RemindersNext]_reminderVars
  PROVE  CapWithInserts'
<1>1. ASSUME NEW p \in Phones, NEW c \in Configs, BeginReminder(p, c)
      PROVE  CapWithInserts'
  <2>1. Existing' = Existing
    BY <1>1 DEF BeginReminder, Order, Existing
  <2>2. Cardinality(Existing) < MaxReminders
    BY <1>1 DEF BeginReminder
  <2> QED
    BY <2>1, <2>2, CountsAreNat, CountsAreNatPrimed, RemindersAssumption DEF CapWithInserts
<1>2. ASSUME NEW p \in Phones, NEW b \in Bells, NEW given \in Updates,
             BeginUpdateReminder(p, b, given)
      PROVE  CapWithInserts'
  <2>1. Existing' = Existing /\ Inserting' \subseteq Inserting
    BY <1>2 DEF BeginUpdateReminder, Order, Existing, Inserting, RemindersTypeOK
  <2> QED BY <2>1, CapShrinks
<1>3. ASSUME NEW p \in Phones, InsertReminder(p)
      PROVE  CapWithInserts'
  <2>1. PICK b \in Bells : reminder' = [reminder EXCEPT ![b] = phone[p].config]
    BY <1>3 DEF InsertReminder
  <2>2. Existing' \subseteq Existing \cup {b}
    BY <2>1 DEF Existing, RemindersTypeOK
  <2>3. Cardinality(Existing') <= Cardinality(Existing) + 1
    <3>1. IsFiniteSet(Existing \cup {b})
          /\ Cardinality(Existing \cup {b}) <= Cardinality(Existing) + 1
      <4>1. /\ IsFiniteSet(Existing \cup {b})
            /\ Cardinality(Existing \cup {b})
                 = IF b \in Existing THEN Cardinality(Existing) ELSE Cardinality(Existing) + 1
        BY CountsAreNat, FS_AddElement
      <4> QED BY <4>1, CountsAreNat
    <3>2. Cardinality(Existing') <= Cardinality(Existing \cup {b})
      BY <2>2, <3>1, FS_Subset
    <3> QED BY <3>1, <3>2, CountsAreNat, CountsAreNatPrimed, FS_CardinalityType
  <2>4. p \in Inserting /\ Inserting' = Inserting \ {p}
    <3>1. phone[p].at = "insert" /\ phone' = [phone EXCEPT ![p] = Quiet]
      BY <1>3 DEF InsertReminder, Finish
    <3>2. Quiet.at # "insert" /\ phone \in [Phones -> [at : {"idle", "insert", "update"},
                              target : Bells \cup {NoBell}, config : Configs]]
      BY DEF Quiet, RemindersTypeOK
    <3> QED BY <3>1, <3>2 DEF Inserting
  <2>5. Cardinality(Inserting') = Cardinality(Inserting) - 1
    BY <2>4, CountsAreNat, FS_RemoveElement
  <2> QED
    BY <2>3, <2>5, CountsAreNat, CountsAreNatPrimed, RemindersAssumption DEF CapWithInserts
<1>4. ASSUME NEW p \in Phones, Finish(p)
      PROVE  Inserting' \subseteq Inserting
  BY <1>4 DEF Finish, Quiet, Inserting, RemindersTypeOK
<1>5. ASSUME NEW p \in Phones, UpdateReminder(p)
      PROVE  CapWithInserts'
  <2>1. Existing' \subseteq Existing
    BY <1>5 DEF UpdateReminder, Existing, RemindersTypeOK
  <2> QED BY <1>4, <1>5, <2>1, CapShrinks DEF UpdateReminder
<1>6. ASSUME NEW p \in Phones, PhoneFails(p)
      PROVE  CapWithInserts'
  <2>1. Existing' \subseteq Existing
    BY <1>6 DEF PhoneFails, Existing
  <2> QED BY <1>4, <1>6, <2>1, CapShrinks DEF PhoneFails
<1>7. ASSUME NEW b \in Bells, DeleteReminder(b)
      PROVE  CapWithInserts'
  <2>1. Existing' \subseteq Existing /\ Inserting' \subseteq Inserting
    BY <1>7 DEF DeleteReminder, Existing, Inserting, RemindersTypeOK
  <2> QED BY <2>1, CapShrinks
<1>8. CASE UNCHANGED reminderVars
  <2>1. Existing' \subseteq Existing /\ Inserting' \subseteq Inserting
    BY <1>8 DEF reminderVars, Existing, Inserting
  <2> QED BY <2>1, CapShrinks
<1> QED BY <1>1, <1>2, <1>3, <1>5, <1>6, <1>7, <1>8 DEF RemindersNext

-----------------------------------------------------------------------------
(* What handlers are about to write and what is stored stay coherent, and  *)
(* the reminders and the inserts to come stay within the cap.              *)
THEOREM RemindersInvAlways == RemindersSpec => []RemindersInv
<1>1. RemindersInit => RemindersInv
  <2> SUFFICES ASSUME RemindersInit PROVE RemindersInv
    OBVIOUS
  <2>1. Existing = {} /\ Inserting = {}
    BY DEF RemindersInit, Existing, Inserting, Quiet
  <2>2. CapWithInserts
    BY <2>1, FS_EmptySet, CountsAreNat, RemindersAssumption DEF CapWithInserts
  <2> QED BY <2>2, ConfigInit DEF RemindersInv, ConfigInv
<1>2. RemindersInv /\ [RemindersNext]_reminderVars => RemindersInv'
  BY ConfigStep, CapStep DEF RemindersInv, ConfigInv
<1> QED BY <1>1, <1>2, PTL DEF RemindersSpec

(* After any racing edits of reminders the selector is that of the cadence *)
(* (FR-004): RemindersService validates what it then writes as a whole.    *)
THEOREM RemindersStayCoherent == RemindersSpec => []RemindersCoherent
<1>1. RemindersInv => RemindersCoherent
  BY DEF RemindersInv
<1> QED BY <1>1, RemindersInvAlways, PTL

(* The cap counted before the insert is passed at most by the other        *)
(* requests in flight.                                                     *)
THEOREM RemindersStayCapped == RemindersSpec => []RemindersCapped
<1>1. RemindersInv => RemindersCapped
  BY CountsAreNat, RemindersAssumption DEF RemindersInv, CapWithInserts, RemindersCapped
<1> QED BY <1>1, RemindersInvAlways, PTL

-----------------------------------------------------------------------------
(***************************************************************************)
(* CatalogInv is inductive, for any accounts, categories, templates and    *)
(* requests.  The point is what a request has checked and then relies on   *)
(* calls later: that a document is not archived, that a name is free, that *)
(* a category is of the template's kind.  Nothing holds it in between; it  *)
(* is still so unless another request has worked on the same document, or  *)
(* has been naming a template, meanwhile.                                  *)
(***************************************************************************)

Checking == {"name", "account", "category", "write"}

Editor == [at : {"idle", "change", "name", "account", "category", "write"},
           op : {"none", "update", "archive", "unarchive", "create", "edit"},
           target : Records \cup Stencils \cup {NoStencil},
           given : Patches, form : Patches, text : Texts]

LEMMA CatalogInitially == CatalogInit => CatalogInv
<1> SUFFICES ASSUME CatalogInit PROVE CatalogInv
  OBVIOUS
<1>1. NoPatch \in Patches /\ Free \in Editor
  BY DEF NoPatch, Patches, Free, Editor, Texts
<1>2. CatalogTypeOK
  BY <1>1 DEF CatalogInit, CatalogTypeOK, Editor, Documents, Kinds, Texts
<1>3. Stored = {}
  BY DEF CatalogInit, Stored
<1>4. \A e \in Editors : editor[e].at = "idle" /\ editor[e].op = "none" /\ editor[e].target = NoStencil
  BY DEF CatalogInit, Free
<1>5. \A e \in Editors : EditorOK(e)
  BY <1>4 DEF EditorOK, Naming
<1>6. EditorsApart
  BY <1>4, CatalogAssumption DEF EditorsApart, Naming, CatalogInit
<1> QED
  BY <1>2, <1>3, <1>5, <1>6 DEF CatalogInv, TemplateNamesApart

-----------------------------------------------------------------------------
(* What a step leaves of a request it is not a step of. *)

LEMMA EditorType == CatalogTypeOK => editor \in [Editors -> Editor]
  BY DEF CatalogTypeOK, Editor

LEMMA DoneShape ==
  ASSUME CatalogTypeOK, NEW e \in Editors, Done(e)
  PROVE  /\ editor' \in [Editors -> Editor]
         /\ editor'[e].at = "idle" /\ editor'[e].op = "none" /\ editor'[e].target = NoStencil
         /\ \A d \in Editors \ {e} : editor'[d] = editor[d]
         /\ UNCHANGED <<edits, contested, muddled, rushed>>
<1>1. Free \in Editor /\ Free.at = "idle" /\ Free.op = "none" /\ Free.target = NoStencil
  BY DEF NoPatch, Patches, Free, Editor, Texts
<1> HIDE DEF Free
<1> QED
  BY <1>1, EditorType DEF Done

LEMMA ProceedShape ==
  ASSUME CatalogTypeOK, NEW e \in Editors, NEW stage \in Checking, Proceed(e, stage)
  PROVE  /\ editor' \in [Editors -> Editor]
         /\ editor'[e].at = stage /\ editor'[e].op = editor[e].op
         /\ editor'[e].target = editor[e].target
         /\ editor'[e].given = editor[e].given /\ editor'[e].form = editor[e].form
         /\ \A d \in Editors \ {e} : editor'[d] = editor[d]
         /\ UNCHANGED <<edits, contested, muddled, rushed>>
  BY EditorType DEF Proceed, Editor, Checking

(* A document once there stays there, of the same kind. *)
Steady == \A x \in Records :
            record[x].there => record'[x].there /\ record'[x].kind = record[x].kind

LEMMA MatchedStays ==
  ASSUME Steady, NEW form \in Forms, Matched(form)
  PROVE  Matched(form)'
  BY DEF Steady, Matched, Forms, Records

LEMMA Bystander ==
  ASSUME NEW d \in Editors, EditorOK(d), editor'[d] = editor[d], Steady,
         contested \subseteq contested', muddled \subseteq muddled', rushed => rushed',
         editor[d].at = "change" /\ editor[d].target \notin contested' =>
           record'[editor[d].target].archived = record[editor[d].target].archived,
         editor[d].op = "edit" =>
           /\ template'[editor[d].target] # NoStencil
           /\ editor[d].target \in Stored' \ muddled' =>
                /\ editor[d].target \in Stored
                /\ template'[editor[d].target] = template[editor[d].target],
         Naming(d) /\ ~ rushed' =>
           \A u \in Stored' \ {editor[d].target} :
             u \in Stored /\ template'[u].name = template[u].name
  PROVE  EditorOK(d)'
<1>1. editor[d].at = "write" => Matched(editor[d].form)'
  BY MatchedStays DEF EditorOK
<1>2. Naming(d)' = Naming(d)
  BY DEF Naming
<1>3. Naming(d) /\ editor[d].at \in {"account", "category", "write"} /\ ~ rushed' =>
        Namesakes(editor[d].target, editor[d].form.name, UpToCase)' = {}
  BY DEF EditorOK, Namesakes, UpToCase
<1> QED
  BY <1>1, <1>2, <1>3 DEF EditorOK
-----------------------------------------------------------------------------
(* A request arrives: it has read what it is checked against, and whoever  *)
(* works on the same document, or names a template, is on record.          *)
LEMMA EnterStep ==
  ASSUME CatalogInv, NEW e \in Editors, NEW what \in Editor, Enter(e, what),
         \/ /\ what.at = "change" /\ what.op \in {"update", "archive", "unarchive"}
            /\ what.target \in Records \ Defaults
            /\ record[what.target].archived = (what.op = "unarchive")
         \/ /\ what.at = "account" /\ what.op = "create" /\ what.target = NoStencil
            /\ what.given = what.form /\ what.form \in Forms
            /\ Namesakes(NoStencil, what.form.name, UpToCase) = {}
         \/ /\ what.op = "edit" /\ what.target \in Stored /\ what.form \in Forms
            /\ what.at = IF what.given.name = Same THEN "account" ELSE "name"
            /\ what.given.name # Same => what.form.name = what.given.name
            /\ what.form = Patched(what.given, template[what.target])
  PROVE  CatalogInv'
<1> USE CatalogAssumption DEF CatalogInv
<1>1. /\ editor \in [Editors -> Editor] /\ editor[e].at = "idle"
      /\ editor' = [editor EXCEPT ![e] = what]
      /\ contested \subseteq contested' /\ muddled \subseteq muddled' /\ (rushed => rushed')
      /\ contested' \subseteq Records /\ muddled' \subseteq Stencils /\ rushed' \in BOOLEAN
      /\ UNCHANGED <<record, template>>
  BY EditorType DEF Enter, CatalogTypeOK
<1>2. editor'[e] = what /\ \A d \in Editors \ {e} : editor'[d] = editor[d]
  BY <1>1
<1>3. CatalogTypeOK'
  BY <1>1 DEF CatalogTypeOK, Enter, Editor
<1>4. Stored' = Stored
  BY <1>1 DEF Stored
<1>5. ASSUME NEW d \in Editors PROVE EditorOK(d)'
  <2>1. CASE d = e
    <3>1. editor'[d] = what /\ record' = record /\ template' = template
      BY <1>1, <1>2, <2>1
    <3>2. what.target \in Stored => what.target \in Stencils /\ template[what.target] # NoStencil
      BY DEF Stored
    <3>3. Naming(d)' => what.op \in {"create", "edit"} /\ what.given.name # Same
      BY <3>1 DEF Naming
    <3> QED
      BY <1>4, <3>1, <3>2, <3>3 DEF EditorOK, Namesakes, UpToCase
  <2>2. CASE d # e
    <3>1. Steady
      BY <1>1 DEF Steady
    <3>2. EditorOK(d) /\ (editor[d].op = "edit" => template[editor[d].target] # NoStencil)
      BY DEF EditorOK
    <3>3. editor'[d] = editor[d] /\ record' = record /\ template' = template
      BY <1>1, <1>2, <2>2
    <3> HIDE DEF CatalogInv
    <3> QED
      BY <1>1, <1>4, <3>1, <3>2, <3>3, Bystander
  <2> QED
    BY <2>1, <2>2
<1>6. EditorsApart'
  <2> SUFFICES ASSUME NEW c \in Editors, NEW d \in Editors, c # d
               PROVE  /\ editor'[c].target = editor'[d].target =>
                           /\ editor'[d].target \in Records => editor'[d].target \in contested'
                           /\ editor'[d].target \in Stencils => editor'[d].target \in muddled'
                      /\ Naming(c)' /\ Naming(d)' => rushed'
    BY DEF EditorsApart
  <2>1. ASSUME NEW b \in Editors \ {e}
        PROVE  /\ editor[b].target = what.target =>
                    /\ what.target \in Records => what.target \in contested'
                    /\ what.target \in Stencils => what.target \in muddled'
               /\ Naming(b) /\ what.given.name # Same => rushed'
    BY <2>1 DEF Enter, Others
  <2>2. \A b \in Editors \ {e} : Naming(b)' = Naming(b)
    BY <1>2 DEF Naming
  <2>3. Naming(e)' => what.given.name # Same
    BY <1>2 DEF Naming
  <2>4. CASE c = e
    BY <1>2, <2>1, <2>2, <2>3, <2>4
  <2>5. CASE d = e
    BY <1>2, <2>1, <2>2, <2>3, <2>5
  <2>6. CASE c # e /\ d # e
    BY <1>1, <1>2, <2>2, <2>6 DEF EditorsApart
  <2> QED
    BY <2>4, <2>5, <2>6
<1>7. TemplateNamesApart'
  BY <1>1, <1>4 DEF TemplateNamesApart
<1>8. \A t \in Stored' \ muddled' : Matched(template[t])'
  BY <1>1, <1>4 DEF Matched
<1> QED
  BY <1>3, <1>5, <1>6, <1>7, <1>8

LEMMA PatchedForm ==
  ASSUME NEW p \in Patches, NEW old \in Forms
  PROVE  Patched(p, old) \in Forms /\ (p.name # Same => Patched(p, old).name = p.name)
  BY DEF Patched, Patches, Forms

LEMMA ArrivalStep ==
  ASSUME CatalogInv, NEW e \in Editors,
         \/ \E x \in Records, what \in {"archive", "unarchive"} : FindRecord(e, x, what, "first")
         \/ \E x \in Records, text \in Texts : FindRecord(e, x, "update", text)
         \/ \E form \in Forms : BeginTemplate(e, form)
         \/ \E t \in Stencils, patch \in Tried : LookTemplate(e, t, patch)
  PROVE  CatalogInv'
<1>1. ASSUME NEW x \in Records, NEW what \in {"update", "archive", "unarchive"}, NEW text \in Texts,
             FindRecord(e, x, what, text)
      PROVE  CatalogInv'
  <2> DEFINE w == [at |-> "change", op |-> what, target |-> x,
                   given |-> NoPatch, form |-> NoPatch, text |-> text]
  <2>1. w \in Editor
    BY DEF Editor, NoPatch, Patches
  <2>2. /\ w.at = "change" /\ w.op = what /\ w.target = x
        /\ x \in Records \ Defaults /\ record[x].archived = (what = "unarchive")
        /\ Enter(e, w)
    BY <1>1 DEF FindRecord
  <2> HIDE DEF w
  <2> QED
    BY <2>1, <2>2, EnterStep
<1>2. ASSUME NEW form \in Forms, BeginTemplate(e, form) PROVE CatalogInv'
  <2> DEFINE w == [at |-> "account", op |-> "create", target |-> NoStencil,
                   given |-> form, form |-> form, text |-> "first"]
  <2>1. w \in Editor
    BY DEF Editor, Forms, Patches, Texts
  <2>2. /\ w.at = "account" /\ w.op = "create" /\ w.target = NoStencil
        /\ w.given = form /\ w.form = form
        /\ Namesakes(NoStencil, form.name, UpToCase) = {}
        /\ Enter(e, w)
    BY <1>2 DEF BeginTemplate
  <2> HIDE DEF w
  <2> QED
    BY <2>1, <2>2, EnterStep
<1>3. ASSUME NEW t \in Stencils, NEW patch \in Tried, LookTemplate(e, t, patch) PROVE CatalogInv'
  <2> DEFINE w == [at |-> IF patch.name = Same THEN "account" ELSE "name", op |-> "edit",
                   target |-> t, given |-> patch, form |-> Patched(patch, template[t]),
                   text |-> "first"]
  <2>1. patch \in Patches /\ t \in Stored /\ template[t] \in Forms
    BY <1>3, CatalogAssumption DEF LookTemplate, CatalogInv, CatalogTypeOK, Stored
  <2>2. /\ Patched(patch, template[t]) \in Forms
        /\ patch.name # Same => Patched(patch, template[t]).name = patch.name
    BY <2>1, PatchedForm
  <2>3. Patched(patch, template[t]) \in Patches
    BY <2>2 DEF Forms, Patches
  <2>4. w \in Editor
    BY <2>1, <2>3 DEF Editor, Texts
  <2>5. /\ w.at = IF patch.name = Same THEN "account" ELSE "name"
        /\ w.op = "edit" /\ w.target = t /\ w.given = patch
        /\ w.form = Patched(patch, template[t]) /\ Enter(e, w)
    BY <1>3 DEF LookTemplate
  <2> HIDE DEF w
  <2> QED
    BY <2>1, <2>2, <2>4, <2>5, EnterStep
<1> QED
  BY <1>1, <1>2, <1>3 DEF Texts

-----------------------------------------------------------------------------
(* A request goes on, or ends. *)

LEMMA ApartStays ==
  ASSUME EditorsApart, UNCHANGED <<contested, muddled, rushed>>,
         \A d \in Editors :
           /\ editor'[d].target = editor[d].target \/ editor'[d].target = NoStencil
           /\ Naming(d)' => Naming(d)
  PROVE  EditorsApart'
<1> SUFFICES ASSUME NEW c \in Editors, NEW d \in Editors, c # d
             PROVE  /\ editor'[c].target = editor'[d].target =>
                         /\ editor'[d].target \in Records => editor'[d].target \in contested
                         /\ editor'[d].target \in Stencils => editor'[d].target \in muddled
                    /\ Naming(c)' /\ Naming(d)' => rushed
  BY DEF EditorsApart
<1>1. NoStencil \notin Records \cup Stencils
  BY CatalogAssumption
<1> QED
  BY <1>1 DEF EditorsApart

(* What another request does to the documents a request has read. *)
LeftAlone(d) ==
  /\ editor[d].at = "change" /\ editor[d].target \notin contested =>
       record'[editor[d].target].archived = record[editor[d].target].archived
  /\ editor[d].op = "edit" =>
       /\ template'[editor[d].target] # NoStencil
       /\ editor[d].target \in Stored' \ muddled =>
            /\ editor[d].target \in Stored
            /\ template'[editor[d].target] = template[editor[d].target]
  /\ Naming(d) /\ ~ rushed =>
       \A u \in Stored' \ {editor[d].target} :
         u \in Stored /\ template'[u].name = template[u].name

LEMMA LeftAloneStays ==
  ASSUME UNCHANGED <<contested, muddled, rushed>>, Steady,
         NEW d \in Editors, EditorOK(d), editor'[d] = editor[d], LeftAlone(d)
  PROVE  EditorOK(d)'
  BY Bystander DEF LeftAlone

LEMMA AnsweredStep ==
  ASSUME CatalogInv, NEW e \in Editors, Done(e), Steady,
         record' \in [Records -> Documents],
         template' \in [Stencils -> Forms \cup {NoStencil, Erased}],
         \A d \in Editors \ {e} : LeftAlone(d),
         TemplateNamesApart',
         \A t \in Stored' \ muddled : Matched(template[t])'
  PROVE  CatalogInv'
<1>1. /\ editor' \in [Editors -> Editor]
      /\ editor'[e].at = "idle" /\ editor'[e].op = "none" /\ editor'[e].target = NoStencil
      /\ \A d \in Editors \ {e} : editor'[d] = editor[d]
      /\ UNCHANGED <<edits, contested, muddled, rushed>>
  BY DoneShape DEF CatalogInv
<1>2. CatalogTypeOK'
  BY <1>1 DEF CatalogInv, CatalogTypeOK, Editor
<1>3. ASSUME NEW d \in Editors PROVE EditorOK(d)'
  <2>1. CASE d = e
    BY <1>1, <2>1 DEF EditorOK, Naming
  <2>2. CASE d # e
    BY <1>1, <2>2, LeftAloneStays DEF CatalogInv
  <2> QED
    BY <2>1, <2>2
<1>4. EditorsApart'
  <2>1. \A d \in Editors : Naming(d)' => Naming(d)
    BY <1>1 DEF Naming
  <2> QED
    BY <1>1, <2>1, ApartStays DEF CatalogInv
<1> QED
  BY <1>1, <1>2, <1>3, <1>4 DEF CatalogInv

LEMMA UntouchedSteady ==
  ASSUME CatalogInv, UNCHANGED <<record, template>>
  PROVE  Steady /\ Stored' = Stored /\ \A d \in Editors : LeftAlone(d)
<1>1. Steady /\ Stored' = Stored
  BY DEF Steady, Stored
<1>2. ASSUME NEW d \in Editors PROVE LeftAlone(d)
  BY <1>1 DEF LeftAlone, CatalogInv, EditorOK
<1> QED
  BY <1>1, <1>2

LEMMA AnsweredUnchanged ==
  ASSUME CatalogInv, NEW e \in Editors, Done(e), UNCHANGED <<record, template>>
  PROVE  CatalogInv'
<1>1. Steady /\ Stored' = Stored /\ \A d \in Editors : LeftAlone(d)
  BY UntouchedSteady
<1>2. UNCHANGED <<contested, muddled, rushed>>
  BY DEF Done
<1>3. TemplateNamesApart' /\ \A t \in Stored' \ muddled : Matched(template[t])'
  BY <1>1, <1>2 DEF CatalogInv, TemplateNamesApart, Matched
<1> QED
  BY <1>1, <1>3, AnsweredStep DEF CatalogInv, CatalogTypeOK

LEMMA ProceedStep ==
  ASSUME CatalogInv, NEW e \in Editors, UNCHANGED <<record, template>>,
         \/ /\ editor[e].at = "name" /\ Proceed(e, "account")
            /\ Namesakes(editor[e].target, editor[e].form.name, UpToCase) = {}
         \/ editor[e].at = "account" /\ Proceed(e, "category")
         \/ /\ editor[e].at = "category" /\ Proceed(e, "write")
            /\ Matched(editor[e].form)
  PROVE  CatalogInv'
<1>1. PICK stage \in {"account", "category", "write"} :
        /\ editor[e].at \in Checking /\ Proceed(e, stage)
        /\ editor[e].at = "name" => Namesakes(editor[e].target, editor[e].form.name, UpToCase) = {}
        /\ stage = "write" => Matched(editor[e].form)
  BY DEF Checking
<1>2. /\ editor' \in [Editors -> Editor]
      /\ editor'[e].at = stage /\ editor'[e].op = editor[e].op
      /\ editor'[e].target = editor[e].target
      /\ editor'[e].given = editor[e].given /\ editor'[e].form = editor[e].form
      /\ \A d \in Editors \ {e} : editor'[d] = editor[d]
      /\ UNCHANGED <<edits, contested, muddled, rushed>>
  BY <1>1, ProceedShape DEF CatalogInv, Checking
<1>3. Steady /\ Stored' = Stored /\ \A d \in Editors : LeftAlone(d)
  BY UntouchedSteady
<1>4. CatalogTypeOK'
  BY <1>2 DEF CatalogInv, CatalogTypeOK, Editor
<1>5. \A d \in Editors : Naming(d)' <=> Naming(d)
  BY <1>2 DEF Naming
<1>6. ASSUME NEW d \in Editors PROVE EditorOK(d)'
  <2>1. CASE d = e
    BY <1>1, <1>2, <1>3, <1>5, <2>1
    DEF CatalogInv, EditorOK, Checking, Namesakes, UpToCase, Matched
  <2>2. CASE d # e
    BY <1>2, <1>3, <2>2, LeftAloneStays DEF CatalogInv
  <2> QED
    BY <2>1, <2>2
<1>7. EditorsApart'
  BY <1>2, <1>5, ApartStays DEF CatalogInv
<1>8. TemplateNamesApart' /\ \A t \in Stored' \ muddled' : Matched(template[t])'
  BY <1>2, <1>3 DEF CatalogInv, TemplateNamesApart, Matched
<1> QED
  BY <1>4, <1>6, <1>7, <1>8 DEF CatalogInv

-----------------------------------------------------------------------------
(* The writes. *)

LEMMA ChangeRecordStep ==
  ASSUME CatalogInv, NEW e \in Editors, ChangeRecord(e)
  PROVE  CatalogInv'
<1> DEFINE x == editor[e].target
<1>1. /\ editor[e].at = "change" /\ Done(e) /\ template' = template
      /\ x \in Records \ Defaults
  BY DEF ChangeRecord, CatalogInv, EditorOK
<1>2. record \in [Records -> Documents] /\ editor[e].text \in Texts
  BY EditorType DEF CatalogInv, CatalogTypeOK, Editor
<1>3. /\ record' \in [Records -> Documents]
      /\ record'[x].there = record[x].there /\ record'[x].kind = record[x].kind
      /\ \A y \in Records \ {x} : record'[y] = record[y]
  BY <1>1, <1>2 DEF ChangeRecord, Documents
<1> HIDE DEF x
<1>4. Steady
  BY <1>1, <1>3 DEF Steady
<1>5. Stored' = Stored
  BY <1>1 DEF Stored
<1>6. ASSUME NEW d \in Editors \ {e} PROVE LeftAlone(d)
  <2>1. editor[d].at = "change" /\ editor[d].target \notin contested =>
          editor[d].target \in Records \ {x}
    BY <1>1 DEF CatalogInv, EditorOK, EditorsApart, x
  <2>2. editor[d].op = "edit" => template[editor[d].target] # NoStencil
    BY DEF CatalogInv, EditorOK
  <2> QED
    BY <1>1, <1>3, <1>5, <2>1, <2>2 DEF LeftAlone
<1>7. UNCHANGED <<contested, muddled, rushed>>
  BY <1>1 DEF Done
<1>8. TemplateNamesApart'
  BY <1>1, <1>5, <1>7 DEF CatalogInv, TemplateNamesApart
<1>9. \A t \in Stored' \ muddled : Matched(template[t])'
  <2>1. \A t \in Stored : template[t] \in Forms
    BY DEF CatalogInv, CatalogTypeOK, Stored
  <2>2. \A t \in Stored \ muddled : Matched(template[t])
    BY DEF CatalogInv
  <2> QED
    BY <1>1, <1>4, <1>5, <2>1, <2>2 DEF Matched, Steady, Forms, Records
<1> QED
  BY <1>1, <1>3, <1>4, <1>6, <1>8, <1>9, AnsweredStep DEF CatalogInv, CatalogTypeOK

(* A template is stored: with a name that is free, and of its category's   *)
(* kind unless two edits of it overlapped.                                 *)
LEMMA StoreStep ==
  ASSUME CatalogInv, NEW e \in Editors, Done(e), UNCHANGED record,
         NEW t \in Stencils, NEW new \in Forms,
         template' = [template EXCEPT ![t] = new],
         Namesakes(t, new.name, Exactly) = {},
         \/ template[t] = NoStencil /\ Naming(e)
         \/ t \in Stored /\ editor[e].target = t /\ (Naming(e) \/ new.name = template[t].name),
         ~ rushed /\ Naming(e) => Namesakes(t, new.name, UpToCase) = {},
         t \notin muddled => Matched(new)
  PROVE  CatalogInv'
<1>1. template \in [Stencils -> Forms \cup {NoStencil, Erased}]
  BY DEF CatalogInv, CatalogTypeOK
<1>2. /\ template'[t] = new /\ \A u \in Stencils \ {t} : template'[u] = template[u]
      /\ template' \in [Stencils -> Forms \cup {NoStencil, Erased}]
  BY <1>1
<1>3. new # NoStencil /\ new # Erased
  BY CatalogAssumption
<1>4. Stored' = Stored \cup {t}
  BY <1>2, <1>3 DEF Stored
<1>5. Steady /\ UNCHANGED <<contested, muddled, rushed>>
  BY DEF Steady, Done
<1>6. ASSUME NEW d \in Editors \ {e} PROVE LeftAlone(d)
  <2>1. editor[d].op = "edit" =>
          /\ editor[d].target \in Stencils
          /\ template[editor[d].target] # NoStencil
    BY DEF CatalogInv, EditorOK
  <2>2. editor[d].target = t /\ t \in Stored /\ editor[e].target = t => t \in muddled
    BY DEF CatalogInv, EditorsApart
  <2>3. editor[d].op = "edit" =>
          /\ template'[editor[d].target] # NoStencil
          /\ editor[d].target \in Stored' \ muddled =>
               /\ editor[d].target \in Stored
               /\ template'[editor[d].target] = template[editor[d].target]
    BY <1>2, <1>3, <1>4, <2>1, <2>2
  <2>4. Naming(d) /\ ~ rushed => ~ Naming(e)
    BY DEF CatalogInv, EditorsApart
  <2>5. Naming(d) /\ ~ rushed =>
          \A u \in Stored' : u \in Stored /\ template'[u].name = template[u].name
    BY <1>2, <1>4, <2>4 DEF Stored
  <2> QED
    BY <1>5, <2>3, <2>5 DEF LeftAlone
<1>7. TemplateNamesApart'
  <2> SUFFICES ASSUME NEW u \in Stored', NEW v \in Stored', u # v
               PROVE  /\ template'[u].name # template'[v].name
                      /\ ~ rushed => template'[u].name.word # template'[v].name.word
    BY <1>5 DEF TemplateNamesApart
  <2>1. \A y \in Stored \ {t} :
          /\ template[y].name # new.name
          /\ ~ rushed => template[y].name.word # new.name.word
    <3>1. \A y \in Stored \ {t} : template[y].name # new.name
      BY DEF Namesakes, Exactly
    <3>2. ~ rushed /\ Naming(e) => \A y \in Stored \ {t} : template[y].name.word # new.name.word
      BY DEF Namesakes, UpToCase
    <3>3. ~ rushed /\ ~ Naming(e) => \A y \in Stored \ {t} : template[y].name.word # new.name.word
      BY DEF CatalogInv, TemplateNamesApart
    <3> QED
      BY <3>1, <3>2, <3>3
  <2>2. u # t => u \in Stored /\ template'[u] = template[u] 
    BY <1>2, <1>4 DEF Stored
  <2>3. v # t => v \in Stored /\ template'[v] = template[v]
    BY <1>2, <1>4 DEF Stored
  <2> QED
    BY <1>2, <2>1, <2>2, <2>3 DEF CatalogInv, TemplateNamesApart
<1>8. \A u \in Stored' \ muddled : Matched(template[u])'
  <2> SUFFICES ASSUME NEW u \in Stored' \ muddled PROVE Matched(template[u])'
    OBVIOUS
  <2>1. CASE u = t
    BY <1>2, <2>1 DEF Matched
  <2>2. CASE u # t
    BY <1>2, <1>4, <2>2 DEF Matched, CatalogInv, Stored
  <2> QED
    BY <2>1, <2>2
<1> QED
  BY <1>2, <1>5, <1>6, <1>7, <1>8, AnsweredStep DEF CatalogInv, CatalogTypeOK

LEMMA InsertStep ==
  ASSUME CatalogInv, NEW e \in Editors, InsertTemplate(e)
  PROVE  CatalogInv'
<1> DEFINE form == editor[e].form
<1>1. /\ editor[e].at = "write" /\ editor[e].op = "create" /\ Done(e) /\ record' = record
      /\ form \in Forms /\ editor[e].given = form /\ editor[e].target = NoStencil
      /\ Matched(form)
      /\ Naming(e) /\ ~ rushed => Namesakes(NoStencil, form.name, UpToCase) = {}
  BY DEF InsertTemplate, CatalogInv, EditorOK
<1>2. Naming(e)
  BY <1>1, CatalogAssumption DEF Naming, Forms
<1>3. CASE template' = template
  BY <1>1, <1>3, AnsweredUnchanged
<1>4. ASSUME NEW t \in Stencils, Namesakes(NoStencil, form.name, Exactly) = {},
             template[t] = NoStencil, template' = [template EXCEPT ![t] = form]
      PROVE  CatalogInv'
  <2>1. NoStencil \notin Stored /\ t \notin Stored
    BY <1>4, CatalogAssumption DEF Stored
  <2>2. Namesakes(t, form.name, Exactly) = {}
    BY <1>4, <2>1 DEF Namesakes
  <2>3. ~ rushed => Namesakes(t, form.name, UpToCase) = {}
    BY <1>1, <1>2, <2>1 DEF Namesakes
  <2> HIDE DEF form
  <2> QED
    BY <1>1, <1>2, <1>4, <2>2, <2>3, StoreStep
<1> QED
  BY <1>3, <1>4 DEF InsertTemplate

LEMMA WriteStep ==
  ASSUME CatalogInv, NEW e \in Editors, WriteTemplate(e)
  PROVE  CatalogInv'
<1> DEFINE t == editor[e].target
           p == editor[e].given
           new == Patched(p, template[t])
<1>1. /\ editor[e].at = "write" /\ editor[e].op = "edit" /\ Done(e) /\ record' = record
      /\ t \in Stencils /\ Matched(editor[e].form)
      /\ p.name # Same => editor[e].form.name = p.name
      /\ t \in Stored \ muddled => editor[e].form = new
      /\ Naming(e) /\ ~ rushed => Namesakes(t, editor[e].form.name, UpToCase) = {}
  BY DEF WriteTemplate, CatalogInv, EditorOK
<1>2. CASE template' = template
  BY <1>1, <1>2, AnsweredUnchanged
<1>3. CASE /\ t \in Stored /\ Namesakes(t, new.name, Exactly) = {}
           /\ template' = [template EXCEPT ![t] = new]
  <2>1. template[t] \in Forms /\ p \in Patches
    BY <1>3, EditorType DEF CatalogInv, CatalogTypeOK, Stored, Editor
  <2>2. new \in Forms /\ (p.name # Same => new.name = p.name)
    BY <2>1, PatchedForm
  <2>3. p.name = Same => new.name = template[t].name
    BY DEF Patched
  <2>4. Naming(e) <=> p.name # Same
    BY <1>1 DEF Naming
  <2>5. ~ rushed /\ Naming(e) => Namesakes(t, new.name, UpToCase) = {}
    BY <1>1, <2>2, <2>4
  <2>6. t \notin muddled => Matched(new)
    BY <1>1, <1>3
  <2>7. Naming(e) \/ new.name = template[t].name
    BY <2>3, <2>4
  <2>8. editor[e].target = t /\ t \in Stored /\ t \in Stencils
    BY <1>1, <1>3
  <2> HIDE DEF new, t, p
  <2> QED
    BY <1>1, <1>3, <2>2, <2>5, <2>6, <2>7, <2>8, StoreStep
<1> QED
  BY <1>2, <1>3 DEF WriteTemplate

(* What no request does: a document or a default is inserted, a template   *)
(* deleted.                                                                *)
LEMMA OutsideStep ==
  ASSUME CatalogInv, UNCHANGED <<editor, edits, contested, muddled, rushed>>, Steady,
         record' \in [Records -> Documents],
         template' \in [Stencils -> Forms \cup {NoStencil, Erased}],
         \A x \in Records : record'[x].archived = record[x].archived,
         Stored' \subseteq Stored,
         \A u \in Stored' : template'[u] = template[u],
         \A u \in Stencils : template[u] # NoStencil => template'[u] # NoStencil
  PROVE  CatalogInv'
<1>1. CatalogTypeOK'
  BY DEF CatalogInv, CatalogTypeOK
<1>2. ASSUME NEW d \in Editors PROVE EditorOK(d)'
  <2>1. EditorOK(d)
    BY DEF CatalogInv
  <2>2. LeftAlone(d)
    BY <2>1 DEF LeftAlone, EditorOK
  <2> QED
    BY <2>1, <2>2, LeftAloneStays
<1>3. \A d \in Editors : Naming(d)' <=> Naming(d)
  BY DEF Naming
<1>4. EditorsApart'
  BY <1>3, ApartStays DEF CatalogInv
<1>5. TemplateNamesApart'
  BY DEF CatalogInv, TemplateNamesApart
<1>6. \A t \in Stored' \ muddled' : Matched(template[t])'
  <2>1. \A t \in Stored : template[t] \in Forms
    BY DEF CatalogInv, CatalogTypeOK, Stored
  <2>2. \A t \in Stored \ muddled : Matched(template[t])
    BY DEF CatalogInv
  <2> QED
    BY <2>1, <2>2 DEF Matched, Steady, Forms, Records
<1> QED
  BY <1>1, <1>2, <1>4, <1>5, <1>6 DEF CatalogInv

LEMMA InsertRecordStep ==
  ASSUME CatalogInv, NEW x \in Records, NEW kind \in Kinds,
         CreateRecord(x, kind) \/ SeedDefault(x, kind)
  PROVE  CatalogInv'
<1>1. record \in [Records -> Documents]
  BY DEF CatalogInv, CatalogTypeOK
<1>2. /\ record' \in [Records -> Documents]
      /\ \A y \in Records : record'[y].archived = record[y].archived
      /\ Steady
  <2>1. \/ record' = record
        \/ /\ ~ record[x].there
           /\ record' = [record EXCEPT ![x].there = TRUE, ![x].kind = kind]
    BY DEF CreateRecord, SeedDefault
  <2>2. CASE record' = record
    BY <1>1, <2>2 DEF Steady
  <2>3. CASE /\ ~ record[x].there
             /\ record' = [record EXCEPT ![x].there = TRUE, ![x].kind = kind]
    <3>1. /\ record' \in [Records -> Documents]
          /\ record'[x].archived = record[x].archived
          /\ \A y \in Records \ {x} : record'[y] = record[y]
      BY <1>1, <2>3 DEF Documents
    <3> QED
      BY <2>3, <3>1 DEF Steady
  <2> QED
    BY <2>1, <2>2, <2>3
<1>3. UNCHANGED <<template, editor, edits, contested, muddled, rushed>>
  BY DEF CreateRecord, SeedDefault
<1>4. Stored' = Stored
  BY <1>3 DEF Stored
<1> QED
  BY <1>2, <1>3, <1>4, OutsideStep DEF CatalogInv, CatalogTypeOK

LEMMA DeleteStep ==
  ASSUME CatalogInv, NEW t \in Stencils, DeleteTemplate(t)
  PROVE  CatalogInv'
<1>1. /\ template \in [Stencils -> Forms \cup {NoStencil, Erased}]
      /\ template' = [template EXCEPT ![t] = Erased]
      /\ UNCHANGED <<record, editor, edits, contested, muddled, rushed>>
  BY DEF CatalogInv, CatalogTypeOK, DeleteTemplate
<1>2. /\ template' \in [Stencils -> Forms \cup {NoStencil, Erased}]
      /\ Stored' \subseteq Stored
      /\ \A u \in Stored' : template'[u] = template[u]
      /\ \A u \in Stencils : template[u] # NoStencil => template'[u] # NoStencil
  BY <1>1, CatalogAssumption DEF Stored
<1> QED
  BY <1>1, <1>2, OutsideStep DEF CatalogInv, CatalogTypeOK, Steady

LEMMA CatalogStep == CatalogInv /\ [CatalogNext]_catalogVars => CatalogInv'
<1> SUFFICES ASSUME CatalogInv, [CatalogNext]_catalogVars PROVE CatalogInv'
  OBVIOUS
<1>1. ASSUME NEW e \in Editors,
             \/ \E x \in Records, what \in {"archive", "unarchive"} : FindRecord(e, x, what, "first")
             \/ \E x \in Records, text \in Texts : FindRecord(e, x, "update", text)
             \/ \E form \in Forms : BeginTemplate(e, form)
             \/ \E t \in Stencils, patch \in Tried : LookTemplate(e, t, patch)
      PROVE  CatalogInv'
  BY <1>1, ArrivalStep
<1>2. ASSUME NEW e \in Editors, ChangeRecord(e) PROVE CatalogInv'
  BY <1>2, ChangeRecordStep
<1>3. ASSUME NEW e \in Editors, NameFree(e) PROVE CatalogInv'
  BY <1>3, ProceedStep, AnsweredUnchanged DEF NameFree
<1>4. ASSUME NEW e \in Editors, ValidateAccount(e) PROVE CatalogInv'
  BY <1>4, ProceedStep, AnsweredUnchanged DEF ValidateAccount
<1>5. ASSUME NEW e \in Editors, ValidateCategory(e) PROVE CatalogInv'
  BY <1>5, ProceedStep, AnsweredUnchanged
  DEF ValidateCategory, CategoryAvailable, CategoryActive, Matched
<1>6. ASSUME NEW e \in Editors, InsertTemplate(e) PROVE CatalogInv'
  BY <1>6, InsertStep
<1>7. ASSUME NEW e \in Editors, WriteTemplate(e) PROVE CatalogInv'
  BY <1>7, WriteStep
<1>8. ASSUME NEW e \in Editors, EditorFails(e) PROVE CatalogInv'
  BY <1>8, AnsweredUnchanged DEF EditorFails
<1>9. ASSUME NEW x \in Records, NEW kind \in Kinds, CreateRecord(x, kind) \/ SeedDefault(x, kind)
      PROVE  CatalogInv'
  BY <1>9, InsertRecordStep
<1>10. ASSUME NEW t \in Stencils, DeleteTemplate(t) PROVE CatalogInv'
  BY <1>10, DeleteStep
<1>11. CASE UNCHANGED catalogVars
  BY <1>11, OutsideStep DEF catalogVars, CatalogInv, CatalogTypeOK, Steady, Stored
<1> QED
  BY <1>1, <1>2, <1>3, <1>4, <1>5, <1>6, <1>7, <1>8, <1>9, <1>10, <1>11 DEF CatalogNext, Edits

-----------------------------------------------------------------------------
(* The invariant CatalogInv holds in every reachable state: the types,     *)
(* what each request has checked, and what the templates refer to.         *)
THEOREM CatalogInvariant == CatalogSpec => []CatalogInv
  BY CatalogInitially, CatalogStep, PTL DEF CatalogSpec

(* No two templates have one name, nor one name up to case unless two      *)
(* requests that name a template overlapped (assertNameFree, and the       *)
(* unique index on familyId and name).                                     *)
THEOREM TemplatesHaveTheirNames == CatalogSpec => []TemplateNamesApart
<1>1. CatalogInv => TemplateNamesApart
  BY DEF CatalogInv
<1> QED
  BY <1>1, CatalogInvariant, PTL

(* After any sequence of partial edits a template's category, while it is  *)
(* in use, is of the template's kind, unless two edits of the template     *)
(* overlapped (validateReferences over the patched template).              *)
THEOREM TemplatesKeepTheKind == CatalogSpec => []TemplateKindsMatch
<1>1. CatalogInv => TemplateKindsMatch
  BY DEF CatalogInv, TemplateKindsMatch, CategoryAvailable, CategoryActive, Matched
<1> QED
  BY <1>1, CatalogInvariant, PTL

(* A system category never changes once seeded, and what is archived stays *)
(* as it is until unarchived, unless two requests on it overlapped         *)
(* (requireOwnCustom, requireInFamily, upsertSystem).                      *)
THEOREM ArchivedIsReadOnly == CatalogSpec => ReadOnlyStays
<1> DEFINE Preserved(x) ==
      record[x].there
        /\ (x \in Defaults
              \/ (record[x].archived /\ record'[x].archived /\ x \notin contested'))
      => record'[x] = record[x]
<1>1. CatalogInv /\ [CatalogNext]_catalogVars => [\A x \in Records : Preserved(x)]_catalogVars
  <2> SUFFICES ASSUME CatalogInv, [CatalogNext]_catalogVars, NEW x \in Records PROVE Preserved(x)
    OBVIOUS
  <2>1. CASE record' = record
    BY <2>1
  <2>2. ASSUME NEW e \in Editors, ChangeRecord(e) PROVE Preserved(x)
    <3> DEFINE y == editor[e].target
    <3>1. /\ y \in Records \ Defaults /\ contested' = contested
          /\ y \notin contested => record[y].archived = (editor[e].op = "unarchive")
          /\ editor[e].op \in {"update", "archive", "unarchive"}
      BY <2>2 DEF ChangeRecord, Done, CatalogInv, EditorOK
    <3>2. record \in [Records -> Documents]
      BY DEF CatalogInv, CatalogTypeOK
    <3>3. CASE x # y
      BY <2>2, <3>1, <3>2, <3>3 DEF ChangeRecord
    <3>4. CASE x = y /\ editor[e].op # "update"
      <4>1. record'[y].archived = (editor[e].op = "archive")
        BY <2>2, <3>1, <3>2, <3>4 DEF ChangeRecord, Documents
      <4> QED
        BY <3>1, <3>4, <4>1
    <3>5. CASE x = y /\ editor[e].op = "update"
      BY <3>1, <3>5
    <3> QED
      BY <3>3, <3>4, <3>5
  <2>3. ASSUME NEW y \in Records, NEW kind \in Kinds, CreateRecord(y, kind) \/ SeedDefault(y, kind)
        PROVE  Preserved(x)
    BY <2>3 DEF CreateRecord, SeedDefault, CatalogInv, CatalogTypeOK
  <2>4. ASSUME NEW e \in Editors, Edits(e) PROVE record' = record \/ ChangeRecord(e)
    BY <2>4 DEF Edits, FindRecord, BeginTemplate, LookTemplate, Enter, NameFree, ValidateAccount,
       ValidateCategory, InsertTemplate, WriteTemplate, EditorFails
  <2> HIDE DEF Preserved
  <2> QED
    BY <2>1, <2>2, <2>3, <2>4 DEF CatalogNext, DeleteTemplate, catalogVars
<1> QED
  BY <1>1, CatalogInvariant, PTL DEF CatalogSpec, ReadOnlyStays

-----------------------------------------------------------------------------
(***************************************************************************)
(* The five together: a behaviour of MCServices is a behaviour of each of  *)
(* them, so the five inductive invariants hold at once.                    *)
(***************************************************************************)

(* Every service starts as its own specification says, and each step is a  *)
(* step or a stutter of each.                                              *)
LEMMA ServicesStart ==
  ServicesInit => Init /\ CredentialsInit /\ CatalogInit /\ RemindersInit /\ ReportsInit
  BY DEF ServicesInit

LEMMA ServicesStep ==
  [ServicesNext]_ServicesVars =>
    /\ [Next]_vars
    /\ [CredentialsNext]_credentialVars
    /\ [CatalogNext]_catalogVars
    /\ [RemindersNext]_reminderVars
    /\ [ReportsNext]_reportVars
  BY DEF ServicesNext, ServicesVars

(* The services share no state: what one does is nothing to the others.    *)
THEOREM ServicesAreApart ==
  ServicesSpec => Spec /\ CredentialsSpec /\ CatalogSpec /\ RemindersSpec /\ ReportsSpec
  BY ServicesStart, ServicesStep, PTL
     DEF ServicesSpec, Spec, CredentialsSpec, CatalogSpec, RemindersSpec, ReportsSpec

(* The inductive invariants of transfers, of codes and sign-ins, of        *)
(* accounts, categories and templates, of reminders and of the reports.    *)
THEOREM ServicesInvariant == ServicesSpec => []ServicesInv
<1>1. TransfersInv /\ CredentialsInv /\ CatalogInv /\ RemindersInv /\ ReportsInv => ServicesInv
  BY DEF ServicesInv
<1> QED
  BY <1>1, ServicesAreApart, TransferInvariant, CredentialsInvAlways, CatalogInvariant,
     RemindersInvAlways, ReportsInvariant, PTL
=============================================================================
