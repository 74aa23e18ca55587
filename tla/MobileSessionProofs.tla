--------------------------- MODULE MobileSessionProofs --------------------------
(***************************************************************************)
(* MobileInv is inductive, for any number of concurrent functions, pairs   *)
(* and acts and any troubles.  Its parts speak of different things and are *)
(* carried over each step one by one: who waits for the rotation, which    *)
(* pairs are fresh, where the writers of the store are, and what the task  *)
(* that runs alone knows of the store.                                     *)
(*                                                                         *)
(* The API the app talks to is then shown to take only steps of the same   *)
(* SessionChains that the handlers of the API implement, and the           *)
(* invariants of both sides to hold where they are put together.           *)
(***************************************************************************)
EXTENDS MCSignIn, RefreshSessionsProofs, TLAPS

Stages == {"idle", "read", "fetch", "renew", "joined", "retry", "denied", "login", "outRead",
           "outPost", "outRefresh", "outPost2"} \cup Storing
Ops == {"none", "load", "signIn", "signOut", "verify", "resend"}
Legs == {"me", "family", "act"}
Task == [at : Stages, op : Ops, leg : Legs, pair : PairOrNone]
Rotation == [stage : {"none", "sent", "save", "save2"}, token : PairOrNone, pair : PairOrNone]

(* The tasks at work, which the type invariant spells out. *)
LEMMA MobileTypes ==
  MobileTypeOK => task \in [Tasks -> Task] /\ rotation \in Rotation /\ issued \in PairOrNone
  BY DEF MobileTypeOK, Task, Rotation, Stages, Ops, Legs

-----------------------------------------------------------------------------
(* How a step moves its task, field by field, and leaves the others. *)

Others(k) == \A j \in Tasks : j # k => task'[j] = task[j]

LEMMA StepShape ==
  ASSUME task \in [Tasks -> Task], NEW k \in Tasks, NEW stage \in Stages, Step(k, stage)
  PROVE  /\ task' \in [Tasks -> Task] /\ Others(k)
         /\ task'[k].at = stage /\ task'[k].pair = task[k].pair
         /\ task'[k].op = task[k].op /\ task'[k].leg = task[k].leg
  BY DEF Step, Task, Others

LEMMA TakeShape ==
  ASSUME task \in [Tasks -> Task], NEW k \in Tasks, NEW stage \in Stages, NEW p \in PairOrNone,
         task' = [task EXCEPT ![k].at = stage, ![k].pair = p]
  PROVE  /\ task' \in [Tasks -> Task] /\ Others(k)
         /\ task'[k].at = stage /\ task'[k].pair = p
  BY DEF Task, Others

LEMMA ZeroIsNone == 0 \in PairOrNone
  BY MobileAssumption DEF PairOrNone

LEMMA SleepingShape == Sleeping \in Task /\ Sleeping.at = "idle" /\ Sleeping.pair = 0
  BY ZeroIsNone DEF Sleeping, Task, Stages, Ops, Legs

LEMMA StartingShape == Starting \in Task /\ Starting.at = "read" /\ Starting.pair = 0
  BY ZeroIsNone DEF Starting, Sleeping, Task, Stages, Ops, Legs

LEMMA EndShape ==
  ASSUME task \in [Tasks -> Task], NEW k \in Tasks, End(k)
  PROVE  task' \in [Tasks -> Task] /\ Others(k) /\ task'[k].at = "idle" /\ task'[k].pair = 0
  BY SleepingShape DEF End, Others

LEMMA ReloadShape ==
  ASSUME task \in [Tasks -> Task], NEW k \in Tasks,
         task' = [task EXCEPT ![k].at = "read", ![k].leg = "me", ![k].pair = 0]
  PROVE  task' \in [Tasks -> Task] /\ Others(k) /\ task'[k].at = "read" /\ task'[k].pair = 0
  BY ZeroIsNone DEF Task, Others, Stages, Legs

LEMMA FamilyShape ==
  ASSUME task \in [Tasks -> Task], NEW k \in Tasks,
         task' = [task EXCEPT ![k].leg = "family", ![k].at = "fetch", ![k].pair = 0]
  PROVE  task' \in [Tasks -> Task] /\ Others(k) /\ task'[k].at = "fetch" /\ task'[k].pair = 0
  BY ZeroIsNone DEF Task, Others, Stages, Legs

LEMMA WakeShape ==
  ASSUME task \in [Tasks -> Task], NEW stage \in Stages, NEW p \in PairOrNone,
         WakeAll(stage, p)
  PROVE  /\ task' \in [Tasks -> Task]
         /\ \A k \in Tasks : task[k].at = "joined" => task'[k].at = stage /\ task'[k].pair = p
         /\ \A k \in Tasks : task[k].at # "joined" => task'[k] = task[k]
  BY DEF WakeAll, Task

-----------------------------------------------------------------------------
(* The API's answers. *)

ApiTypeOK ==
  /\ profile \in {"none", "unverified", "verified"}
  /\ issued \in PairOrNone
  /\ origin \in [Pairs -> PairOrNone]
  /\ live \subseteq 1 .. issued /\ stale \subseteq 1 .. issued /\ rotated \subseteq 1 .. issued

LEMMA IssueStep ==
  ASSUME ApiTypeOK, NEW c \in PairOrNone, NEW out, IssuePair(c, out), rotated' \subseteq 1 .. issued + 1
  PROVE  ApiTypeOK' /\ issued' = issued + 1 /\ issued' \in PairOrNone \ {0} /\ issued \in Nat
<1>1. issued \in Nat /\ MaxPairs \in Nat /\ issued + 1 \in Pairs /\ issued' = issued + 1
  BY MobileAssumption DEF ApiTypeOK, IssuePair, PairOrNone, Pairs
<1>2. issued + 1 \in PairOrNone
  BY <1>1 DEF Pairs, PairOrNone
<1>3. origin' \in [Pairs -> PairOrNone]
  BY <1>1, <1>2 DEF ApiTypeOK, IssuePair
<1>4. 1 .. issued \subseteq 1 .. issued' /\ issued + 1 \in 1 .. issued'
  BY <1>1
<1>5. live' \subseteq 1 .. issued' /\ stale' \subseteq 1 .. issued'
  BY <1>4 DEF ApiTypeOK, IssuePair
<1> QED
  BY <1>1, <1>2, <1>3, <1>5 DEF ApiTypeOK, IssuePair

LEMMA RotateStep ==
  ASSUME ApiTypeOK, NEW t, Rotate(t)
  PROVE  /\ ApiTypeOK' /\ issued' = issued + 1 /\ issued' \in PairOrNone \ {0} /\ issued \in Nat
         /\ rotated' = rotated \cup {t} /\ t \in 1 .. issued /\ theft' = theft
<1>1. t \in 1 .. issued /\ issued \in Nat /\ t \in Pairs
  BY MobileAssumption DEF ApiTypeOK, Rotate, PairOrNone, Pairs
<1>2. origin[t] \in PairOrNone
  BY <1>1 DEF ApiTypeOK
<1>3. rotated' \subseteq 1 .. issued + 1
  BY <1>1 DEF ApiTypeOK, Rotate
<1> QED
  BY <1>1, <1>2, <1>3, IssueStep DEF Rotate

LEMMA EndChainStep ==
  ASSUME ApiTypeOK, NEW t, EndChain(t)
  PROVE  /\ ApiTypeOK' /\ issued' = issued /\ rotated' = rotated
         /\ theft' = (theft \/ t \in rotated)
  BY DEF ApiTypeOK, EndChain

-----------------------------------------------------------------------------
(* What becomes of a session. *)

Sessions == {Loading, SignedIn(TRUE), SignedIn(FALSE)}
              \cup {SignedOut(why) : why \in {"none", "expired", "offline"}}
Screens == AuthScreens \cup {"home", "onboarding"}
Fits(s, where) ==
  /\ where \in Screens
  /\ s.status = "authenticated" => where \notin AuthScreens
  /\ s.status = "unauthenticated" => where \in AuthScreens

LEMMA SessionTypes ==
  ASSUME NEW s \in Sessions
  PROVE  s \in [status : {"loading", "authenticated", "unauthenticated"},
                reason : {"none", "expired", "offline"}, family : BOOLEAN]
<1>1. CASE s = Loading
  BY <1>1 DEF Loading
<1>2. ASSUME NEW family \in BOOLEAN, s = SignedIn(family)
      PROVE  s \in [status : {"loading", "authenticated", "unauthenticated"},
                    reason : {"none", "expired", "offline"}, family : BOOLEAN]
  BY <1>2 DEF SignedIn
<1>3. ASSUME NEW why \in {"none", "expired", "offline"}, s = SignedOut(why)
      PROVE  s \in [status : {"loading", "authenticated", "unauthenticated"},
                    reason : {"none", "expired", "offline"}, family : BOOLEAN]
  BY <1>3 DEF SignedOut
<1> QED
  BY <1>1, <1>2, <1>3 DEF Sessions

LEMMA RoutesFit ==
  ASSUME NEW s \in Sessions, NEW where \in Screens
  PROVE  Fits(s, Redirect(s, where)) /\ (s.status # "loading" => Fits(s, Route(s)))
<1>1. s.status \in {"loading", "authenticated", "unauthenticated"} /\ s.family \in BOOLEAN
  BY SessionTypes
<1>2. Route(s) = "signIn" \/ (s.status = "authenticated" /\ Route(s) \in {"home", "onboarding"})
  BY <1>1 DEF Route
<1>3. s.status = "authenticated" => Route(s) \in {"home", "onboarding"}
  BY <1>1 DEF Route
<1>4. CASE s.status = "loading"
  BY <1>4 DEF Redirect, Fits
<1>5. CASE s.status = "authenticated"
  BY <1>5, <1>3 DEF Redirect, Fits, Screens, AuthScreens
<1>6. CASE s.status = "unauthenticated"
  BY <1>6, <1>2 DEF Redirect, Fits, Screens, AuthScreens
<1> QED
  BY <1>1, <1>4, <1>5, <1>6

(* The outcomes of authFetch for its caller. *)
LEMMA ResolveCases ==
  ASSUME NEW k \in Tasks, NEW result \in {"ok", "401", "refused", "network"},
         Resolve(k, result)
  PROVE  \/ result = "ok" /\ Reload(k)
         \/ task[k].leg = "act" /\ End(k) /\ UNCHANGED <<session, screen>>
         \/ /\ result = "ok"
            /\ task' = [task EXCEPT ![k].leg = "family", ![k].at = "fetch", ![k].pair = 0]
            /\ UNCHANGED <<session, screen>>
         \/ Loaded(k, SignedOut("offline")) \/ Loaded(k, SignedOut("expired"))
         \/ result = "ok" /\ \E family \in BOOLEAN : Loaded(k, SignedIn(family))
<1>1. CASE task[k].leg = "act"
  BY <1>1 DEF Resolve
<1>2. CASE task[k].leg # "act" /\ result = "network"
  BY <1>2 DEF Resolve
<1>3. CASE task[k].leg # "act" /\ result \in {"401", "refused"}
  BY <1>3 DEF Resolve
<1>4. CASE task[k].leg = "me" /\ result = "ok"
  BY <1>4 DEF Resolve
<1>5. CASE task[k].leg # "act" /\ task[k].leg # "me" /\ result = "ok"
  BY <1>5 DEF Resolve
<1> QED
  BY <1>1, <1>2, <1>3, <1>4, <1>5

LEMMA LoadedStep ==
  ASSUME task \in [Tasks -> Task], screen \in Screens, NEW k \in Tasks,
         NEW s \in Sessions, s.status # "loading", Loaded(k, s)
  PROVE  /\ task' \in [Tasks -> Task] /\ Others(k) /\ task'[k].at = "idle" /\ task'[k].pair = 0
         /\ session' = s /\ Fits(s, screen')
  BY EndShape, RoutesFit DEF Loaded

LEMMA ReloadStep ==
  ASSUME task \in [Tasks -> Task], screen \in Screens, NEW k \in Tasks, Reload(k)
  PROVE  /\ task' \in [Tasks -> Task] /\ Others(k) /\ task'[k].at = "read" /\ task'[k].pair = 0
         /\ session' = Loading /\ Fits(session', screen')
  BY ReloadShape, RoutesFit DEF Reload, SetSession, Sessions

-----------------------------------------------------------------------------
(* The state by parts, as the steps below take it up. *)

TellTypeOK == {theft, strayed, crowded, together, refused} \subseteq BOOLEAN
Parts ==
  /\ kept \in [access : PairOrNone, refresh : PairOrNone]
  /\ session \in Sessions /\ Fits(session, screen)
  /\ rotation \in Rotation
  /\ task \in [Tasks -> Task]
  /\ acts \in Nat
  /\ ApiTypeOK
  /\ TellTypeOK

LEMMA InvParts == MobileTypeOK /\ ScreenOfSession => Parts
  BY MobileTypes DEF MobileTypeOK, ScreenOfSession, Parts, Sessions, Fits, Screens, ApiTypeOK, TellTypeOK

LEMMA PartsInv == Parts => MobileTypeOK /\ ScreenOfSession
<1> SUFFICES ASSUME Parts PROVE MobileTypeOK /\ ScreenOfSession
  OBVIOUS
<1>1. session \in [status : {"loading", "authenticated", "unauthenticated"},
                   reason : {"none", "expired", "offline"}, family : BOOLEAN]
  BY SessionTypes DEF Parts
<1>2. MobileTypeOK
  BY <1>1 DEF MobileTypeOK, Parts, Fits, Screens, ApiTypeOK, TellTypeOK, Task, Rotation, Stages, Ops, Legs
<1>3. ScreenOfSession
  BY DEF ScreenOfSession, Parts, Sessions, Fits
<1> QED
  BY <1>2, <1>3

LEMMA PartsInvNext == Parts' => MobileTypeOK' /\ ScreenOfSession'
  BY PartsInv, PTL

-----------------------------------------------------------------------------
(* The kinds of step, by what they do to the store, to its writers and to  *)
(* the requests that wait for the rotation.                                *)

Aside == {"joined"} \cup Storing
Moved(k) == task' \in [Tasks -> Task] /\ Others(k)

(* k goes on, and neither writes nor waits. *)
Plain(k) ==
  /\ Moved(k) /\ task[k].at \notin Aside /\ task'[k].at \notin Aside
  /\ task'[k].pair \in {0, task[k].pair, kept.refresh}
  /\ UNCHANGED <<kept, rotation, issued, rotated, theft, strayed, crowded>>

(* k is about to write the store. *)
Begins(k) ==
  /\ Moved(k) /\ task[k].at \notin Aside /\ task'[k].at \in {"inSave", "outSave", "outWipe"}
  /\ UNCHANGED <<kept, rotation>>
  /\ crowded' = (crowded \/ Writing)
  /\ issued' \in PairOrNone
  /\ \/ /\ task'[k].at = "outWipe" /\ task'[k].pair = task[k].pair
        /\ issued' = issued
     \/ /\ task'[k].at # "outWipe" /\ task'[k].pair = issued'
        /\ issued' = issued + 1
  /\ \/ strayed'
     \/ UNCHANGED <<rotated, theft, strayed>> /\ task'[k].at # "outSave"

(* k writes one half of the store, or the other. *)
WritesAccess(k) ==
  /\ Moved(k) /\ task'[k].pair = task[k].pair
  /\ <<task[k].at, task'[k].at>> \in {<<"inSave", "inSave2">>, <<"outSave", "outSave2">>,
                                      <<"wipe", "wipe2">>, <<"outWipe", "outWipe2">>}
  /\ kept'.access = IF task[k].at \in {"inSave", "outSave"} THEN task[k].pair ELSE 0
  /\ kept'.refresh = kept.refresh
  /\ UNCHANGED <<rotation, issued, rotated, theft, strayed, crowded>>
WritesRefresh(k) ==
  /\ Moved(k) /\ task[k].at \in Halfway /\ task'[k].at \notin Aside
  /\ task'[k].pair \in {0, task[k].pair}
  /\ kept'.refresh = IF task[k].at \in {"inSave2", "outSave2"} THEN task[k].pair ELSE 0
  /\ kept'.access = kept.access
  /\ UNCHANGED <<rotation, issued, rotated, theft, strayed, crowded>>

LEMMA ReadTokensKind ==
  ASSUME Parts, NEW k \in Tasks, ReadTokens(k)
  PROVE  Plain(k) /\ Parts'
<1>1. SignedOut("none") \in Sessions /\ SignedOut("none").status # "loading" /\ screen \in Screens
  BY DEF Sessions, SignedOut, Parts, Fits
<1>2. CASE kept = NoTokens
  <2>1. Loaded(k, SignedOut("none"))
    BY <1>2 DEF ReadTokens
  <2>2. /\ task' \in [Tasks -> Task] /\ Others(k) /\ task'[k].at = "idle" /\ task'[k].pair = 0
        /\ session' \in Sessions /\ Fits(session', screen')
    BY <1>1, <2>1, LoadedStep DEF Parts
  <2> QED
    BY <2>2 DEF ReadTokens, Parts, Plain, Moved, Aside, Storing, apiVars, tellVars, ApiTypeOK, TellTypeOK
<1>3. CASE kept # NoTokens
  <2>1. Step(k, "fetch") /\ UNCHANGED <<session, screen>>
    BY <1>3 DEF ReadTokens
  <2>2. /\ task' \in [Tasks -> Task] /\ Others(k) /\ task'[k].at = "fetch"
        /\ task'[k].pair = task[k].pair
    BY <2>1, StepShape DEF Parts, Stages
  <2> QED
    BY <2>1, <2>2 DEF ReadTokens, Parts, Plain, Moved, Aside, Storing, apiVars, tellVars, ApiTypeOK, TellTypeOK, Fits
<1> QED
  BY <1>2, <1>3

(* Whatever authFetch gives its caller, the caller neither writes nor      *)
(* waits.                                                                  *)
LEMMA ResolveKind ==
  ASSUME Parts, NEW k \in Tasks, NEW result \in {"ok", "401", "refused", "network"},
         Resolve(k, result)
  PROVE  /\ Moved(k) /\ task'[k].at \in {"idle", "read", "fetch"} /\ task'[k].pair = 0
         /\ session' \in Sessions /\ Fits(session', screen')
<1>0. screen \in Screens /\ task \in [Tasks -> Task]
  BY DEF Parts, Fits
<1>1. CASE Reload(k)
  BY <1>0, <1>1, ReloadStep DEF Moved, Sessions
<1>2. CASE End(k) /\ UNCHANGED <<session, screen>>
  BY <1>0, <1>2, EndShape DEF Moved, Parts, Fits
<1>3. CASE /\ task' = [task EXCEPT ![k].leg = "family", ![k].at = "fetch", ![k].pair = 0]
           /\ UNCHANGED <<session, screen>>
  BY <1>0, <1>3, FamilyShape DEF Moved, Parts, Fits
<1>4. ASSUME NEW s \in Sessions, s.status # "loading", Loaded(k, s)
      PROVE  /\ Moved(k) /\ task'[k].at \in {"idle", "read", "fetch"} /\ task'[k].pair = 0
             /\ session' \in Sessions /\ Fits(session', screen')
  BY <1>0, <1>4, LoadedStep DEF Moved
<1>5. \A why \in {"offline", "expired"} :
        SignedOut(why) \in Sessions /\ SignedOut(why).status # "loading"
  BY DEF Sessions, SignedOut
<1>6. \A family \in BOOLEAN : SignedIn(family) \in Sessions /\ SignedIn(family).status # "loading"
  BY DEF Sessions, SignedIn
<1> QED
  BY <1>1, <1>2, <1>3, <1>4, <1>5, <1>6, ResolveCases

LEMMA FetchKind ==
  ASSUME Parts, NEW k \in Tasks, Fetch(k)
  PROVE  Plain(k) /\ Parts'
<1>1. /\ task[k].at \notin Aside /\ acts' = acts
      /\ UNCHANGED <<kept, rotation, issued, origin, live, stale, rotated, theft, strayed, crowded, together>>
      /\ profile' \in {"none", "unverified", "verified"} /\ refused' = refused
  BY DEF Fetch, Aside, Storing, Parts, ApiTypeOK
<1>2. /\ Moved(k) /\ task'[k].at \notin Aside /\ task'[k].pair \in {0, task[k].pair}
      /\ session' \in Sessions /\ Fits(session', screen')
  <2>1. CASE \E result \in {"ok", "401", "refused", "network"} : Resolve(k, result)
    BY <2>1, ResolveKind DEF Aside, Storing
  <2>2. CASE Step(k, "renew") /\ UNCHANGED <<session, screen>>
    BY <2>2, StepShape DEF Parts, Stages, Moved, Aside, Storing, Fits
  <2> QED
    BY <2>1, <2>2 DEF Fetch
<1> QED
  BY <1>1, <1>2 DEF Plain, Parts, Moved, ApiTypeOK, TellTypeOK

LEMMA DeniedKind ==
  ASSUME Parts, NEW k \in Tasks, Denied(k)
  PROVE  Plain(k) /\ Parts'
<1>1. /\ Moved(k) /\ task'[k].at \notin Aside /\ task'[k].pair = 0
      /\ session' \in Sessions /\ Fits(session', screen')
  BY ResolveKind DEF Denied, Aside, Storing
<1> QED
  BY <1>1 DEF Denied, Plain, Parts, Moved, ApiTypeOK, TellTypeOK, apiVars, Aside, Storing

(* k finds no refresh token, or waits for a rotation. *)
Joins(k) ==
  /\ Moved(k) /\ task[k].at \notin Aside /\ task'[k].at = "joined"
  /\ task'[k].pair = task[k].pair
  /\ kept.refresh # 0
  /\ rotation' = IF rotation.stage = "none"
                   THEN [stage |-> "sent", token |-> kept.refresh, pair |-> 0] ELSE rotation
  /\ UNCHANGED <<kept, issued, rotated, theft, strayed, crowded>>

LEMMA RenewKind ==
  ASSUME Parts, NEW k \in Tasks, Renew(k)
  PROVE  (Plain(k) \/ Joins(k)) /\ Parts'
<1>1. [stage |-> "sent", token |-> kept.refresh, pair |-> 0] \in Rotation
  BY ZeroIsNone DEF Rotation, Parts
<1>2. CASE kept.refresh = 0
  <2>1. Step(k, "denied") /\ rotation' = rotation
    BY <1>2 DEF Renew
  <2>2. Moved(k) /\ task'[k].at = "denied" /\ task'[k].pair = task[k].pair
    BY <2>1, StepShape DEF Parts, Stages, Moved
  <2> QED
    BY <2>1, <2>2 DEF Renew, Plain, Parts, Moved, ApiTypeOK, TellTypeOK, apiVars, tellVars, Aside, Storing, Fits
<1>3. CASE kept.refresh # 0
  <2>1. Step(k, "joined")
    BY <1>3 DEF Renew
  <2>2. Moved(k) /\ task'[k].at = "joined" /\ task'[k].pair = task[k].pair
    BY <2>1, StepShape DEF Parts, Stages, Moved
  <2> QED
    BY <1>1, <1>3, <2>2 DEF Renew, Joins, Parts, Moved, ApiTypeOK, TellTypeOK, apiVars, tellVars, Aside, Storing, Fits
<1> QED
  BY <1>2, <1>3

LEMMA WipeKind ==
  ASSUME Parts, NEW k \in Tasks, Wipe(k)
  PROVE  (WritesAccess(k) \/ WritesRefresh(k)) /\ Parts'
<1>1. CASE task[k].at = "wipe"
  <2>1. Step(k, "wipe2") /\ kept' = [kept EXCEPT !.access = 0]
    BY <1>1 DEF Wipe
  <2>2. Moved(k) /\ task'[k].at = "wipe2" /\ task'[k].pair = task[k].pair
    BY <2>1, StepShape DEF Parts, Stages, Moved, Storing
  <2>3. /\ kept' \in [access : PairOrNone, refresh : PairOrNone]
        /\ kept'.access = 0 /\ kept'.refresh = kept.refresh
    BY <2>1, ZeroIsNone DEF Parts
  <2> QED
    BY <1>1, <2>2, <2>3 DEF Wipe, WritesAccess, Parts, Moved, ApiTypeOK, TellTypeOK, apiVars, tellVars, Fits
<1>2. CASE task[k].at = "wipe2"
  <2>1. Step(k, "denied") /\ kept' = [kept EXCEPT !.refresh = 0]
    BY <1>2 DEF Wipe
  <2>2. Moved(k) /\ task'[k].at = "denied" /\ task'[k].pair = task[k].pair
    BY <2>1, StepShape DEF Parts, Stages, Moved, Storing
  <2>3. /\ kept' \in [access : PairOrNone, refresh : PairOrNone]
        /\ kept'.refresh = 0 /\ kept'.access = kept.access
    BY <2>1, ZeroIsNone DEF Parts
  <2> QED
    BY <1>2, <2>2, <2>3 DEF Wipe, WritesRefresh, Halfway, Aside, Storing, Parts, Moved, ApiTypeOK, TellTypeOK, apiVars, tellVars, Fits
<1> QED
  BY <1>1, <1>2 DEF Wipe

LEMMA LoginAnsweredKind ==
  ASSUME Parts, NEW k \in Tasks, LoginAnswered(k)
  PROVE  (Plain(k) \/ Begins(k)) /\ Parts'
<1>1. CASE /\ IssuePair(0, {}) /\ crowded' = (crowded \/ Writing)
           /\ task' = [task EXCEPT ![k].at = "inSave", ![k].pair = issued + 1]
  <2>1. rotated' \subseteq 1 .. issued + 1
    BY MobileAssumption DEF LoginAnswered, Parts, ApiTypeOK, PairOrNone
  <2>2. ApiTypeOK' /\ issued' = issued + 1 /\ issued' \in PairOrNone
    BY <1>1, <2>1, IssueStep, ZeroIsNone DEF Parts
  <2>3. Moved(k) /\ task'[k].at = "inSave" /\ task'[k].pair = issued'
    BY <1>1, <2>2, TakeShape DEF Parts, Stages, Moved, Storing
  <2> QED
    BY <1>1, <2>2, <2>3 DEF LoginAnswered, Begins, Aside, Storing, Parts, Moved, TellTypeOK, Fits
<1>2. CASE End(k) /\ UNCHANGED <<apiVars, crowded>>
  <2>1. Moved(k) /\ task'[k].at = "idle" /\ task'[k].pair = 0
    BY <1>2, EndShape DEF Parts, Moved
  <2> QED
    BY <1>2, <2>1 DEF LoginAnswered, Plain, Aside, Storing, Parts, Moved, TellTypeOK, ApiTypeOK, apiVars, Fits
<1> QED
  BY <1>1, <1>2 DEF LoginAnswered

LEMMA EstablishSessionKind ==
  ASSUME Parts, NEW k \in Tasks, EstablishSession(k)
  PROVE  (WritesAccess(k) \/ WritesRefresh(k)) /\ Parts'
<1>0. task[k].pair \in PairOrNone
  BY DEF Parts, Task
<1>1. CASE task[k].at = "inSave"
  <2>1. Step(k, "inSave2") /\ kept' = [kept EXCEPT !.access = task[k].pair] /\ UNCHANGED <<session, screen>>
    BY <1>1 DEF EstablishSession
  <2>2. Moved(k) /\ task'[k].at = "inSave2" /\ task'[k].pair = task[k].pair
    BY <2>1, StepShape DEF Parts, Stages, Moved, Storing
  <2>3. /\ kept' \in [access : PairOrNone, refresh : PairOrNone]
        /\ kept'.access = task[k].pair /\ kept'.refresh = kept.refresh
    BY <1>0, <2>1 DEF Parts
  <2> QED
    BY <1>1, <2>1, <2>2, <2>3 DEF EstablishSession, WritesAccess, Parts, Moved, ApiTypeOK, TellTypeOK, apiVars, tellVars, Fits
<1>2. CASE task[k].at = "inSave2"
  <2>1. Reload(k) /\ kept' = [kept EXCEPT !.refresh = task[k].pair]
    BY <1>2 DEF EstablishSession
  <2>2. /\ Moved(k) /\ task'[k].at = "read" /\ task'[k].pair = 0
        /\ session' \in Sessions /\ Fits(session', screen')
    BY <2>1, ReloadStep DEF Parts, Moved, Fits, Sessions
  <2>3. /\ kept' \in [access : PairOrNone, refresh : PairOrNone]
        /\ kept'.refresh = task[k].pair /\ kept'.access = kept.access
    BY <1>0, <2>1 DEF Parts
  <2> QED
    BY <1>2, <2>2, <2>3 DEF EstablishSession, WritesRefresh, Halfway, Aside, Storing, Parts, Moved, ApiTypeOK, TellTypeOK, apiVars, tellVars
<1> QED
  BY <1>1, <1>2 DEF EstablishSession

(* A sign-out that goes on to wipe the store. *)
LEMMA ToWipeKind ==
  ASSUME Parts, NEW k \in Tasks, task[k].at \notin Aside, Step(k, "outWipe"),
         crowded' = (crowded \/ Writing), strayed' \/ UNCHANGED <<rotated, theft, strayed>>,
         UNCHANGED <<kept, rotation, issued>>
  PROVE  Begins(k)
<1>1. Moved(k) /\ task'[k].at = "outWipe" /\ task'[k].pair = task[k].pair
  BY StepShape DEF Parts, Stages, Moved, Storing
<1> QED
  BY <1>1 DEF Begins, Parts, ApiTypeOK

LEMMA SignOutReadsKind ==
  ASSUME Parts, NEW k \in Tasks, SignOutReads(k)
  PROVE  (Plain(k) \/ Begins(k)) /\ Parts'
<1>0. task[k].at \notin Aside
  BY DEF SignOutReads, Aside, Storing
<1>1. CASE kept.refresh = 0
  <2>1. Step(k, "outWipe") /\ crowded' = (crowded \/ Writing)
    BY <1>1 DEF SignOutReads
  <2>2. Begins(k)
    BY <1>0, <2>1, ToWipeKind DEF SignOutReads, apiVars
  <2> QED
    BY <2>1, <2>2 DEF Begins, SignOutReads, Parts, Moved, ApiTypeOK, TellTypeOK, apiVars, Fits
<1>2. CASE kept.refresh # 0
  <2>1. task' = [task EXCEPT ![k].at = "outPost", ![k].pair = kept.refresh] /\ crowded' = crowded
    BY <1>2 DEF SignOutReads
  <2>2. Moved(k) /\ task'[k].at = "outPost" /\ task'[k].pair = kept.refresh
    <3>1. kept.refresh \in PairOrNone
      BY DEF Parts
    <3> QED
      BY <2>1, <3>1, TakeShape DEF Parts, Stages, Moved
  <2> QED
    BY <1>0, <2>1, <2>2 DEF SignOutReads, Plain, Aside, Storing, Parts, Moved, ApiTypeOK, TellTypeOK, apiVars, Fits
<1> QED
  BY <1>1, <1>2

LEMMA SignOutPostsKind ==
  ASSUME Parts, NEW k \in Tasks, SignOutPosts(k)
  PROVE  (Plain(k) \/ Begins(k)) /\ Parts'
<1>0. task[k].at \notin Aside
  BY DEF SignOutPosts, Aside, Storing
<1>1. ApiTypeOK'
  BY DEF SignOutPosts, Parts, ApiTypeOK
<1>2. CASE Step(k, "outWipe") /\ crowded' = (crowded \/ Writing)
  <2>1. Begins(k)
    BY <1>0, <1>2, ToWipeKind DEF SignOutPosts
  <2> QED
    BY <1>1, <1>2, <2>1 DEF Begins, SignOutPosts, Parts, Moved, TellTypeOK, Fits
<1>3. CASE Step(k, "outRefresh") /\ UNCHANGED <<live, crowded>>
  <2>1. Moved(k) /\ task'[k].at = "outRefresh" /\ task'[k].pair = task[k].pair
    BY <1>3, StepShape DEF Parts, Stages, Moved
  <2> QED
    BY <1>0, <1>1, <1>3, <2>1 DEF SignOutPosts, Plain, Aside, Storing, Parts, Moved, TellTypeOK, Fits
<1> QED
  BY <1>2, <1>3 DEF SignOutPosts

LEMMA SignOutRefreshesKind ==
  ASSUME Parts, NEW k \in Tasks, SignOutRefreshes(k)
  PROVE  Begins(k) /\ Parts'
<1>0. task[k].at \notin Aside
  BY DEF SignOutRefreshes, Aside, Storing
<1>1. CASE /\ Rotate(task[k].pair)
           /\ task' = [task EXCEPT ![k].at = "outSave", ![k].pair = issued + 1]
  <2>1. /\ ApiTypeOK' /\ issued' = issued + 1 /\ issued' \in PairOrNone /\ theft' = theft
    BY <1>1, RotateStep DEF Parts
  <2>2. Moved(k) /\ task'[k].at = "outSave" /\ task'[k].pair = issued'
    BY <1>1, <2>1, TakeShape DEF Parts, Stages, Moved, Storing
  <2> QED
    BY <1>0, <2>1, <2>2 DEF SignOutRefreshes, Begins, Parts, Moved, TellTypeOK, Fits
<1>2. CASE EndChain(task[k].pair) /\ Step(k, "outWipe")
  <2>1. ApiTypeOK' /\ issued' = issued /\ theft' \in BOOLEAN
    BY <1>2, EndChainStep DEF Parts, TellTypeOK
  <2>2. Begins(k)
    BY <1>0, <1>2, <2>1, ToWipeKind DEF SignOutRefreshes
  <2> QED
    BY <2>1, <2>2 DEF SignOutRefreshes, Begins, Parts, Moved, TellTypeOK, Fits
<1>3. CASE Step(k, "outWipe") /\ UNCHANGED <<apiVars, rotated, theft>>
  <2>1. Begins(k)
    BY <1>0, <1>3, ToWipeKind DEF SignOutRefreshes, apiVars
  <2> QED
    BY <1>3, <2>1 DEF SignOutRefreshes, Begins, Parts, Moved, TellTypeOK, ApiTypeOK, apiVars, Fits
<1> QED
  BY <1>1, <1>2, <1>3 DEF SignOutRefreshes

LEMMA SignOutSavesKind ==
  ASSUME Parts, NEW k \in Tasks, SignOutSaves(k)
  PROVE  (WritesAccess(k) \/ WritesRefresh(k)) /\ Parts'
<1>0. task[k].pair \in PairOrNone
  BY DEF Parts, Task
<1>1. CASE task[k].at = "outSave"
  <2>1. Step(k, "outSave2") /\ kept' = [kept EXCEPT !.access = task[k].pair]
    BY <1>1 DEF SignOutSaves
  <2>2. Moved(k) /\ task'[k].at = "outSave2" /\ task'[k].pair = task[k].pair
    BY <2>1, StepShape DEF Parts, Stages, Moved, Storing
  <2>3. /\ kept' \in [access : PairOrNone, refresh : PairOrNone]
        /\ kept'.access = task[k].pair /\ kept'.refresh = kept.refresh
    BY <1>0, <2>1 DEF Parts
  <2> QED
    BY <1>1, <2>2, <2>3 DEF SignOutSaves, WritesAccess, Parts, Moved, ApiTypeOK, TellTypeOK, apiVars, tellVars, Fits
<1>2. CASE task[k].at = "outSave2"
  <2>1. Step(k, "outPost2") /\ kept' = [kept EXCEPT !.refresh = task[k].pair]
    BY <1>2 DEF SignOutSaves
  <2>2. Moved(k) /\ task'[k].at = "outPost2" /\ task'[k].pair = task[k].pair
    BY <2>1, StepShape DEF Parts, Stages, Moved
  <2>3. /\ kept' \in [access : PairOrNone, refresh : PairOrNone]
        /\ kept'.refresh = task[k].pair /\ kept'.access = kept.access
    BY <1>0, <2>1 DEF Parts
  <2> QED
    BY <1>2, <2>2, <2>3 DEF SignOutSaves, WritesRefresh, Halfway, Aside, Storing, Parts, Moved, ApiTypeOK, TellTypeOK, apiVars, tellVars, Fits
<1> QED
  BY <1>1, <1>2 DEF SignOutSaves

LEMMA SignOutWipesKind ==
  ASSUME Parts, NEW k \in Tasks, SignOutWipes(k)
  PROVE  (WritesAccess(k) \/ WritesRefresh(k)) /\ Parts'
<1>1. CASE task[k].at = "outWipe"
  <2>1. Step(k, "outWipe2") /\ kept' = [kept EXCEPT !.access = 0] /\ UNCHANGED <<session, screen>>
    BY <1>1 DEF SignOutWipes
  <2>2. Moved(k) /\ task'[k].at = "outWipe2" /\ task'[k].pair = task[k].pair
    BY <2>1, StepShape DEF Parts, Stages, Moved, Storing
  <2>3. /\ kept' \in [access : PairOrNone, refresh : PairOrNone]
        /\ kept'.access = 0 /\ kept'.refresh = kept.refresh
    BY <2>1, ZeroIsNone DEF Parts
  <2> QED
    BY <1>1, <2>1, <2>2, <2>3 DEF SignOutWipes, WritesAccess, Parts, Moved, ApiTypeOK, TellTypeOK, apiVars, tellVars, Fits
<1>2. CASE task[k].at = "outWipe2"
  <2>1. End(k) /\ kept' = [kept EXCEPT !.refresh = 0] /\ SetSession(SignedOut("none"))
    BY <1>2 DEF SignOutWipes
  <2>2. Moved(k) /\ task'[k].at = "idle" /\ task'[k].pair = 0
    BY <2>1, EndShape DEF Parts, Moved
  <2>3. /\ kept' \in [access : PairOrNone, refresh : PairOrNone]
        /\ kept'.refresh = 0 /\ kept'.access = kept.access
    BY <2>1, ZeroIsNone DEF Parts
  <2>4. session' \in Sessions /\ Fits(session', screen')
    <3>1. SignedOut("none") \in Sessions /\ screen \in Screens
      BY DEF Sessions, Parts, Fits
    <3> QED
      BY <2>1, <3>1, RoutesFit DEF SetSession
  <2> QED
    BY <1>2, <2>2, <2>3, <2>4 DEF SignOutWipes, WritesRefresh, Halfway, Aside, Storing, Parts, Moved, ApiTypeOK, TellTypeOK, apiVars, tellVars
<1> QED
  BY <1>1, <1>2 DEF SignOutWipes

(* What the user starts is a task at its first step. *)
Opening == {"read", "fetch", "login", "outRead"}

LEMMA StartKind ==
  ASSUME Parts, NEW k \in Tasks, NEW t \in Task, t.at \in Opening, t.pair = 0, Start(k, t),
         session' \in Sessions, Fits(session', screen')
  PROVE  Plain(k) /\ Parts' /\ task'[k] = t
<1>1. Moved(k) /\ task'[k] = t
  BY DEF Start, Parts, Moved, Others
<1> QED
  BY <1>1 DEF Start, Plain, Opening, Aside, Storing, Parts, Moved, ApiTypeOK, TellTypeOK, apiVars

LEMMA UserActsKind ==
  ASSUME Parts, NEW k \in Tasks, UserActs(k)
  PROVE  Plain(k) /\ Parts' /\ task[k].at = "idle"
<1>0. Loading \in Sessions /\ screen \in Screens /\ session \in Sessions /\ Fits(session, screen)
  BY DEF Sessions, Parts, Fits
<1>1. CASE SubmitSignIn(k)
  <2> DEFINE t == [Sleeping EXCEPT !.at = "login", !.op = "signIn"]
  <2>1. t \in Task /\ t.at \in Opening /\ t.pair = 0
    BY ZeroIsNone DEF Sleeping, Task, Stages, Ops, Legs, Opening
  <2>2. Start(k, t) /\ UNCHANGED <<session, screen>>
    BY <1>1 DEF SubmitSignIn
  <2> HIDE DEF t
  <2> QED
    BY <1>0, <2>1, <2>2, StartKind DEF Start, Fits
<1>2. CASE SubmitCode(k)
  <2> DEFINE t == [Sleeping EXCEPT !.at = "fetch", !.op = "verify", !.leg = "act"]
  <2>1. t \in Task /\ t.at \in Opening /\ t.pair = 0
    BY ZeroIsNone DEF Sleeping, Task, Stages, Ops, Legs, Opening
  <2>2. Start(k, t) /\ UNCHANGED <<session, screen>>
    BY <1>2 DEF SubmitCode
  <2> HIDE DEF t
  <2> QED
    BY <1>0, <2>1, <2>2, StartKind DEF Start, Fits
<1>3. CASE PressResend(k)
  <2> DEFINE t == [Sleeping EXCEPT !.at = "fetch", !.op = "resend", !.leg = "act"]
  <2>1. t \in Task /\ t.at \in Opening /\ t.pair = 0
    BY ZeroIsNone DEF Sleeping, Task, Stages, Ops, Legs, Opening
  <2>2. Start(k, t) /\ UNCHANGED <<session, screen>>
    BY <1>3 DEF PressResend
  <2> HIDE DEF t
  <2> QED
    BY <1>0, <2>1, <2>2, StartKind DEF Start, Fits
<1>4. CASE PressSync(k)
  <2>1. Start(k, Starting) /\ session' = Loading /\ Fits(session', screen')
    BY <1>0, <1>4, RoutesFit DEF PressSync, SetSession
  <2> QED
    BY <1>0, <2>1, StartKind, StartingShape DEF Start, Opening
<1>5. CASE PressSignOut(k)
  <2> DEFINE t == [Sleeping EXCEPT !.at = "outRead", !.op = "signOut"]
  <2>1. t \in Task /\ t.at \in Opening /\ t.pair = 0
    BY ZeroIsNone DEF Sleeping, Task, Stages, Ops, Legs, Opening
  <2>2. Start(k, t) /\ UNCHANGED <<session, screen>>
    BY <1>5 DEF PressSignOut
  <2> HIDE DEF t
  <2> QED
    BY <1>0, <2>1, <2>2, StartKind DEF Start, Fits
<1>6. CASE Foreground(k)
  <2>1. Start(k, Starting) /\ UNCHANGED <<session, screen>>
    BY <1>6 DEF Foreground
  <2> QED
    BY <1>0, <2>1, StartKind, StartingShape DEF Start, Opening, Fits
<1> QED
  BY <1>1, <1>2, <1>3, <1>4, <1>5, <1>6 DEF UserActs

(* Every step of a task is of one of these kinds. *)
LEMMA TaskKinds ==
  ASSUME Parts, NEW k \in Tasks, TaskStep(k) \/ UserActs(k)
  PROVE  /\ Plain(k) \/ Joins(k) \/ Begins(k) \/ WritesAccess(k) \/ WritesRefresh(k)
         /\ Parts'
  BY ReadTokensKind, FetchKind, RenewKind, DeniedKind, WipeKind, LoginAnsweredKind,
     EstablishSessionKind, SignOutReadsKind, SignOutPostsKind, SignOutRefreshesKind,
     SignOutSavesKind, SignOutWipesKind, UserActsKind DEF TaskStep

(* The rotation's own steps: its request is granted, or it ends and the    *)
(* requests waiting for it go on at the stage given.                       *)
Granted ==
  /\ rotation.stage = "sent"
  /\ rotation'.stage = "save" /\ rotation'.token = rotation.token /\ rotation'.pair = issued'
  /\ Rotate(rotation.token)
  /\ issued' = issued + 1 /\ rotated' = rotated \cup {rotation.token}
  /\ crowded' = (crowded \/ Writing)
  /\ UNCHANGED <<kept, task, theft, strayed>>
Woken(stage, p) ==
  /\ rotation.stage # "none" /\ rotation' = Resting
  /\ task' \in [Tasks -> Task]
  /\ \A k \in Tasks : task[k].at = "joined" => task'[k].at = stage /\ task'[k].pair = p
  /\ \A k \in Tasks : task[k].at # "joined" => task'[k] = task[k]
Lost ==
  /\ rotation.stage = "sent" /\ Woken("denied", 0)
  /\ \/ strayed' /\ issued' = issued + 1
     \/ UNCHANGED <<rotated, theft, strayed, issued>>
  /\ UNCHANGED <<kept, crowded>>
Ended ==
  /\ rotation.stage = "sent" /\ Woken("wipe", 0)
  /\ theft' = (theft \/ rotation.token \in rotated)
  /\ crowded' = (crowded \/ Writing)
  /\ UNCHANGED <<kept, rotated, strayed, issued>>
SavesAccess ==
  /\ rotation.stage = "save" /\ rotation'.stage = "save2"
  /\ rotation'.token = rotation.token /\ rotation'.pair = rotation.pair
  /\ kept'.access = rotation.pair /\ kept'.refresh = kept.refresh
  /\ UNCHANGED <<task, issued, rotated, theft, strayed, crowded>>
SavesRefresh ==
  /\ rotation.stage = "save2" /\ Woken("retry", rotation.pair)
  /\ kept'.refresh = rotation.pair /\ kept'.access = kept.access
  /\ UNCHANGED <<issued, rotated, theft, strayed, crowded>>

LEMMA RestingShape == Resting \in Rotation /\ Resting.stage = "none" /\ Resting.token = 0 /\ Resting.pair = 0
  BY ZeroIsNone DEF Resting, Rotation

LEMMA RotationAnsweredKind ==
  ASSUME Parts, RotationAnswered
  PROVE  (Granted \/ Lost \/ Ended) /\ Parts'
<1>0. task \in [Tasks -> Task] /\ rotation \in Rotation /\ ApiTypeOK
  BY DEF Parts
<1>1. CASE /\ Rotate(rotation.token)
           /\ rotation' = [rotation EXCEPT !.stage = "save", !.pair = issued + 1]
           /\ crowded' = (crowded \/ Writing)
           /\ UNCHANGED <<task, strayed>>
  <2>1. /\ ApiTypeOK' /\ issued' = issued + 1 /\ issued' \in PairOrNone /\ theft' = theft
        /\ rotated' = rotated \cup {rotation.token}
    BY <1>0, <1>1, RotateStep
  <2>2. /\ rotation' \in Rotation
        /\ rotation'.stage = "save" /\ rotation'.token = rotation.token /\ rotation'.pair = issued'
    BY <1>0, <1>1, <2>1 DEF Rotation
  <2> QED
    BY <1>1, <2>1, <2>2 DEF RotationAnswered, Granted, Parts, TellTypeOK, Fits
<1>2. CASE /\ Rotate(rotation.token) /\ rotation' = Resting /\ WakeAll("denied", 0)
           /\ strayed' = TRUE /\ UNCHANGED crowded
  <2>1. ApiTypeOK' /\ issued' = issued + 1 /\ theft' = theft
    BY <1>0, <1>2, RotateStep
  <2>2. Woken("denied", 0)
    BY <1>0, <1>2, WakeShape, ZeroIsNone DEF RotationAnswered, Woken, Stages
  <2> QED
    BY <1>2, <2>1, <2>2, RestingShape DEF RotationAnswered, Lost, Woken, Parts, TellTypeOK, Fits
<1>3. CASE /\ EndChain(rotation.token) /\ rotation' = Resting /\ WakeAll("wipe", 0)
           /\ crowded' = (crowded \/ Writing) /\ UNCHANGED strayed
  <2>1. /\ ApiTypeOK' /\ issued' = issued /\ rotated' = rotated
        /\ theft' = (theft \/ rotation.token \in rotated)
    BY <1>0, <1>3, EndChainStep
  <2>2. Woken("wipe", 0)
    BY <1>0, <1>3, WakeShape, ZeroIsNone DEF RotationAnswered, Woken, Stages, Storing
  <2> QED
    BY <1>3, <2>1, <2>2, RestingShape DEF RotationAnswered, Ended, Woken, Parts, TellTypeOK, Fits
<1>4. CASE /\ rotation' = Resting /\ WakeAll("denied", 0)
           /\ UNCHANGED <<apiVars, rotated, theft, strayed, crowded>>
  <2>1. Woken("denied", 0)
    BY <1>0, <1>4, WakeShape, ZeroIsNone DEF RotationAnswered, Woken, Stages
  <2> QED
    BY <1>4, <2>1, RestingShape DEF RotationAnswered, Lost, Woken, Parts, TellTypeOK, ApiTypeOK, apiVars, Fits
<1> QED
  BY <1>1, <1>2, <1>3, <1>4 DEF RotationAnswered

LEMMA RotationSavesKind ==
  ASSUME Parts, RotationSaves
  PROVE  (SavesAccess \/ SavesRefresh) /\ Parts'
<1>0. task \in [Tasks -> Task] /\ rotation \in Rotation /\ rotation.pair \in PairOrNone
  BY DEF Parts, Rotation
<1>1. CASE /\ rotation.stage = "save" /\ kept' = [kept EXCEPT !.access = rotation.pair]
           /\ rotation' = [rotation EXCEPT !.stage = "save2"] /\ UNCHANGED task
  <2>1. /\ rotation' \in Rotation
        /\ rotation'.stage = "save2" /\ rotation'.token = rotation.token /\ rotation'.pair = rotation.pair
    BY <1>0, <1>1 DEF Rotation
  <2>2. /\ kept' \in [access : PairOrNone, refresh : PairOrNone]
        /\ kept'.access = rotation.pair /\ kept'.refresh = kept.refresh
    BY <1>0, <1>1 DEF Parts
  <2> QED
    BY <1>1, <2>1, <2>2 DEF RotationSaves, SavesAccess, Parts, TellTypeOK, ApiTypeOK, apiVars, tellVars, Fits
<1>2. CASE /\ rotation.stage = "save2" /\ kept' = [kept EXCEPT !.refresh = rotation.pair]
           /\ rotation' = Resting /\ WakeAll("retry", rotation.pair)
  <2>1. Woken("retry", rotation.pair)
    BY <1>0, <1>2, WakeShape DEF Woken, Stages
  <2>2. /\ kept' \in [access : PairOrNone, refresh : PairOrNone]
        /\ kept'.refresh = rotation.pair /\ kept'.access = kept.access
    BY <1>0, <1>2 DEF Parts
  <2> QED
    BY <1>2, <2>1, <2>2, RestingShape DEF RotationSaves, SavesRefresh, Woken, Parts, TellTypeOK, ApiTypeOK, apiVars, tellVars, Fits
<1> QED
  BY <1>1, <1>2 DEF RotationSaves

LEMMA RotationKinds ==
  ASSUME Parts, RotationStep
  PROVE  (Granted \/ Lost \/ Ended \/ SavesAccess \/ SavesRefresh) /\ Parts'
  BY RotationAnsweredKind, RotationSavesKind DEF RotationStep

(* The app is killed: what it had in memory is gone. *)
Restarted ==
  /\ task' = [k \in Tasks |-> IF k = Launcher THEN Starting ELSE Sleeping]
  /\ rotation' = Resting /\ session' = Loading
  /\ issued' \in {issued, issued + 1}
  /\ crowded' = (crowded \/ Writing)
  /\ strayed' = (strayed \/ rotation.stage # "none")
  /\ rotation.stage = "none" => rotated' = rotated
  /\ UNCHANGED <<kept, theft, together>>

LEMMA RestartKind ==
  ASSUME Parts, KillAndRestart
  PROVE  Restarted /\ Parts'
<1>1. task' \in [Tasks -> Task]
  BY SleepingShape, StartingShape DEF KillAndRestart
<1>2. Loading \in Sessions /\ Fits(Loading, "signIn")
  BY DEF Sessions, Fits, Screens, AuthScreens, Loading
<1>3. CASE UNCHANGED <<apiVars, rotated, theft>>
  BY <1>1, <1>2, <1>3, RestingShape DEF KillAndRestart, Restarted, Parts, TellTypeOK, ApiTypeOK, apiVars
<1>4. CASE rotation.stage = "sent" /\ Rotate(rotation.token)
  <2>1. ApiTypeOK' /\ issued' = issued + 1 /\ theft' = theft
    BY <1>4, RotateStep DEF Parts
  <2> QED
    BY <1>1, <1>2, <1>4, <2>1, RestingShape DEF KillAndRestart, Restarted, Parts, TellTypeOK
<1> QED
  BY <1>3, <1>4 DEF KillAndRestart

(* What leaves the tasks, the store and the rotation as they are. *)
Elsewhere ==
  UNCHANGED <<kept, session, rotation, task, issued, rotated, theft, strayed, crowded, together>>

LEMMA ElsewhereKind ==
  ASSUME Parts, SubmitSignUp \/ RevokeElsewhere \/ (\E p \in 1 .. issued : ExpireAccess(p))
  PROVE  Elsewhere /\ Parts'
<1>1. CASE SubmitSignUp
  <2>1. Fits(session, "verify")
    BY <1>1 DEF SubmitSignUp, Shows, Parts, Fits, Screens, AuthScreens
  <2> QED
    BY <1>1, <2>1 DEF SubmitSignUp, Elsewhere, Parts, ApiTypeOK, TellTypeOK, tellVars
<1>2. CASE RevokeElsewhere
  BY <1>2 DEF RevokeElsewhere, Elsewhere, Parts, ApiTypeOK, TellTypeOK, tellVars, appVars, Fits
<1>3. CASE \E p \in 1 .. issued : ExpireAccess(p)
  BY <1>3 DEF ExpireAccess, Elsewhere, Parts, ApiTypeOK, TellTypeOK, tellVars, appVars, Fits
<1> QED
  BY <1>1, <1>2, <1>3

TaskKind(k) == Plain(k) \/ Joins(k) \/ Begins(k) \/ WritesAccess(k) \/ WritesRefresh(k)
RotationKind == Granted \/ Lost \/ Ended \/ SavesAccess \/ SavesRefresh
Kinds == (\E k \in Tasks : TaskKind(k)) \/ RotationKind \/ Restarted \/ Elsewhere

LEMMA NextKinds ==
  ASSUME Parts, [MobileNext]_mobileVars
  PROVE  Kinds /\ Parts'
<1>1. ASSUME NEW k \in Tasks, TaskStep(k) \/ UserActs(k)
      PROVE  TaskKind(k) /\ Parts'
  BY <1>1, TaskKinds DEF TaskKind
<1>2. CASE RotationStep
  BY <1>2, RotationKinds DEF Kinds, RotationKind
<1>3. CASE KillAndRestart
  BY <1>3, RestartKind DEF Kinds
<1>4. CASE SubmitSignUp \/ RevokeElsewhere \/ (\E p \in 1 .. issued : ExpireAccess(p))
  BY <1>4, ElsewhereKind DEF Kinds
<1>5. CASE UNCHANGED mobileVars
  BY <1>5 DEF mobileVars, Kinds, Elsewhere, Parts, Fits, ApiTypeOK, TellTypeOK
<1> QED
  BY <1>1, <1>2, <1>3, <1>4, <1>5 DEF MobileNext, Kinds

LEMMA Numbers == Parts => issued \in Nat /\ kept.access \in Nat /\ kept.refresh \in Nat /\ rotation.pair \in Nat
                          /\ rotation.token \in Nat /\ \A k \in Tasks : task[k].pair \in Nat
  BY MobileAssumption DEF Parts, ApiTypeOK, PairOrNone, Rotation, Task

-----------------------------------------------------------------------------
(* Pairs are issued before they are held. *)

LEMMA PairsIssuedStep ==
  ASSUME Parts, Parts', PairsIssued, Kinds
  PROVE  PairsIssued'
<1>0. /\ issued \in Nat /\ kept.access \in Nat /\ kept.refresh \in Nat
      /\ rotation.pair \in Nat /\ rotation.token \in Nat /\ \A k \in Tasks : task[k].pair \in Nat
  BY Numbers
<1>1. ASSUME NEW k \in Tasks, TaskKind(k) PROVE PairsIssued'
  <2>1. \A j \in Tasks : j # k => task'[j] = task[j]
    BY <1>1 DEF TaskKind, Plain, Joins, Begins, WritesAccess, WritesRefresh, Moved, Others
  <2>2. CASE Plain(k)
    BY <1>0, <2>1, <2>2 DEF Plain, PairsIssued, Aside, Storing
  <2>3. CASE Joins(k)
    BY <1>0, <2>1, <2>3 DEF Joins, PairsIssued
  <2>4. CASE Begins(k)
    BY <1>0, <2>1, <2>4 DEF Begins, PairsIssued
  <2>5. CASE WritesAccess(k)
    BY <1>0, <2>1, <2>5 DEF WritesAccess, PairsIssued
  <2>6. CASE WritesRefresh(k)
    BY <1>0, <2>1, <2>6 DEF WritesRefresh, PairsIssued, Aside, Storing
  <2> QED
    BY <1>1, <2>2, <2>3, <2>4, <2>5, <2>6 DEF TaskKind
<1>2. ASSUME RotationKind PROVE PairsIssued'
  <2>1. CASE Granted
    BY <1>0, <2>1 DEF Granted, PairsIssued
  <2>2. CASE Lost
    <3>1. issued <= issued' /\ issued' \in Nat
      BY <1>0, <2>2, Parts' DEF Lost
    <3> QED
    BY <1>0, <2>2, <3>1, RestingShape DEF Lost, Woken, PairsIssued
  <2>3. CASE Ended
    BY <1>0, <2>3, RestingShape DEF Ended, Woken, PairsIssued
  <2>4. CASE SavesAccess
    BY <1>0, <2>4 DEF SavesAccess, PairsIssued
  <2>5. CASE SavesRefresh
    BY <1>0, <2>5, RestingShape DEF SavesRefresh, Woken, PairsIssued
  <2> QED
    BY <1>2, <2>1, <2>2, <2>3, <2>4, <2>5 DEF RotationKind
<1>3. ASSUME Restarted PROVE PairsIssued'
  <2>1. \A k \in Tasks : task'[k].pair = 0 /\ task'[k].at \in {"idle", "read"}
    BY <1>3, SleepingShape, StartingShape DEF Restarted
  <2> QED
    BY <1>0, <1>3, <2>1, RestingShape DEF Restarted, PairsIssued
<1>4. ASSUME Elsewhere PROVE PairsIssued'
  BY <1>4 DEF Elsewhere, PairsIssued
<1> QED
  BY <1>1, <1>2, <1>3, <1>4 DEF Kinds

-----------------------------------------------------------------------------
(* A request waits for the rotation exactly while one runs. *)

LEMMA AwaitedStep ==
  ASSUME Parts, RotationAwaited, Kinds
  PROVE  RotationAwaited'
<1>1. ASSUME NEW k \in Tasks, TaskKind(k) PROVE RotationAwaited'
  <2>1. \A j \in Tasks : j # k => task'[j] = task[j]
    BY <1>1 DEF TaskKind, Plain, Joins, Begins, WritesAccess, WritesRefresh, Moved, Others
  <2>2. CASE Joins(k)
    <3>1. rotation'.stage # "none"
      BY <2>2 DEF Joins
    <3> QED
      BY <2>2, <3>1 DEF Joins, RotationAwaited
  <2>3. CASE ~Joins(k)
    <3>1. task[k].at # "joined" /\ task'[k].at # "joined" /\ rotation' = rotation
      BY <1>1, <2>3 DEF TaskKind, Plain, Begins, WritesAccess, WritesRefresh, Aside, Storing, Halfway
    <3> QED
      BY <2>1, <3>1 DEF RotationAwaited
  <2> QED
    BY <2>2, <2>3
<1>2. ASSUME RotationKind PROVE RotationAwaited'
  <2>1. CASE Granted \/ SavesAccess
    BY <2>1 DEF Granted, SavesAccess, RotationAwaited
  <2>2. ASSUME NEW stage \in {"denied", "wipe", "retry"}, NEW p, Woken(stage, p)
        PROVE  RotationAwaited'
    BY <2>2, RestingShape DEF Woken, RotationAwaited
  <2> QED
    BY <1>2, <2>1, <2>2 DEF RotationKind, Lost, Ended, SavesRefresh
<1>3. ASSUME Restarted PROVE RotationAwaited'
  BY <1>3, SleepingShape, StartingShape, RestingShape DEF Restarted, RotationAwaited
<1>4. ASSUME Elsewhere PROVE RotationAwaited'
  BY <1>4 DEF Elsewhere, RotationAwaited
<1> QED
  BY <1>1, <1>2, <1>3, <1>4 DEF Kinds

-----------------------------------------------------------------------------
(* What the app is about to present has not been replaced. *)

LEMMA FreshStep ==
  ASSUME Parts, Parts', PairsIssued, FreshInUse, Kinds
  PROVE  FreshInUse'
<1>0. /\ issued \in Nat /\ kept.access \in Nat /\ kept.refresh \in Nat
      /\ rotation.pair \in Nat /\ rotation.token \in Nat /\ \A k \in Tasks : task[k].pair \in Nat
      /\ rotated \subseteq 1 .. issued
  BY Numbers DEF Parts, ApiTypeOK
<1> SUFFICES ASSUME ~strayed' PROVE FreshInUse'
  BY DEF FreshInUse
<1>1. ~strayed
  BY DEF Kinds, TaskKind, RotationKind, Plain, Joins, Begins, WritesAccess, WritesRefresh,
         Granted, Lost, Ended, SavesAccess, SavesRefresh, Restarted, Elsewhere
<1>2. /\ InUse \cap rotated = {}
      /\ \A k \in Tasks : task[k].at \notin {"outSave", "outSave2"}
      /\ \A k \in Entering : task[k].pair \notin rotated \cup InUse
      /\ \A k, j \in Entering : j # k => task[j].pair # task[k].pair
      /\ \A k \in Entering : task[k].pair # 0 /\ task[k].pair <= issued
      /\ \A p \in InUse : p <= issued
  BY <1>1 DEF FreshInUse, PairsIssued, Entering, InUse
<1>3. ASSUME \A j \in Tasks : task'[j].at \notin {"outSave", "outSave2"},
             \A p \in InUse' : p \notin rotated',
             \A j \in Entering' : task'[j].pair \notin rotated' /\ task'[j].pair \notin InUse',
             \A i, j \in Entering' : i # j => task'[i].pair # task'[j].pair
      PROVE  FreshInUse'
  BY <1>3 DEF FreshInUse
<1>4. ASSUME NEW k \in Tasks, TaskKind(k) PROVE FreshInUse'
  <2>1. \A j \in Tasks : j # k => task'[j] = task[j]
    BY <1>4 DEF TaskKind, Plain, Joins, Begins, WritesAccess, WritesRefresh, Moved, Others
  <2>2. CASE Plain(k)
    <3>1. Entering' = Entering /\ \A j \in Entering : task'[j] = task[j]
      BY <2>1, <2>2 DEF Plain, Entering, Aside, Storing
    <3>2. InUse' = InUse /\ rotated' = rotated
      BY <2>2 DEF Plain, InUse
    <3>3. task'[k].at \notin {"outSave", "outSave2"}
      BY <2>2 DEF Plain, Aside, Storing
    <3> QED
      BY <1>2, <1>3, <2>1, <3>1, <3>2, <3>3
  <2>3. CASE Joins(k)
    <3>1. Entering' = Entering /\ \A j \in Entering : task'[j] = task[j]
      BY <2>1, <2>3 DEF Joins, Entering, Aside, Storing
    <3>2. InUse' = InUse /\ rotated' = rotated
      BY <2>3 DEF Joins, InUse
    <3>3. task'[k].at \notin {"outSave", "outSave2"}
      BY <2>3 DEF Joins
    <3> QED
      BY <1>2, <1>3, <2>1, <3>1, <3>2, <3>3
  <2>4. CASE Begins(k)
    <3>1. InUse' = InUse /\ rotated' = rotated /\ task'[k].at \in {"inSave", "outWipe"}
      BY <2>4 DEF Begins, InUse
    <3>2. k \notin Entering
      BY <2>4 DEF Begins, Entering, Aside, Storing
    <3>3. \A j \in Entering' : j # k => j \in Entering /\ task'[j] = task[j]
      BY <2>1 DEF Entering
    <3>4. k \in Entering' => task'[k].pair = issued + 1
      BY <2>4 DEF Begins, Entering
    <3>5. issued + 1 \notin rotated /\ issued + 1 \notin InUse /\ \A j \in Entering : task[j].pair # issued + 1
      BY <1>0, <1>2 DEF InUse, Entering
    <3> QED
      BY <1>2, <1>3, <2>1, <3>1, <3>3, <3>4, <3>5
  <2>5. CASE WritesAccess(k)
    <3>1. Entering' = Entering /\ \A j \in Entering : task'[j].pair = task[j].pair
      BY <2>1, <2>5 DEF WritesAccess, Entering
    <3>2. InUse' = InUse /\ rotated' = rotated
      BY <2>5 DEF WritesAccess, InUse
    <3>3. task'[k].at \notin {"outSave", "outSave2"}
      BY <1>2, <2>5 DEF WritesAccess
    <3> QED
      BY <1>2, <1>3, <2>1, <3>1, <3>2, <3>3
  <2>6. CASE WritesRefresh(k)
    <3>1. Entering' = Entering \ {k} /\ \A j \in Entering' : task'[j] = task[j]
      BY <2>1, <2>6 DEF WritesRefresh, Entering, Aside, Storing
    <3>2. rotated' = rotated /\ task'[k].at \notin {"outSave", "outSave2"}
      BY <2>6 DEF WritesRefresh, Aside, Storing
    <3>3. CASE k \in Entering
      <4>1. \A p \in InUse' : p \in InUse \/ p = task[k].pair
        BY <2>6, <3>3 DEF WritesRefresh, InUse, Entering, Halfway
      <4> QED
        BY <1>2, <1>3, <2>1, <3>1, <3>2, <3>3, <4>1
    <3>4. CASE k \notin Entering
      <4>1. kept'.refresh = 0
        BY <1>2, <2>6, <3>4 DEF WritesRefresh, Entering, Halfway
      <4>2. \A p \in InUse' : p \in InUse \/ p = 0
        BY <2>6, <4>1 DEF WritesRefresh, InUse
      <4>3. 0 \notin rotated
        BY <1>0
      <4> QED
        BY <1>2, <1>3, <2>1, <3>1, <3>2, <4>2, <4>3
    <3> QED
      BY <3>3, <3>4
  <2> QED
    BY <1>4, <2>2, <2>3, <2>4, <2>5, <2>6 DEF TaskKind
<1>5. ASSUME RotationKind PROVE FreshInUse'
  <2>1. CASE Granted
    <3>1. InUse' = {issued + 1} /\ Entering' = Entering /\ task' = task
      BY <2>1 DEF Granted, InUse, Entering
    <3>2. rotated' = rotated \cup {rotation.token} /\ rotation.token \in InUse
      BY <2>1 DEF Granted, InUse
    <3>3. issued + 1 \notin rotated' /\ \A j \in Entering : task[j].pair # issued + 1
      BY <1>0, <1>2, <3>2 DEF Entering
    <3> QED
      BY <1>2, <1>3, <3>1, <3>2, <3>3
  <2>2. ASSUME NEW stage \in {"denied", "wipe", "retry"}, NEW p, Woken(stage, p)
        PROVE  /\ Entering' = Entering /\ \A j \in Entering : task'[j] = task[j]
               /\ \A j \in Tasks : task'[j].at \notin {"outSave", "outSave2"}
               /\ InUse' = {kept'.refresh}
    BY <1>2, <2>2, RestingShape DEF Woken, Entering, InUse
  <2>3. CASE Lost \/ Ended
    <3>1. /\ Entering' = Entering /\ \A j \in Entering : task'[j] = task[j]
          /\ \A j \in Tasks : task'[j].at \notin {"outSave", "outSave2"}
          /\ InUse' = {kept'.refresh}
      BY <2>2, <2>3 DEF Lost, Ended
    <3>2. kept'.refresh \in InUse /\ rotated' = rotated
      BY <2>3 DEF Lost, Ended, InUse
    <3> QED
      BY <1>2, <1>3, <3>1, <3>2
  <2>4. CASE SavesAccess
    <3>1. InUse' = InUse /\ rotated' = rotated /\ task' = task /\ Entering' = Entering
      BY <2>4 DEF SavesAccess, InUse, Entering
    <3> QED
      BY <1>2, <1>3, <3>1
  <2>5. CASE SavesRefresh
    <3>1. /\ Entering' = Entering /\ \A j \in Entering : task'[j] = task[j]
          /\ \A j \in Tasks : task'[j].at \notin {"outSave", "outSave2"}
          /\ InUse' = {kept'.refresh}
      BY <2>2, <2>5 DEF SavesRefresh
    <3>2. kept'.refresh \in InUse /\ rotated' = rotated
      BY <2>5 DEF SavesRefresh, InUse
    <3> QED
      BY <1>2, <1>3, <3>1, <3>2
  <2> QED
    BY <1>5, <2>1, <2>3, <2>4, <2>5 DEF RotationKind
<1>6. ASSUME Restarted PROVE FreshInUse'
  <2>1. \A k \in Tasks : task'[k].at \in {"idle", "read"}
    BY <1>6, SleepingShape, StartingShape DEF Restarted
  <2>2. Entering' = {}
    BY <2>1 DEF Entering
  <2>3. rotation.stage = "none" /\ rotated' = rotated /\ kept' = kept
    BY <1>6 DEF Restarted
  <2>4. InUse' = InUse
    BY <1>6, <2>3, RestingShape DEF Restarted, InUse
  <2> QED
    BY <1>2, <1>3, <2>1, <2>2, <2>3, <2>4
<1>7. ASSUME Elsewhere PROVE FreshInUse'
  BY <1>7 DEF Elsewhere, FreshInUse, Entering, InUse
<1> QED
  BY <1>4, <1>5, <1>6, <1>7 DEF Kinds

LEMMA TheftStep ==
  ASSUME Parts, FreshInUse, NoSelfTheft, Kinds
  PROVE  NoSelfTheft'
<1>1. CASE Ended
  <2>1. rotation.token \in InUse
    BY <1>1 DEF Ended, InUse
  <2> QED
    BY <1>1, <2>1 DEF Ended, FreshInUse, NoSelfTheft
<1>2. CASE ~Ended
  BY <1>2 DEF NoSelfTheft, Kinds, TaskKind, RotationKind, Plain, Joins, Begins, WritesAccess,
              WritesRefresh, Granted, Lost, SavesAccess, SavesRefresh, Restarted, Elsewhere
<1> QED
  BY <1>1, <1>2

-----------------------------------------------------------------------------
(* The writers of the store keep out of each other's way. *)

Apart ==
  /\ HalfWritten \/ kept.access = kept.refresh
  /\ rotation.stage = "save2" => kept.access = rotation.pair
  /\ \A k \in Tasks : task[k].at \in {"inSave2", "outSave2"} => kept.access = task[k].pair
  /\ \A k \in Tasks : task[k].at \in {"wipe2", "outWipe2"} => kept.access = 0
  /\ \A k \in Tasks : task[k].at \in Storing => rotation.stage \notin {"save", "save2"}
  /\ \A j, k \in Tasks : j # k /\ task[j].at \in Storing /\ task[k].at \in Storing =>
                         task[j].at \in {"wipe", "wipe2"} /\ task[k].at \in {"wipe", "wipe2"}

LEMMA ApartMeaning == WritersApart <=> (~crowded => Apart)
  BY DEF WritersApart, Apart

LEMMA ApartMeaningNext == WritersApart' <=> (~crowded' => Apart')
  BY DEF WritersApart, Apart, HalfWritten

LEMMA WritersStep ==
  ASSUME Parts, WritersApart, Kinds
  PROVE  WritersApart'
<1> SUFFICES ASSUME ~crowded' PROVE Apart'
  BY ApartMeaningNext
<1>1. ~crowded
  BY DEF Kinds, TaskKind, RotationKind, Plain, Joins, Begins, WritesAccess, WritesRefresh,
         Granted, Lost, Ended, SavesAccess, SavesRefresh, Restarted, Elsewhere
<1>2. Apart
  BY <1>1, ApartMeaning
<1>3. HalfWritten => Writing
  BY DEF HalfWritten, Writing, Halfway, Storing
<1>4. ASSUME NEW k \in Tasks, TaskKind(k) PROVE Apart'
  <2>1. \A j \in Tasks : j # k => task'[j] = task[j]
    BY <1>4 DEF TaskKind, Plain, Joins, Begins, WritesAccess, WritesRefresh, Moved, Others
  <2>2. CASE Plain(k) \/ Joins(k)
    <3>1. /\ task[k].at \notin Storing /\ task'[k].at \notin Storing /\ kept' = kept
          /\ rotation'.stage \in {"save", "save2"} <=> rotation.stage \in {"save", "save2"}
          /\ rotation'.stage = "save2" <=> rotation.stage = "save2"
          /\ rotation.stage = "save2" => rotation' = rotation
      BY <2>2 DEF Plain, Joins, Aside, Storing
    <3>2. HalfWritten' <=> HalfWritten
      BY <2>1, <3>1 DEF HalfWritten, Halfway, Storing
    <3> QED
      BY <1>2, <2>1, <3>1, <3>2 DEF Apart, Storing
  <2>3. CASE Begins(k)
    <3>1. ~Writing /\ kept' = kept /\ rotation' = rotation /\ task'[k].at \in {"inSave", "outSave", "outWipe"}
      BY <2>3 DEF Begins
    <3>2. kept'.access = kept'.refresh
      BY <1>2, <1>3, <3>1 DEF Apart
    <3>3. rotation'.stage \notin {"save", "save2"} /\ \A j \in Tasks : j # k => task'[j].at \notin Storing
      BY <2>1, <3>1 DEF Writing
    <3> QED
      BY <3>1, <3>2, <3>3 DEF Apart, Storing
  <2>4. CASE WritesAccess(k)
    <3>1. /\ task[k].at \in Storing /\ task'[k].at \in Halfway /\ rotation' = rotation
          /\ task'[k].pair = task[k].pair
          /\ task'[k].at \in {"inSave2", "outSave2"} => kept'.access = task[k].pair
          /\ task'[k].at \in {"wipe2", "outWipe2"} => kept'.access = 0
          /\ task[k].at \in {"wipe", "wipe2"} <=> task'[k].at \in {"wipe", "wipe2"}
      BY <2>4 DEF WritesAccess, Storing, Halfway
    <3>2. HalfWritten' /\ rotation'.stage \notin {"save", "save2"}
      BY <1>2, <3>1 DEF HalfWritten, Apart
    <3>3. \A j \in Tasks : j # k /\ task[j].at \in Storing =>
            task[j].at \in {"wipe", "wipe2"} /\ task'[k].at = "wipe2" /\ kept'.access = 0
      BY <1>2, <3>1 DEF Apart, Halfway
    <3> QED
      BY <2>1, <3>1, <3>2, <3>3 DEF Apart, Storing, Halfway
  <2>5. CASE WritesRefresh(k)
    <3>1. /\ task[k].at \in Storing /\ task'[k].at \notin Storing /\ rotation' = rotation
          /\ kept'.access = kept.access
      BY <2>5 DEF WritesRefresh, Storing, Halfway, Aside
    <3>2. kept'.refresh = kept.access
      BY <1>2, <2>5 DEF WritesRefresh, Apart, Halfway
    <3>3. rotation'.stage \notin {"save", "save2"}
      BY <1>2, <3>1 DEF Apart
    <3> QED
      BY <1>2, <2>1, <3>1, <3>2, <3>3 DEF Apart, Storing
  <2> QED
    BY <1>4, <2>2, <2>3, <2>4, <2>5 DEF TaskKind
<1>5. ASSUME RotationKind PROVE Apart'
  <2>1. CASE Granted
    <3>1. ~Writing /\ kept' = kept /\ task' = task /\ rotation'.stage = "save"
      BY <2>1 DEF Granted
    <3>2. kept'.access = kept'.refresh /\ \A k \in Tasks : task'[k].at \notin Storing
      BY <1>2, <1>3, <3>1 DEF Apart, Writing
    <3> QED
      BY <3>1, <3>2 DEF Apart, Storing
  <2>2. CASE Lost
    <3>1. \A k \in Tasks : task'[k] = task[k] \/ (task'[k].at = "denied" /\ task[k].at = "joined")
      BY <2>2 DEF Lost, Woken
    <3>2. kept' = kept /\ rotation.stage = "sent" /\ rotation'.stage = "none"
      BY <2>2, RestingShape DEF Lost, Woken
    <3>3. HalfWritten' <=> HalfWritten
      BY <3>1, <3>2 DEF HalfWritten, Halfway
    <3>4. \A k \in Tasks : task'[k].at \in Storing => task'[k] = task[k]
      BY <3>1 DEF Storing
    <3> QED
      BY <1>2, <3>2, <3>3, <3>4 DEF Apart, Storing
  <2>3. CASE Ended
    <3>1. \A k \in Tasks : task'[k] = task[k] \/ task'[k].at = "wipe"
      BY <2>3 DEF Ended, Woken
    <3>2. kept' = kept /\ ~Writing /\ rotation'.stage = "none"
      BY <2>3, RestingShape DEF Ended, Woken
    <3>3. \A k \in Tasks : task'[k].at \notin Storing \/ task'[k].at = "wipe"
      BY <3>1, <3>2 DEF Writing
    <3>4. kept'.access = kept'.refresh
      BY <1>2, <1>3, <3>2 DEF Apart
    <3> QED
      BY <3>2, <3>3, <3>4 DEF Apart, Storing
  <2>4. CASE SavesAccess
    <3>1. \A k \in Tasks : task'[k] = task[k] /\ task[k].at \notin Storing
      BY <1>2, <2>4 DEF SavesAccess, Apart
    <3> QED
      BY <2>4, <3>1 DEF SavesAccess, Apart, HalfWritten, Storing
  <2>5. CASE SavesRefresh
    <3>1. \A k \in Tasks : task'[k].at \notin Storing
      BY <1>2, <2>5 DEF SavesRefresh, Woken, Apart, Storing
    <3>2. rotation'.stage = "none" /\ kept'.access = kept'.refresh
      BY <1>2, <2>5, RestingShape DEF SavesRefresh, Woken, Apart
    <3> QED
      BY <3>1, <3>2 DEF Apart, Storing
  <2> QED
    BY <1>5, <2>1, <2>2, <2>3, <2>4, <2>5 DEF RotationKind
<1>6. ASSUME Restarted PROVE Apart'
  <2>1. \A k \in Tasks : task'[k].at \in {"idle", "read"}
    BY <1>6, SleepingShape, StartingShape DEF Restarted
  <2>2. kept' = kept /\ rotation'.stage = "none" /\ ~Writing
    BY <1>6, RestingShape DEF Restarted
  <2>3. kept'.access = kept'.refresh
    BY <1>2, <1>3, <2>2 DEF Apart
  <2> QED
    BY <2>1, <2>2, <2>3 DEF Apart, Storing
<1>7. ASSUME Elsewhere PROVE Apart'
  BY <1>2, <1>7 DEF Elsewhere, Apart, HalfWritten
<1> QED
  BY <1>4, <1>5, <1>6, <1>7 DEF Kinds

-----------------------------------------------------------------------------
(* What the task that runs alone knows of the store. *)

KnownAt(k) ==
  /\ session.status = "authenticated" => kept # NoTokens \/ task[k].at = "outWipe2"
  /\ session = SignedOut("none") => kept = NoTokens \/ task[k].at = "inSave2"
  /\ task[k].at # "idle" => (session.status = "authenticated" <=> task[k].at \in SigningOut)
  /\ task[k].at = "joined" => session # SignedOut("none")
  /\ task[k].at = "retry" => kept # NoTokens
  /\ task[k].at = "outWipe2" => kept.access = 0
Alone(k) == \A j \in Tasks : j # k => task[j].at = "idle"

LEMMA KnownMeaning ==
  ASSUME NEW k \in Tasks, Alone(k), KnownAt(k)
  PROVE  SessionKnown
  BY DEF Alone, KnownAt, SessionKnown, SomeAt

LEMMA KnownMeaningNext == \A k \in Tasks : Alone(k)' /\ KnownAt(k)' => SessionKnown'
  BY DEF Alone, KnownAt, SessionKnown, SomeAt

LEMMA KnownOfOne ==
  ASSUME SessionKnown, ~together, NEW k \in Tasks,
         task[k].at # "idle" \/ (Alone(k) /\ task[k].at = "idle")
  PROVE  Alone(k) /\ KnownAt(k)
<1>1. Alone(k)
  BY DEF SessionKnown, Alone
<1>2. \A stage : SomeAt(stage) /\ stage # "idle" => task[k].at = stage
  BY <1>1 DEF Alone, SomeAt
<1> QED
  BY <1>1, <1>2 DEF SessionKnown, KnownAt

LEMMA SessionFacts ==
  /\ Loading.status = "loading"
  /\ \A why : SignedOut(why).status = "unauthenticated"
  /\ \A family : SignedIn(family).status = "authenticated"
  /\ SignedOut("expired") # SignedOut("none") /\ SignedOut("offline") # SignedOut("none")
  /\ Loading # SignedOut("none") /\ \A family : SignedIn(family) # SignedOut("none")
<1>1. /\ Loading.status = "loading"
      /\ \A why : SignedOut(why).status = "unauthenticated" /\ SignedOut(why).reason = why
      /\ \A family : SignedIn(family).status = "authenticated"
  BY DEF Loading, SignedOut, SignedIn
<1> QED
  BY <1>1

LEMMA StoreFacts ==
  Parts => (kept = NoTokens <=> kept.access = 0 /\ kept.refresh = 0)
  BY DEF Parts, NoTokens
LEMMA StoreFactsNext ==
  Parts' => (kept' = NoTokens <=> kept'.access = 0 /\ kept'.refresh = 0)
  BY DEF Parts, NoTokens

(* A request that is answered; result "ok" takes a token in the store. *)
LEMMA ResolveKnown ==
  ASSUME Parts, NEW k \in Tasks, KnownAt(k), NEW result \in {"ok", "401", "refused", "network"},
         Resolve(k, result), task[k].at \in {"fetch", "retry", "denied"}, kept' = kept,
         result = "ok" => kept # NoTokens
  PROVE  KnownAt(k)'
<1>0. /\ screen \in Screens /\ task \in [Tasks -> Task]
      /\ session.status # "authenticated" /\ (session = SignedOut("none") => kept = NoTokens)
  BY DEF Parts, Fits, KnownAt, SigningOut
<1>1. CASE Reload(k)
  BY <1>0, <1>1, ReloadStep, SessionFacts DEF KnownAt, SigningOut
<1>2. CASE End(k) /\ UNCHANGED <<session, screen>>
  BY <1>0, <1>2, EndShape DEF KnownAt
<1>3. CASE /\ task' = [task EXCEPT ![k].leg = "family", ![k].at = "fetch", ![k].pair = 0]
           /\ UNCHANGED <<session, screen>>
  BY <1>0, <1>3, FamilyShape DEF KnownAt, SigningOut
<1>4. ASSUME NEW s, Loaded(k, s), s.status = "authenticated" => kept # NoTokens, s # SignedOut("none")
      PROVE  KnownAt(k)'
  <2>1. task'[k].at = "idle" /\ session' = s
    BY <1>0, <1>4, EndShape DEF Loaded
  <2> QED
    BY <1>4, <2>1 DEF KnownAt
<1>5. ASSUME NEW family \in BOOLEAN, result = "ok", Loaded(k, SignedIn(family))
      PROVE  KnownAt(k)'
  BY <1>4, <1>5, SessionFacts
<1>6. CASE Loaded(k, SignedOut("offline")) \/ Loaded(k, SignedOut("expired"))
  BY <1>4, <1>6, SessionFacts
<1> QED
  BY <1>1, <1>2, <1>3, <1>5, <1>6, ResolveCases

LEMMA TaskKnown ==
  ASSUME Parts, Parts', PairsIssued, NEW k \in Tasks, KnownAt(k), TaskStep(k)
  PROVE  KnownAt(k)'
<1>0. /\ task \in [Tasks -> Task] /\ screen \in Screens
      /\ kept = NoTokens <=> kept.access = 0 /\ kept.refresh = 0
      /\ kept' = NoTokens <=> kept'.access = 0 /\ kept'.refresh = 0
  BY StoreFacts, StoreFactsNext DEF Parts, Fits
(* The session is as it was and so is the store. *)
<1>1. ASSUME UNCHANGED <<kept, session>>, task[k].at # "idle",
             task'[k].at \notin {"idle", "joined", "retry", "outWipe2"},
             task[k].at \notin {"inSave2", "outWipe2"},
             task[k].at \in SigningOut <=> task'[k].at \in SigningOut
      PROVE  KnownAt(k)'
  BY <1>1 DEF KnownAt
<1>2. CASE ReadTokens(k)
  <2>1. CASE kept = NoTokens
    <3>1. Loaded(k, SignedOut("none")) /\ kept' = kept
      BY <1>2, <2>1 DEF ReadTokens
    <3>2. task'[k].at = "idle" /\ session' = SignedOut("none")
      BY <1>0, <3>1, EndShape DEF Loaded
    <3> QED
      BY <2>1, <3>1, <3>2, SessionFacts DEF KnownAt
  <2>2. CASE kept # NoTokens
    <3>1. Step(k, "fetch") /\ UNCHANGED <<kept, session>> /\ task[k].at = "read"
      BY <1>2, <2>2 DEF ReadTokens
    <3>2. task'[k].at = "fetch"
      BY <1>0, <3>1, StepShape DEF Stages
    <3> QED
      BY <1>1, <3>1, <3>2 DEF SigningOut
  <2> QED
    BY <2>1, <2>2
<1>3. CASE Fetch(k)
  <2>1. CASE Step(k, "renew") /\ UNCHANGED <<session, screen>>
    <3>1. task'[k].at = "renew" /\ kept' = kept /\ task[k].at \in {"fetch", "retry"}
      BY <1>0, <1>3, <2>1, StepShape DEF Fetch, Stages
    <3> QED
      BY <1>1, <2>1, <3>1 DEF SigningOut
  <2>2. CASE \E result \in {"401", "refused", "network"} : Resolve(k, result)
    BY <1>3, <2>2, ResolveKnown DEF Fetch
  <2>3. CASE /\ Resolve(k, "ok")
             /\ Accepts(IF task[k].at = "fetch" THEN kept.access ELSE task[k].pair)
    <3>1. kept # NoTokens
      BY <1>0, <1>3, <2>3 DEF Fetch, Accepts, KnownAt
    <3> QED
      BY <1>3, <2>3, <3>1, ResolveKnown DEF Fetch
  <2> QED
    BY <1>3, <2>1, <2>2, <2>3 DEF Fetch
<1>4. CASE Renew(k)
  <2>1. task[k].at = "renew" /\ UNCHANGED <<kept, session>>
    BY <1>4 DEF Renew
  <2>2. CASE kept.refresh = 0
    <3>1. task'[k].at = "denied"
      BY <1>0, <1>4, <2>2, StepShape DEF Renew, Stages
    <3> QED
      BY <1>1, <2>1, <3>1 DEF SigningOut
  <2>3. CASE kept.refresh # 0
    <3>1. task'[k].at = "joined"
      BY <1>0, <1>4, <2>3, StepShape DEF Renew, Stages
    <3>2. session # SignedOut("none")
      BY <1>0, <2>1, <2>3 DEF KnownAt
    <3> QED
      BY <2>1, <3>1, <3>2 DEF KnownAt, SigningOut
  <2> QED
    BY <2>2, <2>3
<1>5. CASE Denied(k)
  BY <1>5, ResolveKnown DEF Denied
<1>6. CASE Wipe(k)
  <2>1. /\ session' = session /\ task[k].at \in {"wipe", "wipe2"}
        /\ task'[k].at \in {"wipe2", "denied"}
        /\ kept = NoTokens => kept' = NoTokens
    <3>1. CASE task[k].at = "wipe"
      BY <1>0, <1>6, <3>1, StepShape DEF Wipe, Stages, Storing, Parts
    <3>2. CASE task[k].at = "wipe2"
      BY <1>0, <1>6, <3>2, StepShape DEF Wipe, Stages, Storing, Parts
    <3> QED
      BY <1>6, <3>1, <3>2 DEF Wipe
  <2> QED
    BY <2>1 DEF KnownAt, SigningOut
<1>7. CASE LoginAnswered(k)
  <2>1. UNCHANGED <<kept, session>> /\ task[k].at = "login"
    BY <1>7 DEF LoginAnswered
  <2>2. CASE task' = [task EXCEPT ![k].at = "inSave", ![k].pair = issued + 1]
    <3>1. task'[k].at = "inSave"
      BY <1>0, <2>2 DEF Task
    <3> QED
      BY <1>1, <2>1, <3>1 DEF SigningOut
  <2>3. CASE End(k)
    BY <1>0, <2>1, <2>3, EndShape DEF KnownAt, SigningOut
  <2> QED
    BY <1>7, <2>2, <2>3 DEF LoginAnswered
<1>8. CASE EstablishSession(k)
  <2>1. CASE task[k].at = "inSave"
    <3>1. task'[k].at = "inSave2" /\ session' = session
      BY <1>0, <1>8, <2>1, StepShape DEF EstablishSession, Stages, Storing
    <3> QED
      BY <2>1, <3>1 DEF KnownAt, SigningOut
  <2>2. CASE task[k].at = "inSave2"
    <3>1. task'[k].at = "read" /\ session' = Loading
      BY <1>0, <1>8, <2>2, ReloadStep DEF EstablishSession
    <3> QED
      BY <3>1, SessionFacts DEF KnownAt, SigningOut
  <2> QED
    BY <1>8, <2>1, <2>2 DEF EstablishSession
<1>9. CASE SignOutReads(k) \/ SignOutPosts(k) \/ SignOutRefreshes(k)
  <2>1. /\ UNCHANGED <<kept, session>>
        /\ task[k].at \in {"outRead", "outPost", "outPost2", "outRefresh"}
    BY <1>9 DEF SignOutReads, SignOutPosts, SignOutRefreshes
  <2>2. task'[k].at \in {"outWipe", "outPost", "outRefresh", "outSave"}
    <3>1. ASSUME NEW stage \in {"outWipe", "outRefresh"}, Step(k, stage)
          PROVE  task'[k].at \in {"outWipe", "outPost", "outRefresh", "outSave"}
      BY <1>0, <3>1, StepShape DEF Stages, Storing
    <3>2. ASSUME NEW stage \in {"outPost", "outSave"}, NEW p,
                 task' = [task EXCEPT ![k].at = stage, ![k].pair = p]
          PROVE  task'[k].at \in {"outWipe", "outPost", "outRefresh", "outSave"}
      BY <1>0, <3>2 DEF Task
    <3> QED
      BY <1>9, <3>1, <3>2 DEF SignOutReads, SignOutPosts, SignOutRefreshes
  <2> QED
    BY <1>1, <2>1, <2>2 DEF SigningOut
<1>10. CASE SignOutSaves(k)
  <2>1. task[k].at \in {"outSave", "outSave2"} /\ session' = session /\ task[k].pair # 0
    BY <1>10 DEF SignOutSaves, PairsIssued
  <2>2. task'[k].at \in {"outSave2", "outPost2"}
    BY <1>0, <1>10, StepShape DEF SignOutSaves, Stages, Storing
  <2>3. kept' # NoTokens
    BY <1>0, <1>10, <2>1 DEF SignOutSaves, Parts
  <2>4. session.status = "authenticated"
    BY <2>1 DEF KnownAt, SigningOut
  <2> QED
    BY <2>1, <2>2, <2>3, <2>4, SessionFacts DEF KnownAt, SigningOut
<1>11. CASE SignOutWipes(k)
  <2>1. CASE task[k].at = "outWipe"
    <3>1. task'[k].at = "outWipe2" /\ session' = session /\ kept'.access = 0
      BY <1>0, <1>11, <2>1, StepShape DEF SignOutWipes, Stages, Storing, Parts
    <3>2. session.status = "authenticated"
      BY <2>1 DEF KnownAt, SigningOut
    <3> QED
      BY <3>1, <3>2, SessionFacts DEF KnownAt, SigningOut
  <2>2. CASE task[k].at = "outWipe2"
    <3>1. task'[k].at = "idle" /\ session' = SignedOut("none")
      BY <1>0, <1>11, <2>2, EndShape DEF SignOutWipes, SetSession
    <3>2. kept' = NoTokens
      BY <1>0, <1>11, <2>2 DEF SignOutWipes, Parts, KnownAt
    <3> QED
      BY <3>1, <3>2, SessionFacts DEF KnownAt
  <2> QED
    BY <1>11, <2>1, <2>2 DEF SignOutWipes
<1> QED
  BY <1>2, <1>3, <1>4, <1>5, <1>6, <1>7, <1>8, <1>9, <1>10, <1>11 DEF TaskStep

LEMMA UserKnown ==
  ASSUME Parts, NEW k \in Tasks, KnownAt(k), task[k].at = "idle", UserActs(k)
  PROVE  KnownAt(k)'
<1>0. task \in [Tasks -> Task] /\ session \in Sessions /\ Fits(session, screen)
  BY DEF Parts
<1>1. ASSUME NEW t, Start(k, t), session' = session, t.at \in Opening,
             session.status = "authenticated" <=> t.at = "outRead"
      PROVE  KnownAt(k)'
  <2>1. kept' = kept /\ task'[k] = t
    BY <1>0, <1>1 DEF Start
  <2> QED
    BY <1>1, <2>1 DEF KnownAt, SigningOut, Opening
<1>2. CASE SubmitSignIn(k) \/ SubmitCode(k) \/ PressResend(k)
  <2>1. \E t : Start(k, t) /\ t.at \in {"login", "fetch"} /\ session' = session
    <3>1. \A stage, op : [Sleeping EXCEPT !.at = stage, !.op = op].at = stage
      BY DEF Sleeping
    <3>2. \A stage, op, leg : [Sleeping EXCEPT !.at = stage, !.op = op, !.leg = leg].at = stage
      BY DEF Sleeping
    <3> QED
      BY <1>2, <3>1, <3>2 DEF SubmitSignIn, SubmitCode, PressResend
  <2>2. session.status # "authenticated"
    BY <1>0, <1>2 DEF SubmitSignIn, SubmitCode, PressResend, Shows, Fits, AuthScreens
  <2> QED
    BY <1>1, <2>1, <2>2 DEF Opening
<1>3. CASE PressSync(k)
  <2>1. session' = Loading /\ task'[k] = Starting
    BY <1>0, <1>3 DEF PressSync, SetSession, Start
  <2> QED
    BY <2>1, StartingShape, SessionFacts DEF KnownAt, SigningOut
<1>4. CASE PressSignOut(k)
  <2>1. \E t : Start(k, t) /\ t.at = "outRead" /\ session' = session
    <3>1. [Sleeping EXCEPT !.at = "outRead", !.op = "signOut"].at = "outRead"
      BY DEF Sleeping
    <3> QED
      BY <1>4, <3>1 DEF PressSignOut
  <2>2. session.status = "authenticated"
    <3>1. session.status \in {"loading", "authenticated", "unauthenticated"}
      BY <1>0, SessionTypes
    <3> QED
      BY <1>0, <1>4, <3>1 DEF PressSignOut, Shows, Fits, AuthScreens
  <2> QED
    BY <1>1, <2>1, <2>2 DEF Opening
<1>5. CASE Foreground(k)
  <2>1. Start(k, Starting) /\ session' = session /\ session.reason = "offline"
    BY <1>5 DEF Foreground
  <2>2. session.status # "authenticated"
    <3>1. Loading.reason = "none" /\ \A family : SignedIn(family).reason = "none"
      BY DEF Loading, SignedIn
    <3> QED
      BY <1>0, <2>1, <3>1, SessionFacts DEF Sessions
  <2> QED
    BY <1>1, <2>1, <2>2, StartingShape DEF Opening
<1> QED
  BY <1>2, <1>3, <1>4, <1>5 DEF UserActs

(* The task alone waits for the rotation when it takes a step. *)
LEMMA RotationKnown ==
  ASSUME Parts, Parts', PairsIssued, NEW k \in Tasks, task[k].at = "joined", KnownAt(k),
         RotationKind, session' = session
  PROVE  KnownAt(k)'
<1>0. /\ kept = NoTokens <=> kept.access = 0 /\ kept.refresh = 0
      /\ kept' = NoTokens <=> kept'.access = 0 /\ kept'.refresh = 0
      /\ session.status # "authenticated" /\ session # SignedOut("none")
  BY StoreFacts, StoreFactsNext DEF KnownAt, SigningOut
<1>1. CASE Granted \/ SavesAccess
  BY <1>0, <1>1 DEF Granted, SavesAccess, KnownAt, SigningOut
<1>2. CASE Lost \/ Ended
  BY <1>0, <1>2 DEF Lost, Ended, Woken, KnownAt, SigningOut
<1>3. CASE SavesRefresh
  BY <1>0, <1>3 DEF SavesRefresh, Woken, PairsIssued, KnownAt, SigningOut
<1> QED
  BY <1>1, <1>2, <1>3 DEF RotationKind

LEMMA SessionKnownStep ==
  ASSUME Parts, Parts', PairsIssued, RotationAwaited, SessionKnown, [MobileNext]_mobileVars
  PROVE  SessionKnown'
<1> SUFFICES ASSUME ~together' PROVE SessionKnown'
  BY DEF SessionKnown
<1>1. ASSUME NEW k \in Tasks, TaskStep(k) PROVE SessionKnown'
  <2>1. task[k].at # "idle" /\ ~together
    BY <1>1 DEF TaskStep, ReadTokens, Fetch, Renew, Denied, Wipe, LoginAnswered, EstablishSession,
                SignOutReads, SignOutPosts, SignOutRefreshes, SignOutSaves, SignOutWipes, tellVars
  <2>2. Alone(k) /\ KnownAt(k)
    BY <2>1, KnownOfOne
  <2>3. Others(k)
    BY <1>1, TaskKinds DEF Plain, Joins, Begins, WritesAccess, WritesRefresh, Moved
  <2>4. KnownAt(k)'
    BY <1>1, <2>2, TaskKnown
  <2>5. Alone(k)'
    BY <2>2, <2>3 DEF Alone, Others
  <2> QED
    BY <2>4, <2>5, KnownMeaningNext
<1>2. ASSUME NEW k \in Tasks, UserActs(k) PROVE SessionKnown'
  <2>1. together' = (together \/ \E j \in Tasks : task[j].at # "idle")
    BY <1>2 DEF UserActs, SubmitSignIn, SubmitCode, PressResend, PressSync, PressSignOut, Foreground, Start
  <2>2. ~together /\ Alone(k) /\ task[k].at = "idle"
    BY <2>1 DEF Alone
  <2>3. KnownAt(k)
    BY <2>2, KnownOfOne
  <2>4. KnownAt(k)'
    BY <1>2, <2>2, <2>3, UserKnown
  <2>5. Alone(k)'
    BY <1>2, <2>2, UserActsKind DEF Plain, Moved, Others, Alone
  <2> QED
    BY <2>4, <2>5, KnownMeaningNext
<1>3. ASSUME RotationStep PROVE SessionKnown'
  <2>1. RotationKind /\ UNCHANGED session /\ ~together
    <3>1. session' = session /\ together' = together
      BY <1>3 DEF RotationStep, RotationAnswered, RotationSaves, tellVars
    <3> QED
      BY <1>3, <3>1, RotationKinds DEF RotationKind
  <2>2. rotation.stage # "none"
    BY <1>3 DEF RotationStep, RotationAnswered, RotationSaves
  <2>3. PICK k \in Tasks : task[k].at = "joined"
    BY <2>2 DEF RotationAwaited
  <2>4. Alone(k) /\ KnownAt(k)
    BY <2>1, <2>3, KnownOfOne
  <2>5. KnownAt(k)'
    BY <2>1, <2>3, <2>4, RotationKnown
  <2>6. Alone(k)'
    BY <2>1, <2>4 DEF RotationKind, Granted, Lost, Ended, SavesAccess, SavesRefresh, Woken, Alone
  <2> QED
    BY <2>5, <2>6, KnownMeaningNext
<1>4. ASSUME KillAndRestart PROVE SessionKnown'
  <2>1. Launcher \in Tasks
    BY MobileAssumption DEF Launcher
  <2>2. /\ task'[Launcher] = Starting /\ session' = Loading
        /\ \A j \in Tasks : j # Launcher => task'[j] = Sleeping
    BY <1>4, <2>1 DEF KillAndRestart
  <2>3. Alone(Launcher)'
    BY <2>2, SleepingShape DEF Alone, Launcher
  <2>4. KnownAt(Launcher)'
    BY <2>2, StartingShape, SessionFacts DEF KnownAt, SigningOut, Launcher
  <2> QED
    BY <2>1, <2>3, <2>4, KnownMeaningNext
<1>5. ASSUME Elsewhere PROVE SessionKnown'
  BY <1>5 DEF Elsewhere, SessionKnown, SomeAt
<1>6. CASE UNCHANGED mobileVars
  BY <1>6 DEF mobileVars, SessionKnown, SomeAt
<1> QED
  BY <1>1, <1>2, <1>3, <1>4, <1>5, <1>6, ElsewhereKind DEF MobileNext

-----------------------------------------------------------------------------
(* The invariant. *)

IndInv == MobileInv /\ NoSelfTheft

LEMMA IndInit == MobileInit => IndInv
<1> SUFFICES ASSUME MobileInit PROVE IndInv
  OBVIOUS
<1>1. /\ task = [k \in Tasks |-> IF k = Launcher THEN Starting ELSE Sleeping]
      /\ rotation = Resting /\ session = Loading /\ screen = "signIn" /\ rotated = {}
      /\ theft = FALSE /\ strayed = FALSE /\ crowded = FALSE /\ together = FALSE /\ refused = FALSE
      /\ kept.access = kept.refresh /\ kept.refresh <= issued
      /\ kept \in [access : {0, 1}, refresh : {0, 1}] /\ issued \in {0, 1}
  BY DEF MobileInit, Device, NoTokens
<1>2. /\ task \in [Tasks -> Task]
      /\ \A k \in Tasks : task[k].at \in {"idle", "read"} /\ task[k].pair = 0
  BY <1>1, SleepingShape, StartingShape
<1>3. {0, 1} \subseteq PairOrNone
  BY MobileAssumption DEF PairOrNone
<1>4. Parts
  <2>1. ApiTypeOK
    BY <1>1, <1>3 DEF MobileInit, Device, ApiTypeOK
  <2>2. session \in Sessions /\ Fits(session, screen)
    BY <1>1, SessionFacts DEF Sessions, Fits, Screens, AuthScreens
  <2>3. TellTypeOK /\ acts \in Nat
    BY <1>1 DEF MobileInit, Device, TellTypeOK
  <2>4. kept \in [access : PairOrNone, refresh : PairOrNone]
    BY <1>1, <1>3
  <2> QED
    BY <1>1, <1>2, <2>1, <2>2, <2>3, <2>4, RestingShape DEF Parts
<1>5. PairsIssued
  BY <1>1, <1>2, RestingShape DEF PairsIssued
<1>6. RotationAwaited
  BY <1>1, <1>2, RestingShape DEF RotationAwaited
<1>7. FreshInUse
  BY <1>1, <1>2 DEF FreshInUse, Entering
<1>8. WritersApart
  BY <1>1, <1>2, RestingShape DEF WritersApart, Storing
<1>9. SessionKnown
  <2>1. Launcher \in Tasks
    BY MobileAssumption DEF Launcher
  <2>2. Alone(Launcher) /\ task[Launcher] = Starting
    BY <1>1, <2>1, SleepingShape DEF Alone
  <2>3. KnownAt(Launcher)
    BY <1>1, <2>2, StartingShape, SessionFacts DEF KnownAt, SigningOut
  <2> QED
    BY <2>1, <2>2, <2>3, KnownMeaning
<1> QED
  BY <1>1, <1>4, <1>5, <1>6, <1>7, <1>8, <1>9, PartsInv DEF IndInv, MobileInv, NoSelfTheft

LEMMA IndStep == IndInv /\ [MobileNext]_mobileVars => IndInv'
<1> SUFFICES ASSUME IndInv, [MobileNext]_mobileVars PROVE IndInv'
  OBVIOUS
<1>1. Parts /\ PairsIssued /\ RotationAwaited /\ FreshInUse /\ WritersApart /\ SessionKnown /\ NoSelfTheft
  BY InvParts DEF IndInv, MobileInv
<1>2. Kinds /\ Parts'
  BY <1>1, NextKinds
<1>3. PairsIssued' /\ RotationAwaited'
  BY <1>1, <1>2, PairsIssuedStep, AwaitedStep
<1>4. FreshInUse' /\ NoSelfTheft'
  BY <1>1, <1>2, FreshStep, TheftStep
<1>5. WritersApart'
  BY <1>1, <1>2, WritersStep
<1>6. SessionKnown'
  BY <1>1, <1>2, SessionKnownStep
<1> QED
  BY <1>2, <1>3, <1>4, <1>5, <1>6, PartsInvNext DEF IndInv, MobileInv

LEMMA IndAlways == MobileSpec => []IndInv
  BY IndInit, IndStep, PTL DEF MobileSpec

(* The app's session keeps its invariant: a request waits for the shared   *)
(* rotation (inFlightRotation of refresh-interceptor.ts) exactly while one *)
(* runs, and every step finds the tokens and the store as it takes them.   *)
THEOREM MobileInvariant == MobileSpec => []MobileInv
<1>1. IndInv => MobileInv
  BY DEF IndInv
<1> QED
  BY <1>1, IndAlways, PTL

(* The app presents no refresh token it has had replaced, so that the API  *)
(* never ends its chain for theft, with as many requests at once as may    *)
(* be; except after a pair got lost or a sign-out refreshed on its own.    *)
THEOREM RotationSharedIsSafe == MobileSpec => []NoSelfTheft
<1>1. IndInv => NoSelfTheft
  BY DEF IndInv
<1> QED
  BY <1>1, IndAlways, PTL

(* The two halves kept come from one pair between writes of the store,     *)
(* unless writers of it overlapped: saveTokens and clearTokens of          *)
(* token-store.ts are two calls each.                                      *)
THEOREM KeptPairsMatch == MobileSpec => []PairsMatch
<1>1. MobileInv => PairsMatch
  BY DEF MobileInv, WritersApart, HalfWritten, Writing, Halfway, Storing, PairsMatch
<1> QED
  BY <1>1, MobileInvariant, PTL

(* A session shown as signed in has a token to act with, and one signed    *)
(* out for good has left none, unless two tasks overlapped.                *)
THEOREM SessionKeepsToStore == MobileSpec => []SessionMatchesStore
<1>1. MobileInv => SessionMatchesStore
  BY DEF MobileInv, SessionKnown, SomeAt, Writing, Storing, SessionMatchesStore
<1> QED
  BY <1>1, MobileInvariant, PTL

-----------------------------------------------------------------------------
(* The API as the app meets it. *)

(* What a step of the app or the environment may do to the API's tokens.   *)
ApiKind ==
  \/ IssuePair(0, {})
  \/ \E t \in live : Rotate(t)
  \/ live' \in SUBSET live /\ UNCHANGED <<issued, origin>>

LEMMA RotateIsKind == ASSUME NEW t, Rotate(t) PROVE ApiKind
  BY DEF Rotate, ApiKind

LEMMA EndChainIsKind == ASSUME NEW t, EndChain(t) PROVE ApiKind
  BY DEF EndChain, ApiKind

LEMMA TaskApiKind == ASSUME NEW k \in Tasks, TaskStep(k) PROVE ApiKind
<1>1. CASE ReadTokens(k) \/ Renew(k) \/ Denied(k) \/ Wipe(k) \/ EstablishSession(k)
           \/ SignOutReads(k) \/ SignOutSaves(k) \/ SignOutWipes(k)
  <2>1. UNCHANGED <<live, issued, origin>>
    BY <1>1 DEF ReadTokens, Renew, Denied, Wipe, EstablishSession, SignOutReads, SignOutSaves,
                SignOutWipes, apiVars
  <2> QED
    BY <2>1 DEF ApiKind
<1>2. CASE Fetch(k)
  BY <1>2 DEF Fetch, ApiKind
<1>3. CASE LoginAnswered(k)
  BY <1>3 DEF LoginAnswered, ApiKind, apiVars
<1>4. CASE SignOutPosts(k)
  BY <1>4 DEF SignOutPosts, ApiKind
<1>5. CASE SignOutRefreshes(k)
  <2>1. Rotate(task[k].pair) \/ EndChain(task[k].pair) \/ UNCHANGED apiVars
    BY <1>5 DEF SignOutRefreshes
  <2> QED
    BY <2>1, RotateIsKind, EndChainIsKind DEF apiVars, ApiKind
<1> QED
  BY <1>1, <1>2, <1>3, <1>4, <1>5 DEF TaskStep

LEMMA NextApiKind == [MobileNext]_mobileVars => ApiKind
<1> SUFFICES ASSUME [MobileNext]_mobileVars PROVE ApiKind
  OBVIOUS
<1>1. ASSUME NEW k \in Tasks, TaskStep(k) PROVE ApiKind
  BY <1>1, TaskApiKind
<1>2. ASSUME NEW k \in Tasks, UserActs(k) PROVE ApiKind
  <2>1. UNCHANGED <<live, issued, origin>>
    BY <1>2 DEF UserActs, SubmitSignIn, SubmitCode, PressResend, PressSync, PressSignOut,
                Foreground, Start, apiVars
  <2> QED
    BY <2>1 DEF ApiKind
<1>3. CASE RotationAnswered
  <2>1. Rotate(rotation.token) \/ EndChain(rotation.token) \/ UNCHANGED apiVars
    BY <1>3 DEF RotationAnswered
  <2> QED
    BY <2>1, RotateIsKind, EndChainIsKind DEF apiVars, ApiKind
<1>4. CASE KillAndRestart
  <2>1. Rotate(rotation.token) \/ UNCHANGED apiVars
    BY <1>4 DEF KillAndRestart
  <2> QED
    BY <2>1, RotateIsKind DEF apiVars, ApiKind
<1>5. CASE RevokeElsewhere
  BY <1>5 DEF RevokeElsewhere, ApiKind
<1>6. CASE RotationSaves \/ SubmitSignUp \/ (\E p \in 1 .. issued : ExpireAccess(p))
           \/ UNCHANGED mobileVars
  <2>1. UNCHANGED <<live, issued, origin>>
    BY <1>6 DEF RotationSaves, SubmitSignUp, ExpireAccess, mobileVars, apiVars
  <2> QED
    BY <2>1 DEF ApiKind
<1> QED
  BY <1>1, <1>2, <1>3, <1>4, <1>5, <1>6 DEF MobileNext, RotationStep

(* The live pairs of a chain, and the chains opened.                       *)
LiveBar == [c \in Pairs |-> {p \in live : origin[p] = c}]
ChainsBar == {origin[p] : p \in 1 .. issued}

(* Some live pairs of chains with one live pair each are revoked.          *)
LEMMA RevokeKeepsPromise ==
  ASSUME ApiTypeOK, ChainsOK, live' \in SUBSET live, UNCHANGED <<issued, origin>>
  PROVE  ChainsOK' /\ Api!Next
<1>1. PICK C \in SUBSET Pairs : C = {c \in Pairs : \E p \in live \ live' : origin[p] = c}
  OBVIOUS
<1>2. \A c \in Pairs : {p \in live : origin[p] = c}' =
                         IF c \in C THEN {} ELSE {p \in live : origin[p] = c}
  BY <1>1 DEF ChainsOK
<1>3. Api!End(C)
  BY <1>2 DEF Api!End
<1>4. Api!Next
  BY <1>3 DEF Api!Next
<1>5. ChainsOK'
  BY DEF ChainsOK
<1> QED
  BY <1>4, <1>5

(* A pair is issued: it takes the place of the live pair of its chain, or  *)
(* opens a chain.                                                          *)
LEMMA IssueKeepsPromise ==
  ASSUME ApiTypeOK, ChainsOK, IssuePair(0, {}) \/ \E t \in live : Rotate(t)
  PROVE  ChainsOK' /\ Api!Next
<1>1. issued \in Nat /\ MaxPairs \in Nat /\ issued < MaxPairs /\ issued' = issued + 1
  BY MobileAssumption DEF ApiTypeOK, PairOrNone, IssuePair, Rotate
<1>0. PICK n : n = issued + 1
  OBVIOUS
<1>2. n \in Pairs /\ n \notin 1 .. issued /\ 1 .. issued' = (1 .. issued) \cup {n}
  BY <1>0, <1>1 DEF Pairs
<1>3. /\ 1 .. issued \subseteq Pairs /\ live \subseteq 1 .. issued
      /\ \A p \in 1 .. issued : origin[p] \in 1 .. p /\ origin[p] \in 1 .. issued
      /\ \A p \in 1 .. issued : p \in Nat
  BY <1>1 DEF ApiTypeOK, ChainsOK, Pairs
<1>4. CASE IssuePair(0, {})
  <2>1. /\ origin' = [origin EXCEPT ![n] = n] /\ live' = live \cup {n}
    BY <1>0, <1>4 DEF IssuePair
  <2>2. origin'[n] = n /\ \A p \in 1 .. issued : origin'[p] = origin[p]
    BY <1>2, <1>3, <2>1 DEF ApiTypeOK
  <2>3. ChainsOK'
    BY <1>1, <1>2, <1>3, <2>1, <2>2 DEF ChainsOK
  <2>4. n \notin {origin[p] : p \in 1 .. issued}
    BY <1>2, <1>3
  <2>5. \A c \in Pairs : {p \in live : origin[p] = c}' =
                           IF c = n THEN {n} ELSE {p \in live : origin[p] = c}
    <3>1. \A p \in live : p # n /\ origin'[p] = origin[p] /\ origin[p] # n
      BY <1>2, <1>3, <2>2
    <3> QED
      BY <2>1, <2>2, <3>1
  <2>6. {origin[p] : p \in 1 .. issued}' = {origin[p] : p \in 1 .. issued} \cup {n}
    BY <1>2, <2>2
  <2>7. Api!Open(n, n)
    BY <1>2, <2>4, <2>5, <2>6 DEF Api!Open
  <2> QED
    BY <1>2, <2>3, <2>7 DEF Api!Next
<1>5. ASSUME NEW t \in live, Rotate(t) PROVE ChainsOK' /\ Api!Next
  <2>0. PICK c : c = origin[t]
    OBVIOUS
  <2>1. t \in 1 .. issued /\ c \in 1 .. issued /\ c \in Pairs /\ c # 0 /\ t # n
    BY <1>2, <1>3, <1>5, <2>0
  <2>2. /\ origin' = [origin EXCEPT ![n] = c] /\ live' = (live \ {t}) \cup {n}
    BY <1>0, <1>5, <2>0, <2>1 DEF Rotate, IssuePair
  <2>3. origin'[n] = c /\ \A p \in 1 .. issued : origin'[p] = origin[p]
    BY <1>2, <1>3, <2>2 DEF ApiTypeOK
  <2>4. \A p \in live \ {t} : origin[p] # c
    BY <1>5, <2>0 DEF ChainsOK
  <2>5. ChainsOK'
    BY <1>1, <1>2, <1>3, <2>1, <2>2, <2>3, <2>4 DEF ChainsOK
  <2>6. {p \in live : origin[p] = c} = {t}
    BY <1>5, <2>0, <2>4
  <2>7. \A d \in Pairs : {p \in live : origin[p] = d}' =
                           IF d = c THEN {n} ELSE {p \in live : origin[p] = d}
    <3>1. \A p \in live : p # n /\ origin'[p] = origin[p]
      BY <1>2, <1>3, <2>3
    <3> QED
      BY <2>0, <2>2, <2>3, <2>4, <3>1
  <2>8. {origin[p] : p \in 1 .. issued}' = {origin[p] : p \in 1 .. issued}
    BY <1>2, <2>0, <2>1, <2>3
  <2>9. Api!HandOver(c, t, n)
    BY <1>2, <2>1, <2>6, <2>7, <2>8 DEF Api!HandOver
  <2> QED
    BY <1>2, <1>3, <2>1, <2>5, <2>9 DEF Api!Next
<1> QED
  BY <1>4, <1>5

LEMMA PromiseStep ==
  ASSUME Parts, ChainsOK, [MobileNext]_mobileVars
  PROVE  ChainsOK' /\ [Api!Next]_(Api!chainVars)
  BY NextApiKind, RevokeKeepsPromise, IssueKeepsPromise DEF ApiKind, Parts

LEMMA DeviceChains == Device => ChainsOK
<1> SUFFICES ASSUME Device PROVE ChainsOK
  OBVIOUS
<1>1. issued \in {0, 1} /\ 1 \in Pairs /\ live = 1 .. issued
  BY MobileAssumption DEF Device, Pairs
<1>2. \A p \in 1 .. issued : p = 1
  BY <1>1
<1>3. 1 \in 1 .. issued => origin[1] = 1
  BY <1>1 DEF Device
<1> QED
  BY <1>1, <1>2, <1>3 DEF ChainsOK

(* The API the app is modelled against does what SessionChains lets it and *)
(* nothing else: what the app's theorems take of the API is what           *)
(* SessionsImplementChains shows of auth.service.ts.                       *)
THEOREM ApiAsPromised == MobileSpec => ApiKeepsPromise
<1>1. MobileInit => ChainsOK
  BY DeviceChains DEF MobileInit
<1>2. IndInv /\ ChainsOK /\ [MobileNext]_mobileVars => ChainsOK' /\ [Api!Next]_(Api!chainVars)
  BY InvParts, PromiseStep DEF IndInv, MobileInv
<1> QED
  BY <1>1, <1>2, IndAlways, PTL DEF MobileSpec, ApiKeepsPromise

-----------------------------------------------------------------------------
(* Both sides of a session, as MCSignIn puts them next to each other. *)

(* The app of a behaviour that moves the API: not opened, nobody known.    *)
AppRests ==
  /\ Device /\ profile = "none"
  /\ session = SignedOut("none") /\ task = [k \in Tasks |-> Sleeping]

LEMMA RestInit == AppRests => IndInv
<1> SUFFICES ASSUME AppRests PROVE IndInv
  OBVIOUS
<1>1. /\ rotation = Resting /\ session = SignedOut("none") /\ screen = "signIn" /\ rotated = {}
      /\ theft = FALSE /\ strayed = FALSE /\ crowded = FALSE /\ together = FALSE /\ refused = FALSE
      /\ kept = NoTokens /\ issued = 0
  BY DEF AppRests, Device
<1>2. kept.access = 0 /\ kept.refresh = 0
  BY <1>1 DEF NoTokens
<1>3. /\ task \in [Tasks -> Task]
      /\ \A k \in Tasks : task[k].at = "idle" /\ task[k].pair = 0
  BY SleepingShape DEF AppRests
<1>4. Parts
  <2>1. ApiTypeOK
    <3>1. {0, 1} \subseteq PairOrNone
      BY MobileAssumption DEF PairOrNone
    <3> QED
      BY <1>1, <3>1 DEF AppRests, Device, ApiTypeOK
  <2>2. session \in Sessions /\ Fits(session, screen)
    BY <1>1, SessionFacts DEF Sessions, Fits, Screens, AuthScreens
  <2>3. TellTypeOK /\ acts \in Nat
    BY <1>1 DEF AppRests, Device, TellTypeOK
  <2>4. kept \in [access : PairOrNone, refresh : PairOrNone]
    BY <1>1, ZeroIsNone DEF NoTokens
  <2> QED
    BY <1>1, <1>3, <2>1, <2>2, <2>3, <2>4, RestingShape DEF Parts
<1>5. PairsIssued
  BY <1>1, <1>2, <1>3, RestingShape DEF PairsIssued
<1>6. RotationAwaited
  BY <1>1, <1>3, RestingShape DEF RotationAwaited
<1>7. FreshInUse
  BY <1>1, <1>3 DEF FreshInUse, Entering
<1>8. WritersApart
  BY <1>1, <1>2, <1>3, RestingShape DEF WritersApart, Storing
<1>9. SessionKnown
  BY <1>1, <1>3, SessionFacts DEF SessionKnown
<1> QED
  BY <1>1, <1>4, <1>5, <1>6, <1>7, <1>8, <1>9, PartsInv DEF IndInv, MobileInv, NoSelfTheft

LEMMA SignInStart == SignInInit => Init /\ IndInv /\ ChainsOK
<1> SUFFICES ASSUME SignInInit PROVE Init /\ IndInv /\ ChainsOK
  OBVIOUS
<1>1. CASE MobileInit
  BY <1>1, IndInit, DeviceChains DEF SignInInit, MobileInit
<1>2. CASE AppRests
  BY <1>2, RestInit, DeviceChains DEF SignInInit, AppRests
<1> QED
  BY <1>1, <1>2 DEF SignInInit, AppRests

LEMMA SignInStep == [SignInNext]_signInVars => [Next]_vars /\ [MobileNext]_mobileVars
  BY DEF SignInNext, signInVars

LEMMA SignInAlways == SignInSpec => Spec /\ []IndInv /\ []ChainsOK
<1>1. IndInv /\ ChainsOK /\ [MobileNext]_mobileVars => ChainsOK'
  BY InvParts, PromiseStep DEF IndInv, MobileInv
<1> QED
  BY <1>1, SignInStart, SignInStep, IndStep, PTL DEF SignInSpec, Spec

(* Where the API handles its requests beside an app that holds its tokens, *)
(* both keep their invariants and what follows from them.                  *)
THEOREM SignInInvariant ==
  SignInSpec => /\ []ChainInv /\ []ResetEndsOtherSessions
                /\ []MobileInv /\ []NoSelfTheft /\ []PairsMatch /\ []SessionMatchesStore
<1>1. IndInv => MobileInv /\ NoSelfTheft /\ PairsMatch /\ SessionMatchesStore
  <2>1. MobileInv => PairsMatch
    BY DEF MobileInv, WritersApart, HalfWritten, Writing, Halfway, Storing, PairsMatch
  <2>2. MobileInv => SessionMatchesStore
    BY DEF MobileInv, SessionKnown, SomeAt, Writing, Storing, SessionMatchesStore
  <2> QED
    BY <2>1, <2>2 DEF IndInv
<1> QED
  BY <1>1, SignInAlways, ChainInvariant, ResetEndsTheOthers, PTL

(* One promise joins the two models: auth.service.ts keeps it for every    *)
(* interleaving of its requests, and the API the app was modelled against  *)
(* takes no other step than those it allows.                               *)
THEOREM OnePromise == SignInSpec => ImplementsChains /\ ApiKeepsPromise
<1>1. IndInv /\ ChainsOK /\ [MobileNext]_mobileVars => [Api!Next]_(Api!chainVars)
  BY InvParts, PromiseStep DEF IndInv, MobileInv
<1>2. SignInSpec => [][MobileNext]_mobileVars
  BY SignInStep, PTL DEF SignInSpec
<1> QED
  BY <1>1, <1>2, SignInAlways, SessionsImplementChains, PTL DEF ApiKeepsPromise
=============================================================================
