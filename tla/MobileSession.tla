----------------------------- MODULE MobileSession -----------------------------
(***************************************************************************)
(* The session of the mobile app: its token store, the rotation shared by  *)
(* concurrent requests, start-up, sign-in, sign-out and the screens that   *)
(* start them, beside the API as the app meets it.  An asynchronous        *)
(* function is a task and every await is a step.  The secure store answers *)
(* its calls in the order they are made, so what runs right after a read   *)
(* is one step with it.  The API's own concurrency is in RefreshSessions:  *)
(* here it answers a request in one step.                                  *)
(***************************************************************************)
EXTENDS Naturals

CONSTANTS
  Tasks,         \* asynchronous functions running at once
  MaxPairs,      \* bound: token pairs the API issues
  MaxActs,       \* bound: what the user and the system do to the app
  Troubles       \* what the environment does besides

ASSUME MobileAssumption ==
  /\ MaxPairs \in Nat \ {0}
  /\ MaxActs \in Nat
  /\ Tasks # {}
  /\ Troubles \subseteq {"network", "refusal", "expire", "revoke", "kill"}

VARIABLES
  \* the app
  kept,       \* the secure store: the pair each half comes from, 0 for none
  session,    \* SessionState: status, reason and whether familyId is known
  screen,     \* the route shown once the session is not loading
  rotation,   \* inFlightRotation: its stage, the token presented, the pair got
  task,       \* task[k]: what k awaits next, what it is for, the pair it holds
  acts,       \* number of acts, for MaxActs
  \* the API
  profile,    \* the account: "none", "unverified" or "verified"
  issued,     \* pairs 1 .. issued exist
  origin,     \* origin[p]: the first pair of p's rotation chain
  live,       \* pairs whose refresh token is active
  stale,      \* pairs whose access token has expired
  \* history
  rotated,    \* pairs a rotation has replaced
  theft,      \* the app presented a replaced token: its chain was revoked
  strayed,    \* a pair got lost or a call went around the shared rotation
  crowded,    \* two writers of the store overlapped, or one was cut off
  together,   \* two tasks overlapped
  refused     \* the right code was entered and the API answered 401

appVars == <<kept, session, screen, rotation, task, acts>>
apiVars == <<profile, issued, origin, live, stale>>
tellVars == <<rotated, theft, strayed, crowded, together, refused>>
mobileVars == <<kept, session, screen, rotation, task, acts, profile, issued, origin,
                live, stale, rotated, theft, strayed, crowded, together, refused>>

Pairs == 1 .. MaxPairs
PairOrNone == 0 .. MaxPairs
AuthScreens == {"signIn", "verify"}
Loading == [status |-> "loading", reason |-> "none", family |-> FALSE]
SignedOut(why) == [status |-> "unauthenticated", reason |-> why, family |-> FALSE]
SignedIn(family) == [status |-> "authenticated", reason |-> "none", family |-> family]
Resting == [stage |-> "none", token |-> 0, pair |-> 0]
Sleeping == [at |-> "idle", op |-> "none", leg |-> "me", pair |-> 0]
Starting == [Sleeping EXCEPT !.at = "read", !.op = "load"]
NoTokens == [access |-> 0, refresh |-> 0]

Storing == {"inSave", "inSave2", "outSave", "outSave2", "wipe", "wipe2", "outWipe", "outWipe2"}

MobileTypeOK ==
  /\ kept \in [access : PairOrNone, refresh : PairOrNone]
  /\ session \in [status : {"loading", "authenticated", "unauthenticated"},
                  reason : {"none", "expired", "offline"}, family : BOOLEAN]
  /\ screen \in AuthScreens \cup {"home", "onboarding"}
  /\ rotation \in [stage : {"none", "sent", "save", "save2"}, token : PairOrNone,
                   pair : PairOrNone]
  /\ task \in [Tasks -> [at : {"idle", "read", "fetch", "renew", "joined", "retry", "denied",
                               "login", "outRead", "outPost", "outRefresh", "outPost2"}
                                 \cup Storing,
                         op : {"none", "load", "signIn", "signOut", "verify", "resend"},
                         leg : {"me", "family", "act"}, pair : PairOrNone]]
  /\ acts \in Nat
  /\ profile \in {"none", "unverified", "verified"}
  /\ issued \in PairOrNone
  /\ origin \in [Pairs -> PairOrNone]
  /\ live \subseteq 1 .. issued
  /\ stale \subseteq 1 .. issued
  /\ rotated \subseteq 1 .. issued
  /\ {theft, strayed, crowded, together, refused} \subseteq BOOLEAN

(* The load that runs when the app starts. *)
Launcher == CHOOSE k \in Tasks : TRUE

(* The device before the app is opened: nobody signed in, or a session kept. *)
Device ==
  /\ \/ profile = "none" /\ kept = NoTokens /\ issued = 0
     \/ profile \in {"unverified", "verified"} /\ kept = [access |-> 1, refresh |-> 1]
        /\ issued = 1
  /\ live = 1 .. issued
  /\ origin = [p \in Pairs |-> IF p <= issued THEN 1 ELSE 0]
  /\ stale = {}
  /\ screen = "signIn"
  /\ rotation = Resting
  /\ acts = 0
  /\ rotated = {}
  /\ theft = FALSE /\ strayed = FALSE /\ crowded = FALSE /\ together = FALSE
  /\ refused = FALSE

(* A cold start *)
MobileInit ==
  /\ Device
  /\ session = Loading
  /\ task = [k \in Tasks |-> IF k = Launcher THEN Starting ELSE Sleeping]

-----------------------------------------------------------------------------
(* The API *)

Happens(what) == what \in Troubles

(* No pair: throttled, a server error, or the bound on pairs. *)
Refuses == Happens("refusal") \/ issued = MaxPairs
Accepts(access) == access # 0 /\ access \notin stale

(* A new pair of the chain c, in place of the pairs in out. *)
IssuePair(c, out) ==
  /\ issued < MaxPairs
  /\ issued' = issued + 1
  /\ origin' = [origin EXCEPT ![issued + 1] = IF c = 0 THEN issued + 1 ELSE c]
  /\ live' = (live \ out) \cup {issued + 1}
  /\ UNCHANGED <<profile, stale>>

(* Mutant of Rotate: the presented token stays active.                     *)
RotateKeepsOld(t) ==
  /\ t \in live
  /\ IssuePair(origin[t], {})
  /\ rotated' = rotated \cup {t}
  /\ UNCHANGED theft

(* auth/token/refresh: an active token is replaced, another ends its chain. *)
Rotate(t) ==
  /\ t \in live
  /\ IssuePair(origin[t], {t})
  /\ rotated' = rotated \cup {t}
  /\ UNCHANGED theft

EndChain(t) ==
  /\ t \notin live
  /\ live' = {p \in live : origin[p] # origin[t]}
  /\ theft' = (theft \/ t \in rotated)
  /\ UNCHANGED <<profile, issued, origin, stale, rotated>>

-----------------------------------------------------------------------------
(* Navigation *)

(* nextRoute *)
Route(s) ==
  IF s.status # "authenticated" THEN "signIn" ELSE IF s.family THEN "home" ELSE "onboarding"

(* The redirects of the route groups' layouts. *)
Redirect(s, from) ==
  CASE s.status = "loading" -> from
    [] s.status = "authenticated" /\ from \in AuthScreens \cup {"home"} -> Route(s)
    [] s.status = "unauthenticated" /\ from \notin AuthScreens -> "signIn"
    [] OTHER -> from

Shows(r) == session.status # "loading" /\ screen = r

SetSession(s) == session' = s /\ screen' = Redirect(s, screen)

-----------------------------------------------------------------------------
(* Tasks *)

Step(k, stage) == task' = [task EXCEPT ![k].at = stage]
End(k) == task' = [task EXCEPT ![k] = Sleeping]
Writing == rotation.stage \in {"save", "save2"}
           \/ \E k \in Tasks : task[k].at \in Storing

(* The load of k ends: setState, and router.replace('/') after a code.     *)
Loaded(k, s) ==
  /\ session' = s
  /\ screen' = IF task[k].op = "verify" THEN Route(s) ELSE Redirect(s, screen)
  /\ End(k)

(* setState(LOADING) and load(). *)
Reload(k) ==
  /\ SetSession(Loading)
  /\ task' = [task EXCEPT ![k].at = "read", ![k].leg = "me", ![k].pair = 0]

(* Mutant of Resolve: bootstrapSession leaves a network error to no one.   *)
ResolveDropsNetwork(k, result) ==
  CASE task[k].leg = "act" \/ result = "network" ->
         IF task[k].op = "verify" /\ result = "ok" THEN Reload(k)
                                                   ELSE End(k) /\ UNCHANGED <<session, screen>>
    [] task[k].leg # "act" /\ result \in {"401", "refused"} -> Loaded(k, SignedOut("expired"))
    [] task[k].leg = "me" /\ result = "ok" ->
         /\ task' = [task EXCEPT ![k].leg = "family", ![k].at = "fetch", ![k].pair = 0]
         /\ UNCHANGED <<session, screen>>
    [] OTHER -> \E family \in {FALSE, profile = "verified"} : Loaded(k, SignedIn(family))

(* What the caller of authFetch makes of its outcome: fetchCurrentUser and *)
(* resolveFamilyId within bootstrapSession, verifyEmail, resendVerification. *)
Resolve(k, result) ==
  CASE task[k].leg = "act" ->
         IF task[k].op = "verify" /\ result = "ok" THEN Reload(k)
                                                   ELSE End(k) /\ UNCHANGED <<session, screen>>
    [] task[k].leg # "act" /\ result = "network" -> Loaded(k, SignedOut("offline"))
    [] task[k].leg # "act" /\ result \in {"401", "refused"} -> Loaded(k, SignedOut("expired"))
    [] task[k].leg = "me" /\ result = "ok" ->
         /\ task' = [task EXCEPT ![k].leg = "family", ![k].at = "fetch", ![k].pair = 0]
         /\ UNCHANGED <<session, screen>>
    [] OTHER -> \E family \in {FALSE, profile = "verified"} : Loaded(k, SignedIn(family))

(* bootstrapSession reads both tokens; without any there is no session.    *)
ReadTokens(k) ==
  /\ task[k].at = "read"
  /\ IF kept = NoTokens
       THEN Loaded(k, SignedOut("none"))
       ELSE Step(k, "fetch") /\ UNCHANGED <<session, screen>>
  /\ UNCHANGED <<kept, rotation, acts, apiVars, tellVars>>

(* fetchWithToken, first with the access token kept, after a renewal with  *)
(* the new one: an answer, an answer that refuses, or none.                *)
Fetch(k) ==
  /\ task[k].at \in {"fetch", "retry"}
  /\ LET access == IF task[k].at = "fetch" THEN kept.access ELSE task[k].pair IN
       \/ Happens("network") /\ Resolve(k, "network") /\ UNCHANGED <<profile, refused>>
       \/ Happens("refusal") /\ Resolve(k, "refused") /\ UNCHANGED <<profile, refused>>
       \/ /\ Accepts(access)
          /\ profile' = IF task[k].op = "verify" /\ task[k].leg = "act" THEN "verified"
                                                                       ELSE profile
          /\ Resolve(k, "ok")
          /\ UNCHANGED refused
       \/ /\ ~Accepts(access) /\ task[k].at = "fetch"
          /\ Step(k, "renew")
          /\ UNCHANGED <<session, screen, profile, refused>>
       \/ /\ ~Accepts(access) /\ task[k].at = "retry"
          /\ Resolve(k, "401")
          /\ UNCHANGED <<profile, refused>>
  /\ UNCHANGED <<kept, rotation, acts, issued, origin, live, stale, rotated, theft, strayed,
                 crowded, together>>

(* Mutant of Renew: every 401 rotates on its own.                          *)
RenewAlone(k) ==
  /\ task[k].at = "renew"
  /\ IF kept.refresh = 0
       THEN Step(k, "denied") /\ UNCHANGED <<rotation, apiVars, rotated, theft>>
       ELSE \/ /\ Rotate(kept.refresh)
               /\ rotation' = [stage |-> "save", token |-> kept.refresh, pair |-> issued + 1]
               /\ Step(k, "joined")
            \/ EndChain(kept.refresh) /\ Step(k, "wipe") /\ UNCHANGED rotation
  /\ UNCHANGED <<kept, session, screen, acts, strayed, crowded, together, refused>>

(* authFetch after a 401: the refresh token is read and handed to          *)
(* rotateOnce, which joins the rotation in flight or starts one.           *)
Renew(k) ==
  /\ task[k].at = "renew"
  /\ IF kept.refresh = 0
       THEN Step(k, "denied") /\ UNCHANGED rotation
       ELSE /\ Step(k, "joined")
            /\ rotation' = IF rotation.stage = "none"
                             THEN [stage |-> "sent", token |-> kept.refresh, pair |-> 0]
                             ELSE rotation
  /\ UNCHANGED <<kept, session, screen, acts, apiVars, tellVars>>

(* The 401 goes back to the caller. *)
Denied(k) ==
  /\ task[k].at = "denied"
  /\ Resolve(k, "401")
  /\ refused' = (refused \/ (task[k].op = "verify" /\ task[k].leg = "act"))
  /\ UNCHANGED <<kept, rotation, acts, apiVars, rotated, theft, strayed, crowded,
                 together>>

(* Mutant of WakeAll: the outcome reaches one waiting request alone.       *)
WakeOne(stage, p) ==
  LET k == CHOOSE j \in Tasks : task[j].at = "joined"
  IN task' = [task EXCEPT ![k].at = stage, ![k].pair = p]

(* The tasks waiting for the rotation go on. *)
WakeAll(stage, p) ==
  task' = [k \in Tasks |-> IF task[k].at = "joined" THEN [task[k] EXCEPT !.at = stage, !.pair = p]
                                                    ELSE task[k]]

(* The rotation's request.  Only an ApiError 401 makes the waiting         *)
(* authFetches wipe the store; without an answer they return their 401.    *)
RotationAnswered ==
  /\ rotation.stage = "sent"
  /\ \/ /\ Rotate(rotation.token)
        /\ \/ rotation' = [rotation EXCEPT !.stage = "save", !.pair = issued + 1]
              /\ crowded' = (crowded \/ Writing)
              /\ UNCHANGED <<task, strayed>>
           \/ Happens("network") /\ rotation' = Resting /\ WakeAll("denied", 0)
              /\ strayed' = TRUE /\ UNCHANGED crowded
     \/ /\ EndChain(rotation.token)
        /\ rotation' = Resting /\ WakeAll("wipe", 0)
        /\ crowded' = (crowded \/ Writing)
        /\ UNCHANGED strayed
     \/ /\ Happens("network") \/ Refuses
        /\ rotation' = Resting /\ WakeAll("denied", 0)
        /\ UNCHANGED <<apiVars, rotated, theft, strayed, crowded>>
  /\ UNCHANGED <<kept, session, screen, acts, together, refused>>

(* Mutant of RotationSaves: the access token alone is saved.               *)
RotationSavesAccess ==
  /\ rotation.stage \in {"save", "save2"}
  /\ kept' = [kept EXCEPT !.access = rotation.pair]
  /\ rotation' = Resting
  /\ WakeAll("retry", rotation.pair)
  /\ UNCHANGED <<session, screen, acts, apiVars, tellVars>>

(* saveTokens, one half after the other; with the second the rotation is   *)
(* over and the waiting requests are made again.                           *)
RotationSaves ==
  /\ \/ /\ rotation.stage = "save"
        /\ kept' = [kept EXCEPT !.access = rotation.pair]
        /\ rotation' = [rotation EXCEPT !.stage = "save2"]
        /\ UNCHANGED task
     \/ /\ rotation.stage = "save2"
        /\ kept' = [kept EXCEPT !.refresh = rotation.pair]
        /\ rotation' = Resting
        /\ WakeAll("retry", rotation.pair)
  /\ UNCHANGED <<session, screen, acts, apiVars, tellVars>>

(* clearTokens of authFetch, of both halves in turn. *)
Wipe(k) ==
  /\ \/ /\ task[k].at = "wipe"
        /\ kept' = [kept EXCEPT !.access = 0]
        /\ Step(k, "wipe2")
     \/ /\ task[k].at = "wipe2"
        /\ kept' = [kept EXCEPT !.refresh = 0]
        /\ Step(k, "denied")
  /\ UNCHANGED <<session, screen, rotation, acts, apiVars, tellVars>>

-----------------------------------------------------------------------------
(* Signing in: login(), then establishSession. *)

LoginAnswered(k) ==
  /\ task[k].at = "login"
  /\ \/ /\ IssuePair(0, {})
        /\ task' = [task EXCEPT ![k].at = "inSave", ![k].pair = issued + 1]
        /\ crowded' = (crowded \/ Writing)
     \/ /\ Happens("network") \/ Refuses
        /\ End(k)
        /\ UNCHANGED <<apiVars, crowded>>
  /\ UNCHANGED <<kept, session, screen, rotation, acts, rotated, theft, strayed, together,
                 refused>>

EstablishSession(k) ==
  /\ \/ /\ task[k].at = "inSave"
        /\ kept' = [kept EXCEPT !.access = task[k].pair]
        /\ Step(k, "inSave2")
        /\ UNCHANGED <<session, screen>>
     \/ /\ task[k].at = "inSave2"
        /\ kept' = [kept EXCEPT !.refresh = task[k].pair]
        /\ Reload(k)
  /\ UNCHANGED <<rotation, acts, apiVars, tellVars>>

-----------------------------------------------------------------------------
(* Signing out: revokeSession.  It does not go through rotateOnce.         *)

SignOutReads(k) ==
  /\ task[k].at = "outRead"
  /\ IF kept.refresh = 0
       THEN Step(k, "outWipe") /\ crowded' = (crowded \/ Writing)
       ELSE task' = [task EXCEPT ![k].at = "outPost", ![k].pair = kept.refresh]
            /\ UNCHANGED crowded
  /\ UNCHANGED <<kept, session, screen, rotation, acts, apiVars, rotated, theft, strayed,
                 together, refused>>

(* postLogout: revokes the session named, if the access token is accepted. *)
SignOutPosts(k) ==
  /\ task[k].at \in {"outPost", "outPost2"}
  /\ LET access == IF task[k].at = "outPost" THEN kept.access ELSE task[k].pair IN
       \/ /\ Accepts(access)
          /\ live' = live \ {task[k].pair}
          /\ Step(k, "outWipe") /\ crowded' = (crowded \/ Writing)
       \/ /\ ~Accepts(access) /\ task[k].at = "outPost"
          /\ Step(k, "outRefresh") /\ UNCHANGED <<live, crowded>>
       \/ /\ Happens("network") \/ (~Accepts(access) /\ task[k].at = "outPost2")
          /\ Step(k, "outWipe") /\ crowded' = (crowded \/ Writing)
          /\ UNCHANGED live
  /\ UNCHANGED <<kept, session, screen, rotation, acts, profile, issued, origin, stale,
                 rotated, theft, strayed, together, refused>>

SignOutRefreshes(k) ==
  /\ task[k].at = "outRefresh"
  /\ \/ /\ Rotate(task[k].pair)
        /\ task' = [task EXCEPT ![k].at = "outSave", ![k].pair = issued + 1]
     \/ EndChain(task[k].pair) /\ Step(k, "outWipe")
     \/ /\ Happens("network") \/ Refuses
        /\ Step(k, "outWipe") /\ UNCHANGED <<apiVars, rotated, theft>>
  /\ strayed' = TRUE
  /\ crowded' = (crowded \/ Writing)
  /\ UNCHANGED <<kept, session, screen, rotation, acts, together, refused>>

SignOutSaves(k) ==
  /\ \/ /\ task[k].at = "outSave"
        /\ kept' = [kept EXCEPT !.access = task[k].pair]
        /\ Step(k, "outSave2")
     \/ /\ task[k].at = "outSave2"
        /\ kept' = [kept EXCEPT !.refresh = task[k].pair]
        /\ Step(k, "outPost2")
  /\ UNCHANGED <<session, screen, rotation, acts, apiVars, tellVars>>

(* Mutant of SignOutWipes: a sign-out wipes the access token alone.        *)
SignOutKeepsRefresh(k) ==
  /\ task[k].at \in {"outWipe", "outWipe2"}
  /\ kept' = [kept EXCEPT !.access = 0]
  /\ SetSession(SignedOut("none")) /\ End(k)
  /\ UNCHANGED <<rotation, acts, apiVars, tellVars>>

(* The finally block, then setState. *)
SignOutWipes(k) ==
  /\ \/ /\ task[k].at = "outWipe"
        /\ kept' = [kept EXCEPT !.access = 0]
        /\ Step(k, "outWipe2")
        /\ UNCHANGED <<session, screen>>
     \/ /\ task[k].at = "outWipe2"
        /\ kept' = [kept EXCEPT !.refresh = 0]
        /\ SetSession(SignedOut("none")) /\ End(k)
  /\ UNCHANGED <<rotation, acts, apiVars, tellVars>>

-----------------------------------------------------------------------------
(* What the user does *)

Start(k, t) ==
  /\ task[k].at = "idle"
  /\ acts < MaxActs
  /\ acts' = acts + 1
  /\ task' = [task EXCEPT ![k] = t]
  /\ together' = (together \/ \E j \in Tasks : task[j].at # "idle")
  /\ UNCHANGED <<kept, rotation, apiVars, rotated, theft, strayed, crowded, refused>>

Running(ops) == \E k \in Tasks : task[k].op \in ops

(* The button of a form is disabled while its submission runs. *)
SubmitSignIn(k) ==
  /\ Shows("signIn") /\ profile # "none" /\ ~Running({"signIn"})
  /\ Start(k, [Sleeping EXCEPT !.at = "login", !.op = "signIn"])
  /\ UNCHANGED <<session, screen>>

(* A sign-up accepted by the API leads to the screen for the code; it does *)
(* not sign in.                                                            *)
SubmitSignUp ==
  /\ Shows("signIn") /\ profile = "none"
  /\ acts < MaxActs
  /\ acts' = acts + 1
  /\ profile' = "unverified"
  /\ screen' = "verify"
  /\ UNCHANGED <<kept, session, rotation, task, issued, origin, live, stale, tellVars>>

(* The code that was mailed; a wrong one is answered 400 and changes nothing. *)
SubmitCode(k) ==
  /\ Shows("verify") /\ ~Running({"verify"})
  /\ Start(k, [Sleeping EXCEPT !.at = "fetch", !.op = "verify", !.leg = "act"])
  /\ UNCHANGED <<session, screen>>

PressResend(k) ==
  /\ Shows("verify")
  /\ Start(k, [Sleeping EXCEPT !.at = "fetch", !.op = "resend", !.leg = "act"])
  /\ UNCHANGED <<session, screen>>

(* The home screen's sync; its button is disabled while it runs. *)
PressSync(k) ==
  /\ Shows("home")
  /\ Start(k, Starting)
  /\ SetSession(Loading)

PressSignOut(k) ==
  /\ Shows("home") \/ Shows("onboarding")
  /\ Start(k, [Sleeping EXCEPT !.at = "outRead", !.op = "signOut"])
  /\ UNCHANGED <<session, screen>>

(* The app comes to the foreground after a load that ended offline. *)
Foreground(k) ==
  /\ session.reason = "offline"
  /\ Start(k, Starting)
  /\ UNCHANGED <<session, screen>>

-----------------------------------------------------------------------------
(* The environment *)

(* The system kills the app and the user opens it again: memory is gone.   *)
(* A request under way may reach the API all the same.                     *)
KillAndRestart ==
  /\ Happens("kill")
  /\ acts < MaxActs
  /\ acts' = acts + 1
  /\ \/ UNCHANGED <<apiVars, rotated, theft>>
     \/ rotation.stage = "sent" /\ Rotate(rotation.token)
  /\ strayed' = (strayed \/ rotation.stage # "none")
  /\ crowded' = (crowded \/ Writing)
  /\ session' = Loading
  /\ screen' = "signIn"
  /\ rotation' = Resting
  /\ task' = [k \in Tasks |-> IF k = Launcher THEN Starting ELSE Sleeping]
  /\ UNCHANGED <<kept, together, refused>>

ExpireAccess(p) ==
  /\ Happens("expire")
  /\ p \notin stale
  /\ stale' = stale \cup {p}
  /\ UNCHANGED <<appVars, profile, issued, origin, live, tellVars>>

(* A password reset elsewhere revokes every session. *)
RevokeElsewhere ==
  /\ Happens("revoke")
  /\ live # {}
  /\ live' = {}
  /\ UNCHANGED <<appVars, profile, issued, origin, stale, tellVars>>

TaskStep(k) ==
  \/ ReadTokens(k) \/ Fetch(k) \/ Renew(k) \/ Denied(k) \/ Wipe(k)
  \/ LoginAnswered(k) \/ EstablishSession(k)
  \/ SignOutReads(k) \/ SignOutPosts(k) \/ SignOutRefreshes(k) \/ SignOutSaves(k)
  \/ SignOutWipes(k)

RotationStep == RotationAnswered \/ RotationSaves

UserActs(k) ==
  \/ SubmitSignIn(k) \/ SubmitCode(k) \/ PressResend(k) \/ PressSync(k) \/ PressSignOut(k)
  \/ Foreground(k)

MobileNext ==
  \/ \E k \in Tasks : TaskStep(k) \/ UserActs(k)
  \/ RotationStep \/ SubmitSignUp \/ KillAndRestart \/ RevokeElsewhere
  \/ \E p \in 1 .. issued : ExpireAccess(p)

(* Tasks run on and a request is answered or fails; nobody owes an act.    *)
MobileFairness ==
  /\ \A k \in Tasks : WF_mobileVars(TaskStep(k))
  /\ WF_mobileVars(RotationStep)

MobileSpec == MobileInit /\ [][MobileNext]_mobileVars /\ MobileFairness

-----------------------------------------------------------------------------
(* Properties *)

(* What the app holds are pairs the API has issued; whoever is to save one *)
(* has one.                                                                *)
PairsIssued ==
  /\ kept.access <= issued /\ kept.refresh <= issued
  /\ rotation.token <= issued /\ rotation.pair <= issued
  /\ rotation.stage \in {"save", "save2"} => rotation.pair # 0
  /\ \A k \in Tasks :
       /\ task[k].pair <= issued
       /\ task[k].at \in {"inSave", "inSave2", "outSave", "outSave2"} => task[k].pair # 0

(* A request waits for the shared rotation exactly while one runs: none is *)
(* left behind by a rotation that ended, whatever it ended with.           *)
RotationAwaited == rotation.stage # "none" <=> \E k \in Tasks : task[k].at = "joined"

(* What the app is about to present or to keep has not been replaced, and  *)
(* a pair that a sign-in is saving is nobody else's.                       *)
Entering == {k \in Tasks : task[k].at \in {"inSave", "inSave2"}}
InUse == CASE rotation.stage = "none" -> {kept.refresh}
           [] rotation.stage = "sent" -> {kept.refresh, rotation.token}
           [] OTHER -> {rotation.pair}
FreshInUse ==
  ~strayed =>
    /\ InUse \cap rotated = {}
    /\ \A k \in Tasks : task[k].at \notin {"outSave", "outSave2"}
    /\ \A k \in Entering :
         /\ task[k].pair \notin rotated \cup InUse
         /\ \A j \in Entering : j # k => task[j].pair # task[k].pair

(* Where the writers of the store have got to: one at a time, except that  *)
(* all the requests of a rotation refused wipe it together.                *)
Halfway == {"inSave2", "outSave2", "wipe2", "outWipe2"}
HalfWritten == rotation.stage = "save2" \/ \E k \in Tasks : task[k].at \in Halfway
WritersApart ==
  ~crowded =>
    /\ HalfWritten \/ kept.access = kept.refresh
    /\ rotation.stage = "save2" => kept.access = rotation.pair
    /\ \A k \in Tasks :
         /\ task[k].at \in {"inSave2", "outSave2"} => kept.access = task[k].pair
         /\ task[k].at \in {"wipe2", "outWipe2"} => kept.access = 0
         /\ task[k].at \in Storing =>
              /\ rotation.stage \notin {"save", "save2"}
              /\ \A j \in Tasks : j # k /\ task[j].at \in Storing =>
                                   {task[j].at, task[k].at} \subseteq {"wipe", "wipe2"}

(* A session signed in shows the app's screens and no other does.          *)
ScreenOfSession ==
  /\ session \in {Loading, SignedIn(TRUE), SignedIn(FALSE)}
                 \cup {SignedOut(why) : why \in {"none", "expired", "offline"}}
  /\ session.status = "authenticated" => screen \notin AuthScreens
  /\ session.status = "unauthenticated" => screen \in AuthScreens

(* What the one task running knows of the store, and the session of it.    *)
SigningOut == {"outRead", "outPost", "outRefresh", "outSave", "outSave2", "outPost2",
               "outWipe", "outWipe2"}
SomeAt(stage) == \E k \in Tasks : task[k].at = stage
SessionKnown ==
  ~together =>
    /\ session.status = "authenticated" => kept # NoTokens \/ SomeAt("outWipe2")
    /\ session = SignedOut("none") => kept = NoTokens \/ SomeAt("inSave2")
    /\ \A k \in Tasks :
         /\ task[k].at # "idle" =>
              /\ \A j \in Tasks : j # k => task[j].at = "idle"
              /\ session.status = "authenticated" <=> task[k].at \in SigningOut
         /\ task[k].at = "joined" => session # SignedOut("none")
         /\ task[k].at = "retry" => kept # NoTokens
         /\ task[k].at = "outWipe2" => kept.access = 0

(* A request waits for the shared rotation exactly while one runs, the     *)
(* tokens held are what each step takes them to be, and the writers of the *)
(* store keep out of each other's way as far as the code makes them.       *)
MobileInv ==
  /\ MobileTypeOK /\ PairsIssued /\ RotationAwaited /\ FreshInUse /\ WritersApart
  /\ ScreenOfSession /\ SessionKnown

(* The app does not present a refresh token it has had replaced, which the *)
(* API would take for theft and end the chain: what rotateOnce is for.     *)
(* Left out are a rotation whose answer got lost or whose pair was not     *)
(* saved before the app was killed, and the refresh that sign-out makes    *)
(* around rotateOnce.                                                      *)
NoSelfTheft == theft => strayed

(* Between writes the two halves kept come from one pair, unless two       *)
(* writers of the store overlapped or the app was killed within a write:   *)
(* saveTokens and clearTokens are two calls each.                          *)
PairsMatch == ~Writing /\ ~crowded => kept.access = kept.refresh

(* A session shown as signed in has a token to act with, and one signed    *)
(* out for good has left none behind, unless two tasks overlapped: the     *)
(* late 401 of one wipes what the other has just saved, and a load started *)
(* during a sign-out signs in again after it.                              *)
SessionMatchesStore ==
  ~Writing /\ ~together =>
    /\ session.status = "authenticated" => kept # NoTokens
    /\ session = SignedOut("none") => kept = NoTokens

(* The right code, entered on the screen a sign-up leads to, is not        *)
(* answered 401.                                                           *)
CodeEntryVerifies == ~refused

(* A session reported expired has been cleared from the store, so nothing  *)
(* is left that a later attempt could restore.                             *)
ExpiredMeansCleared == session.reason = "expired" /\ ~Writing => kept = NoTokens

(* The API the app meets moves as SessionChains lets it: a chain is opened *)
(* by one sign-in, hands its one usable token over on rotation, and stays  *)
(* ended.  It is the promise RefreshSessions is shown to keep.             *)
Api == INSTANCE SessionChains WITH
  Chains <- Pairs,
  Tokens <- Pairs,
  current <- [c \in Pairs |-> {p \in live : origin[p] = c}],
  opened <- {origin[p] : p \in 1 .. issued},
  issued <- 1 .. issued
ApiKeepsPromise == [][Api!Next]_(Api!chainVars)

(* What it rests on: a chain is named by its first pair and has at most    *)
(* one pair that is live.                                                  *)
ChainsOK ==
  /\ \A p \in 1 .. issued : origin[p] \in 1 .. p
  /\ \A p \in live, q \in live : origin[p] = origin[q] => p = q

(* The loading gate of _layout.tsx opens again, whatever the API answers   *)
(* and whatever else runs.                                                 *)
LoadingEnds == session.status = "loading" ~> session.status # "loading"
=============================================================================
