-------------------------------- MODULE MCSignIn -------------------------------
(* Instances for TLC of the two sides of a session: the refresh tokens of  *)
(* the API and the mobile app that presents them.  They share no state, so *)
(* a behaviour moves one of them and the other rests.                      *)
EXTENDS RefreshSessions, MobileSession

VARIABLE part

signInVars == <<part, vars, mobileVars>>

SignInInit ==
  /\ Init
  /\ \/ part = "app" /\ MobileInit
     \/ /\ part = "sessions" /\ Device /\ profile = "none"
        /\ session = SignedOut("none") /\ task = [k \in Tasks |-> Sleeping]

SignInNext ==
  \/ part = "sessions" /\ Next /\ UNCHANGED <<part, mobileVars>>
  \/ part = "app" /\ MobileNext /\ UNCHANGED <<part, vars>>

(* The side that rests owes no step. *)
SignInFairness ==
  /\ Fairness
  /\ \A k \in Tasks : WF_mobileVars(part = "app" /\ TaskStep(k))
  /\ WF_mobileVars(part = "app" /\ RotationStep)

SignInSpec == SignInInit /\ [][SignInNext]_signInVars /\ SignInFairness
=============================================================================
