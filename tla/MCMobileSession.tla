---------------------------- MODULE MCMobileSession ----------------------------
(* Instances for TLC of the mobile app's session alone. *)
EXTENDS MobileSession
=============================================================================
