---------------------------- MODULE MCLaunchRace ----------------------------
(***************************************************************************)
(* A small instance of LaunchRace for TLC; MarketingStops is a liveness     *)
(* property, so the campaigns and the callers are not taken as symmetric.   *)
(***************************************************************************)
EXTENDS LaunchRace
=============================================================================
