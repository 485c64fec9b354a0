---------------------------- MODULE MCEnvelopes ----------------------------
(***************************************************************************)
(* Instance of Envelopes for TLC.                                           *)
(***************************************************************************)
EXTENDS Envelopes
=============================================================================
