--------------------------- MODULE MCAssignmentRace ---------------------------
(***************************************************************************)
(* Small instances of AssignmentRace for TLC: offers are alike, and so are  *)
(* the callers.                                                             *)
(***************************************************************************)
EXTENDS AssignmentRace, TLC

Symmetry == Permutations(Offer) \cup Permutations(Request)
=============================================================================
