--------------------------- MODULE MCClosingFile ---------------------------
(***************************************************************************)
(* ClosingFile for TLC: the milestones named here are those some handler    *)
(* other than setMilestone writes, and one that belongs to one structure.   *)
(***************************************************************************)
EXTENDS ClosingFile

FollowedKeys == {"seller_emd_deposited", "buyer_funds_verified", "title_clear",
                 "assignment_executed", "resale_contract_executed"}

FewKeys == {"seller_emd_deposited", "title_clear", "assignment_executed"}
=============================================================================
