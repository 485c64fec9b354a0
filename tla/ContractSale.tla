---------------------------- MODULE ContractSale ----------------------------
(***************************************************************************)
(* What contract flipping promises about one seller contract: it is sold to *)
(* one buyer at a time, to no buyer twice, it settles at most once and on a *)
(* signed sale, and the fee is earned only from a settled sale and stays    *)
(* earned.  ContractFlipping implements this.                               *)
(***************************************************************************)
CONSTANT Offer

VARIABLES
    buyer,       \* the offer the contract is reserved for or sold on, at most one
    tried,       \* offers it was ever reserved for
    signed,      \* the assignment to the buyer is executed
    settled,     \* the closing is confirmed
    earned       \* the fee counts as revenue

vars == <<buyer, tried, signed, settled, earned>>

Init ==
    /\ buyer = {}
    /\ tried = {}
    /\ signed = FALSE
    /\ settled = FALSE
    /\ earned = FALSE

\* The contract is promised to one buyer whose offer was not tried before.
Reserve(o) ==
    /\ buyer = {}
    /\ o \notin tried
    /\ buyer' = {o}
    /\ tried' = tried \cup {o}
    /\ UNCHANGED <<signed, settled, earned>>

Sign ==
    /\ buyer # {}
    /\ ~signed
    /\ signed' = TRUE
    /\ UNCHANGED <<buyer, tried, settled, earned>>

\* The sale falls through, at any time before it settles.
Release ==
    /\ buyer # {}
    /\ ~settled
    /\ buyer' = {}
    /\ signed' = FALSE
    /\ UNCHANGED <<tried, settled, earned>>

\* The fee may be counted at once or when the money arrives.
Settle ==
    /\ signed
    /\ ~settled
    /\ settled' = TRUE
    /\ earned' \in BOOLEAN
    /\ UNCHANGED <<buyer, tried, signed>>

Earn ==
    /\ settled
    /\ ~earned
    /\ earned' = TRUE
    /\ UNCHANGED <<buyer, tried, signed, settled>>

Next == (\E o \in Offer : Reserve(o)) \/ Sign \/ Release \/ Settle \/ Earn

Spec == Init /\ [][Next]_vars
=============================================================================
