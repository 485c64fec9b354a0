-------------------------- MODULE MCContractFlipping --------------------------
(***************************************************************************)
(* Small instances of ContractFlipping for TLC.                             *)
(***************************************************************************)
EXTENDS ContractFlipping, TLC

CONSTANTS o1, o2, b1, b2

\* Two offers, by one buyer or by two.
OneBuyer == [o \in {o1, o2} |-> b1]
TwoBuyers == [o \in {o1, o2} |-> IF o = o1 THEN b1 ELSE b2]
OneOffer == [o \in {o1} |-> b1]
NoOffers == [o \in {} |-> b1]

\* The two offers play the same part: nothing tells them apart but their buyer.
Symmetry == Permutations({o1, o2})

\* The deal sold to buyers who need no campaign (entered by people, or brought
\* in by email): what the refinement to ContractSale is about.
SaleNext ==
    \/ SellerContractNext
    \/ BuyerOffersNext
    \/ AssignmentsNext
    \/ ClosingNext
    \/ \E to \in Stages : MoveStage(to)
    \/ OtherChecksChange
    \/ DeadlinePasses

SaleSpec == Init /\ [][SaleNext]_vars

=============================================================================
