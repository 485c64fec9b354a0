--------------------------- MODULE ContractFlipping ---------------------------
(***************************************************************************)
(* One deal from a signed seller contract to a collected fee: the services  *)
(* over the shared rows, and what the deal promises whatever the order in   *)
(* which people, DocuSign, the sweep and time act.                          *)
(***************************************************************************)
EXTENDS SellerContract, BuyerOffers, Assignments, Campaigns, ClosingDesk

Next ==
    \/ SellerContractNext
    \/ BuyerOffersNext
    \/ AssignmentsNext
    \/ CampaignsNext
    \/ ClosingNext
    \/ \E to \in Stages : MoveStage(to)
    \/ OtherChecksChange
    \/ DeadlinePasses

Spec == Init /\ [][Next]_vars

-----------------------------------------------------------------------------

\* At most one buyer at a time holds a draft, sent or executed assignment of
\* the contract (createFromOffer's serializable check, against every way an
\* assignment row comes to life or ends).
OneLiveAssignment ==
    \A o, p \in Offer : Live(o) /\ Live(p) => o = p

\* Halo never advertises a contract it does not hold: a campaign can send, and
\* a buyer link is unrevoked, only while the newest seller contract is
\* executed.  Termination must reach every campaign and link, and no new
\* contract may displace an executed one under them.
NeverSellWhatWeDoNotHold ==
    campaign \in {"active", "paused", "held"} \/ links # {} => NewestExecuted

\* A link never outlives its campaign: when the campaign completes, expires or
\* is cancelled, by whichever handler, its links are revoked.
LinksEndWithCampaign ==
    "current" \in links => campaign \in {"draft", "active", "paused", "held"}

\* A closed deal has a closed file, and the assignment it closed on is still
\* there: nothing cancels it afterwards.
ClosedOnAnAssignment ==
    /\ stage = "closed" => file = "closed"
    /\ file = "closed" => HasExecuted(assignment)

\* An accepted offer always has its assignment; it loses it only to a
\* cancelled closing, which ends assignments without touching their offers.
AcceptedOfferHasAssignment ==
    \A o \in Offer : offers[o].status = "accepted" =>
        /\ assignment[o] # "none"
        /\ assignment[o] = "cancelled" => file = "cancelled"

\* Somebody wrote or confirmed the price of every assignment, even those whose
\* accept failed half way.
AssignedPriceIsConfirmed ==
    \A o \in Offer : assignment[o] # "none" => offers[o].status # "none" /\ offers[o].ready

\* A verification is of a signed copy with readable terms, and of the terms the
\* contract has now: every edit of a verified term clears it, and no extension,
\* ending or late completion carries it over to other terms.
VerifiedMeansChecked ==
    \A i \in 1..Newest : agreements[i].verified =>
        /\ agreements[i].doc /\ agreements[i].clause # "unknown"
        /\ agreements[i].checked

\* Revenue is realized from a confirmed closing and nothing else.
RealizedMeansClosed ==
    revenue = "realized" => file = "closed"

\* Realized revenue is never turned back into a projection or a loss: no later
\* accept, launch, cancellation or price change un-earns a fee.
RealizedIsFinal == [][revenue = "realized" => revenue' = "realized"]_vars

\* A deal reaches marketing only while the gate passes, by whichever of its
\* four routes (verify, a cancelled assignment, a person, DocuSign).
MarketingIsGated == [][stage # "marketing" /\ stage' = "marketing" => Eligible']_vars

-----------------------------------------------------------------------------

\* The deal as its position in the contract: ContractSale is what the services
\* together promise a seller contract's sale is.
Sale == INSTANCE ContractSale WITH
    buyer   <- {o \in Offer : Live(o)},
    tried   <- {o \in Offer : assignment[o] # "none"},
    signed  <- HasExecuted(assignment),
    settled <- file = "closed",
    earned  <- revenue = "realized"

\* Whatever the services do to the rows, the contract is sold as ContractSale
\* says: one buyer at a time, none twice, settled once and earned from that.
ImplementsSale == Sale!Spec

-----------------------------------------------------------------------------
\* What the documentation says and the code does not keep.

\* "A terminated or expired contract cannot be marketed or assigned" until a
\* new one is recorded: an ended contract never comes back.  A late or repeated
\* DocuSign completion brings it back.
EndedContractStaysEnded ==
    [][\A i \in 1..Newest : agreements[i].status = "ended" => agreements'[i].status = "ended"]_vars

=============================================================================
