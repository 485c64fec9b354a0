----------------------------- MODULE BuyerOffers -----------------------------
(***************************************************************************)
(* OffersService: offers arrive from people, from buyers on the deal page   *)
(* and from an agent reading email; people counter, reject and accept.      *)
(***************************************************************************)
EXTENDS DealRecord

OpenOffer == {"received", "countered"}

AllowedOfferMoves(from) ==
    IF from \in OpenOffer
    THEN OfferStatus \ {"none"}
    ELSE IF from = "accepted" THEN {"withdrawn", "rejected"} ELSE {}

\* openOffer: a move the machine allows, and not the status it already has,
\* except to counter again.
MayMove(o, to) ==
    /\ offers[o].status # "none"
    /\ to \in AllowedOfferMoves(offers[o].status)
    /\ offers[o].status = to => to = "countered"

SetOffer(o, to) == offers' = [offers EXCEPT ![o].status = to]

\* create: taken on an executed contract while the deal is alive.  The buyer's
\* older open offers are superseded, and ready tells an offer that can be
\* accepted from an indication or an amount an agent read and nobody confirmed.
Receive(o, ready) ==
    /\ offers[o].status = "none"
    /\ NewestExecuted
    /\ stage \notin {"closed", "lost"}
    /\ offers' = [p \in Offer |->
            IF p = o THEN [status |-> "received", ready |-> ready]
            ELSE IF BuyerOf[p] = BuyerOf[o] /\ offers[p].status \in OpenOffer
                 THEN [offers[p] EXCEPT !.status = "superseded"]
                 ELSE offers[p]]
    /\ UNCHANGED <<stage, agreements, cleared, campaign, links, assignment, file, revenue>>

\* confirm: a person checked the amount the agent read, whatever the offer's
\* status.
Confirm(o) ==
    /\ offers[o].status # "none"
    /\ ~offers[o].ready
    /\ offers' = [offers EXCEPT ![o].ready = TRUE]
    /\ UNCHANGED <<stage, agreements, cleared, campaign, links, assignment, file, revenue>>

\* counter: the gate first, then the price.
Counter(o) ==
    /\ MayMove(o, "countered")
    /\ Eligible
    /\ SetOffer(o, "countered")
    /\ UNCHANGED <<stage, agreements, cleared, campaign, links, assignment, file, revenue>>

\* reject and withdraw: any move the machine allows.
Decline(o, to) ==
    /\ MayMove(o, to)
    /\ SetOffer(o, to)
    /\ UNCHANGED <<stage, agreements, cleared, campaign, links, assignment, file, revenue>>

\* expireStale: an open offer whose time is up.
ExpireOffer(o) ==
    /\ offers[o].status \in OpenOffer
    /\ SetOffer(o, "expired")
    /\ UNCHANGED <<stage, agreements, cleared, campaign, links, assignment, file, revenue>>

\* The serializable check and insert of createFromOffer, with the executed
\* assignments left out of the check.
NoneLiveButExecuted(o) ==
    /\ assignment[o] = "none"
    /\ \A p \in Offer : assignment[p] \notin {"draft", "sent"}

\* The serializable check and insert of createFromOffer: no draft, sent or
\* executed assignment on the deal, and none ever made from this offer.
NoneLive(o) ==
    /\ assignment[o] = "none"
    /\ \A p \in Offer : ~Live(p)

\* Any amount at all.
AcceptableUnread(o) == TRUE

\* A written offer whose amount a person or the buyer stated or confirmed.
Acceptable(o) == offers[o].ready

\* accept: every check, then createFromOffer, then the offer and the campaign.
\* When the closing file cannot take the chosen structure (changed while the
\* file is cancelled), createFromOffer throws after the insert and nothing
\* else is written.
Accept(o, changesStructure) ==
    /\ MayMove(o, "accepted")
    /\ Acceptable(o)
    /\ Eligible
    /\ NoneLive(o)
    /\ assignment' = [assignment EXCEPT ![o] = "draft"]
    /\ file' = EnsuredFile
    /\ IF changesStructure /\ file = "cancelled"
       THEN UNCHANGED <<offers, campaign, revenue>>
       ELSE /\ SetOffer(o, "accepted")
            /\ campaign' = IF campaign = "active" THEN "held" ELSE campaign
            /\ revenue' = "projected"
    /\ UNCHANGED <<stage, agreements, cleared, links>>

BuyerOffersNext ==
    \E o \in Offer :
       \/ \E ready \in BOOLEAN : Receive(o, ready)
       \/ Confirm(o)
       \/ Counter(o)
       \/ \E to \in {"rejected", "withdrawn"} : Decline(o, to)
       \/ ExpireOffer(o)
       \/ \E changesStructure \in BOOLEAN : Accept(o, changesStructure)

=============================================================================
