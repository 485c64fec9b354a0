SPECIFICATION Spec
CONSTANTS
    o1 = o1
    o2 = o2
    b1 = b1
    b2 = b2
    Offer = {o1, o2}
    Buyer = {b1, b2}
    BuyerOf <- TwoBuyers
    Clause = {"permitted"}
    StartStage = {"negotiating"}
    FundsRule = TRUE
    MaxAgreements = 1
SYMMETRY Symmetry
INVARIANTS
    TypeOK
    OneLiveAssignment
    LinksEndWithCampaign
    ClosedOnAnAssignment
    AcceptedOfferHasAssignment
    AssignedPriceIsConfirmed
    RealizedMeansClosed
PROPERTIES
    RealizedIsFinal
    MarketingIsGated
