SPECIFICATION Spec
CONSTANTS
    o1 = o1
    o2 = o2
    b1 = b1
    b2 = b2
    Offer = {o1}
    Buyer = {b1, b2}
    BuyerOf <- OneOffer
    Clause = {"permitted"}
    StartStage = {"negotiating"}
    FundsRule = TRUE
    MaxAgreements = 1
PROPERTY EndedContractStaysEnded
