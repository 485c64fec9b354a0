SPECIFICATION Spec
CONSTANTS
    o1 = o1
    o2 = o2
    b1 = b1
    b2 = b2
    Offer = {}
    Buyer = {b1, b2}
    BuyerOf <- NoOffers
    Clause = {"unknown", "consent_missing", "consent_on_file"}
    StartStage = {"new"}
    FundsRule = TRUE
    MaxAgreements = 2
INVARIANTS
    NeverSellWhatWeDoNotHold
    VerifiedMeansChecked
