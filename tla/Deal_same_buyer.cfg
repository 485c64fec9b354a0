SPECIFICATION SaleSpec
CONSTANTS
    o1 = o1
    o2 = o2
    b1 = b1
    b2 = b2
    Offer = {o1, o2}
    Buyer = {b1, b2}
    BuyerOf <- OneBuyer
    Clause = {"permitted"}
    StartStage = {"negotiating"}
    FundsRule = FALSE
    MaxAgreements = 1
SYMMETRY Symmetry
PROPERTY ImplementsSale
