SPECIFICATION FairSpec
CONSTANTS
    Call = {1, 2}
    Provider <- Providers
    NoProvider = "none"
    Fallback <- Chain
    Bucket <- Buckets2
    BucketsOf <- Applicable
    HardCap <- Caps
    Estimate <- Estimates
    Actuals = {1, 3}
    MaxPeriods = 2
    MaxCrashes = 1
INVARIANTS
    SpendIsLedger
    OverrideUsedOnce
    OverCapIsExcused
PROPERTY OverrideComesBack
CHECK_DEADLOCK FALSE
