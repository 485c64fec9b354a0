SPECIFICATION FairSpec
CONSTANTS
    r1 = r1
    r2 = r2
    Run = {r1, r2}
    Manual = {}
    Asks <- OneAsks
    Decided = {r1}
    MaxCalls = 2
INVARIANTS
    TypeOK
    AppliedOnce
    OneOpinion
    RejectedIsUntouched
PROPERTY RunEnds
CHECK_DEADLOCK FALSE
