SPECIFICATION MCSpec
CONSTANTS
    c1 = c1
    c2 = c2
    Call <- MCCall
    MaxText = 3
    MaxPolicy = 2
    MaxTemplate = 2
SYMMETRY Symmetry
INVARIANTS
    CounselReadTheText
    FreshTestIsCurrent
    LoweredMeansPaused
CHECK_DEADLOCK FALSE
