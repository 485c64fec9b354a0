SPECIFICATION FairSpec
CONSTANTS
    Campaign = {c1, c2}
    Launcher = {l1, l2}
    None = None
INVARIANTS
    OneLaunch
    LaunchingIsNotReplaced
PROPERTY MarketingStops
