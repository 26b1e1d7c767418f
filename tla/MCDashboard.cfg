SPECIFICATION FairSpec
CONSTANTS
    Tokens = {k1, k2}
    None = None
    MaxClicks = 3
INVARIANTS
    DashboardInv
PROPERTIES
    ComesToRest
CHECK_DEADLOCK FALSE
