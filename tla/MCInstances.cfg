SPECIFICATION FundedSpec
CONSTANTS
    Users = {u1}
    hourly = hourly
    metered = metered
    Templates = {hourly, metered}
    Metered <- MCMetered
    Price <- MCPrice
    Quantities <- MCQuantities
    Orders = {o1, o2}
    Sessions = {}
    Amounts <- MCAmounts
    Threads = {t1}
    Tasks = {c1, c2}
    Scheduler = scheduler
    None = None
    Provider = "mock"
    MaxRequests = 3
    MaxFaults = 1
    Offered = {hourly, metered}
    Funds = 4
    Duration <- MCDuration
    MaxOps = 3
    MaxTime = 2
SYMMETRY Symmetry
INVARIANTS
    RentalInv
    StreakCounts
    RunsBilled
PROPERTIES
    SoleOperatorLegal
    SoleOperatorServed
CHECK_DEADLOCK FALSE
