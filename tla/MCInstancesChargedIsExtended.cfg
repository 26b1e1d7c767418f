SPECIFICATION FundedSpec
CONSTANTS
    Users = {u1}
    hourly = hourly
    metered = metered
    Templates = {hourly}
    Metered <- MCMetered
    Price <- MCPrice
    Quantities <- MCQuantities
    Orders = {o1}
    Sessions = {}
    Amounts <- MCAmounts
    Threads = {t1}
    Tasks = {c1}
    Scheduler = scheduler
    None = None
    Provider = "mock"
    MaxRequests = 3
    MaxFaults = 1
    Offered = {hourly}
    Funds = 4
    Duration <- MCDuration
    MaxOps = 3
    MaxTime = 2
INVARIANTS
    ChargedIsExtended
CHECK_DEADLOCK FALSE
