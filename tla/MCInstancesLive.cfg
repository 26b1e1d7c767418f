SPECIFICATION FairRentalSpec
CONSTANTS
    Users = {u1}
    hourly = hourly
    metered = metered
    Templates = {hourly, metered}
    Metered <- MCMetered
    Price <- MCPrice
    Quantities <- MCQuantities
    Orders = {o1}
    Sessions = {s1}
    Amounts <- MCAmounts
    Threads = {t1}
    Tasks = {c1}
    Scheduler = scheduler
    None = None
    Provider = "stripe"
    MaxRequests = 6
    MaxFaults = 1
    Offered = {hourly, metered}
    Funds = 4
    Duration <- MCDuration
    MaxOps = 2
    MaxTime = 1
INVARIANTS
    OwnerHasWallet
    RenewalExtends
PROPERTIES
    RunsBilling
    JobsEnd
    DueIsHandled
CHECK_DEADLOCK FALSE
