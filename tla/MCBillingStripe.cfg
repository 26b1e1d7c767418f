SPECIFICATION FairSpec
CONSTANTS
    Users = {u1}
    hourly = hourly
    metered = metered
    Templates <- MCTemplates
    Metered <- MCMetered
    Price <- MCPrice
    Quantities <- MCQuantities
    Orders = {o1}
    Sessions = {s1, s2}
    Amounts <- MCAmounts
    Threads = {t1}
    Tasks = {c1, c2}
    Scheduler = scheduler
    None = None
    Provider = "stripe"
    MaxRequests = 3
    MaxFaults = 1
INVARIANTS
    CreditedOnce
    CapturedIsCredited
PROPERTIES
    KeepsPromise
    PaidEventuallyCredited
    EveryRequestEnds
CHECK_DEADLOCK FALSE
