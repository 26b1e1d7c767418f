SPECIFICATION Spec
CONSTANTS
    Users = {u1}
    hourly = hourly
    metered = metered
    Templates <- MCTemplates
    Metered <- MCMetered
    Price <- MCPrice
    Quantities <- MCQuantities
    Orders = {o1}
    Sessions = {}
    Amounts <- MCAmounts
    Threads = {t1, t2}
    Tasks = {c1}
    Scheduler = scheduler
    None = None
    Provider = "mock"
    MaxRequests = 5
    MaxFaults = 0
SYMMETRY Symmetry
INVARIANTS
    LedgerExact
CHECK_DEADLOCK FALSE
