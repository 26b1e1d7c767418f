SPECIFICATION Spec
CONSTANTS
    Users = {u1, u2}
    hourly = hourly
    metered = metered
    Templates <- MCTemplates
    Metered <- MCMetered
    Price <- MCPrice
    Quantities <- MCQuantities
    Orders = {o1}
    Sessions = {}
    Amounts <- MCAmounts
    Threads = {t1, t2}
    Tasks = {c1}
    Scheduler = scheduler
    None = None
    Provider = "mock"
    MaxRequests = 4
    MaxFaults = 1
SYMMETRY Symmetry
INVARIANTS
    IInv
    SoleWriterExact
    NegativeOnlyByMetering
    PaidOrderHasPayment
PROPERTIES
    KeepsPromise
CHECK_DEADLOCK FALSE
