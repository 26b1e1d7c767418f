SPECIFICATION FairSpec
CONSTANTS
    Scheduler = Scheduler
    Idle = Idle
    Requests = {t1, t2, c1}
    Coroutines = {c1}
    PoolSize = 1
    Threads = 1
    MaxRounds = 1
INVARIANTS
    ServerInv
PROPERTIES
    RequestsServed
    TicksGoOn
