SPECIFICATION FairSpec
CONSTANTS
    account = account
    guild = guild
    text = text
    page = page
    brief = brief
    Targets <- MCTargets
    Kind <- MCKind
    Runs = {r1, r2}
INVARIANTS
    ConnectorsInv
    DoneWasSeen
    ActsOnce
PROPERTIES
    KeepsResults
    ExecutionsEnd
