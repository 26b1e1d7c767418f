SPECIFICATION Spec
CONSTANTS
    Users = {u1, u2}
    Providers = {twitter}
    Flows = {f1, f2, f3}
    Accounts = {a1, a2}
    Threads = {t1, t2}
    Tasks = {c1, c2}
    None = None
    Given = Given
SYMMETRY Symmetry
INVARIANTS
    PlatformsInv
    RowsGranted
    TasksGranted
    OneInserter
PROPERTIES
    TokenNeverReturns
