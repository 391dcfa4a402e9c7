SPECIFICATION Spec
CONSTANTS
    Versions = {v1, v2}
    Calls = {c1, c2, c3}
    None = None
    Parts = 2
    MaxStarts = 2
    MaxChanges = 3
    MaxFaults = 1
    MaxRestarts = 1
SYMMETRY Symmetry
CONSTRAINTS
    FewerWithTwo
    FewerWithBoth
CHECK_DEADLOCK FALSE
INVARIANTS
    TypeOK
    SettledIsIndexed
    SettledIsGone
    IndexedIsWhole
    PendingHasWorker
