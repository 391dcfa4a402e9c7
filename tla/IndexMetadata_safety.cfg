SPECIFICATION Spec
CONSTANTS
    Updates = {u1, u2, u3, u4}
    Readers = {r1}
    Nothing = Nothing
    MaxRewrites = 1
    MaxRestarts = 1
SYMMETRY Symmetry
CHECK_DEADLOCK FALSE
INVARIANTS
    TypeOK
    OneUpdateAtATime
    ReportedIsSaved
    WaitsForRunning
PROPERTIES
    LoneUpdateRepairs
