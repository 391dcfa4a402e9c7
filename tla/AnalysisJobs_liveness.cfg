SPECIFICATION FairSpec
CONSTANTS
    Sessions = {s1}
    Jobs = {j1, j2}
    MaxConcurrent = 0
    MaxReports = 0
    NoJob = NoJob
    NoSession = NoSession
CHECK_DEADLOCK FALSE
INVARIANT
    RunsBounded
PROPERTIES
    JobsEnd
    CancelTakesEffect
    QueuedCancelLeavesNothing
