SPECIFICATION Spec
CONSTANTS
    Sessions = {s1}
    Jobs = {j1, j2}
    MaxConcurrent = 2
    MaxReports = 1
    NoJob = NoJob
    NoSession = NoSession
SYMMETRY Symmetry
CHECK_DEADLOCK FALSE
INVARIANTS
    TypeOK
    OneActiveJobPerSession
    InputIsOwn
    CompletedHasReport
    OneTerminalEvent
PROPERTIES
    FinishedIsFinal
    ImplementsLifecycle
