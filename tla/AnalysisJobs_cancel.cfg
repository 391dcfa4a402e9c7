SPECIFICATION Spec
CONSTANTS
    Sessions = {s1}
    Jobs = {j1}
    MaxConcurrent = 2
    MaxReports = 0
    NoJob = NoJob
    NoSession = NoSession
CHECK_DEADLOCK FALSE
PROPERTY
    CancelOfFinishedIsError
