SPECIFICATION AssistantSpec
CONSTANTS
    Elements = {e1, e2}
    Values = {v1, v2}
    FirstValue = v1
    Sessions = {s1, s2}
    None = None
    Answers = {a1, a2, a3}
    MaxHistory = 2
    MaxEdits = 3
    MaxSaves = 2
    MaxRequests = 1
    MaxFaults = 2
    Turns = {t1}
    MaxRounds = 2
    Retries = 1
    MaxCalls = 2
SYMMETRY Symmetry
CONSTRAINT Simple
ACTION_CONSTRAINT FewAfter
CHECK_DEADLOCK FALSE
INVARIANTS
    AssistantTypeOK
    RowsAreTheServers
    NoEditIsForgotten
    HistoryStartsAtTheTable
