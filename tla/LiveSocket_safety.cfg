SPECIFICATION Spec
CONSTANTS
    Tabs = {t1, t2}
    Here = t1
    Parts = {"studies", "results"}
    MaxTokens = 3
    MaxFetches = 1
    MaxLogouts = 1
    MaxFaults = 1
    MaxAttempts = 2
    MaxDrops = 1
    MaxChanges = 1
    MaxEvents = 2
CONSTRAINT Few
CHECK_DEADLOCK FALSE
INVARIANTS
    TypeOK
    LoginIsKept
    LogoutIsFinal
    LiveAtRest
