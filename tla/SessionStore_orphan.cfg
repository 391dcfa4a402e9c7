SPECIFICATION Spec
CONSTANTS
    Users = {u1}
    Sessions = {s1, s2}
    Requests = {r1}
    MaxSessions = 1
    NoUser = NoUser
    NoSession = NoSession
CHECK_DEADLOCK FALSE
PROPERTY
    EvictionCleansUp
