SPECIFICATION Spec
CONSTANTS
    Users = {u1}
    Sessions = {s1, s2, s3}
    Requests = {r1, r2}
    MaxSessions = 2
    NoUser = NoUser
    NoSession = NoSession
SYMMETRY Symmetry
CONSTRAINTS
    FewRequests
    FewMixed
    FewFiles
CHECK_DEADLOCK FALSE
INVARIANTS
    TypeOK
    IndexAgrees
    WithinLimit
    PathsExist
    SettledRemovalIsClean
PROPERTY
    OldestEvicted
