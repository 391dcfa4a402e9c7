SPECIFICATION Spec
CONSTANTS
    Requests = {r1, r2, r3}
    Names = {n1, n2}
    FirstName = n1
    Files = {f1, f2, f3, f4, f5}
    NoFile = NoFile
SYMMETRY Symmetry
CHECK_DEADLOCK FALSE
INVARIANTS
    TypeOK
    NoLossWithoutOverlap
    FilePathExists
    ResultsOfOneSolve
PROPERTY
    SaveIsComplete
