SPECIFICATION Spec
CONSTANTS
    Updates = {u1, u2, u3}
    Readers = {}
    Nothing = Nothing
    MaxRewrites = 0
    MaxRestarts = 0
CHECK_DEADLOCK FALSE
INVARIANT
    IndexIsWhole
