CONSTANTS
    x = x
    c = c
    d = d
    Callers = {c, d}
    y = y
    Buckets = {x, y}
    Limit <- MixedLimit
    Window <- MixedWindow
    MaxLate = 2
    IdleTTL = 1
    GCInterval = 1
    MaxTime = 3
SPECIFICATION Spec
CHECK_DEADLOCK FALSE
PROPERTY OwnWindowRespected
