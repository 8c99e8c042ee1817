CONSTANTS
    x = x
    c = c
    d = d
    Callers = {c, d}
    y = y
    Buckets = {x, y}
    Limit <- SameLimit
    Window <- SameWindow
    MaxLate = 2
    IdleTTL = 1
    GCInterval = 1
    MaxTime = 4
SPECIFICATION Spec
CHECK_DEADLOCK FALSE
INVARIANTS TypeOK AdmissionBound RetryAfterSuffices
SYMMETRY Calls
