CONSTANTS
    k1 = k1
    k2 = k2
    k3 = k3
    list = list
    view = view
    pinned = pinned
    a = a
    b = b
    w2 = w2
    Keys = {k1, k2, k3}
    Queries = {list, view, pinned}
    QueryOf <- MCQueryOf
    TtlOf <- ThreeTtls
    DefaultTTL = 1
    Capacity = 2
    Readers = {a, b}
    Timeless = {b}
    Writers = {w2}
    Invalidates <- OneCommand
    MaxTime = 3
SPECIFICATION Spec
CHECK_DEADLOCK FALSE
INVARIANTS TypeOK LayersAgree StalenessBounded StaleOnlyByOverlap
