CONSTANTS
    p1 = p1
    p2 = p2
    v1 = v1
    v2 = v2
    Pumps = {p1, p2}
    Receivers = {v1, v2}
    MaxId = 1
    Poison = {}
    Limit = 2
    MaxFaults = 0
SPECIFICATION Spec
INVARIANT RepeatIsNoOp
