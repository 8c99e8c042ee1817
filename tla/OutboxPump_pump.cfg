CONSTANTS
    p1 = p1
    p2 = p2
    v1 = v1
    v2 = v2
    Pumps = {p1, p2}
    Receivers = {v1}
    MaxId = 3
    Poison = {2}
    Limit = 2
    MaxFaults = 1
SPECIFICATION FairSpec
INVARIANTS TypeOK NoEventLost DuplicatesBounded HandledBounded
PROPERTY EveryEventHandled
