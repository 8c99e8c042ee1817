CONSTANTS
    p1 = p1
    p2 = p2
    i1 = i1
    i2 = i2
    Pollers = {p1, p2}
    RowIds = {i1, i2}
    Quirky = {i1}
    Statuses = {"yes", "no"}
    NoStatus = "none"
    MaxCount = 1
SPECIFICATION FairSpec
INVARIANTS TypeOK EmitsFollowTerminal
PROPERTY EveryRowResolved
