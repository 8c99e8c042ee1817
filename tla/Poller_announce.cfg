CONSTANTS
    p1 = p1
    p2 = p2
    i1 = i1
    i2 = i2
    Pollers = {p1, p2}
    RowIds = {i1}
    Quirky = {}
    Statuses = {"yes", "no"}
    NoStatus = "none"
    MaxCount = 1
SPECIFICATION Spec
INVARIANT AnnouncesCommitted
