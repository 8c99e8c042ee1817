CONSTANTS
    r1 = r1
    r2 = r2
    w1 = w1
    w2 = w2
    p1 = p1
    v1 = v1
    draft = draft
    open = open
    Requests = {r1, r2}
    Rows = {w1, w2}
    States = {draft}
    InitState = draft
    Commands <- MCCommands
    NoRequest = NoRequest
    MaxAttempts = 1
    Pumps = {p1}
    Receivers = {v1}
    MaxId = 2
    Poison = {}
    Limit = 2
    MaxFaults = 0
SPECIFICATION ComposedFairSpec
INVARIANT OnlyCommittedEvents
PROPERTIES ImplementsDelivery CommittedEmitsHandled
