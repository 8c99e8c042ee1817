CONSTANTS
    r1 = r1
    r2 = r2
    w1 = w1
    w2 = w2
    draft = draft
    open = open
    closed = closed
    Requests = {r1, r2}
    Rows = {w1, w2}
    States <- MCStates
    InitState = draft
    Commands <- MCCommands
    NoRequest = NoRequest
    MaxAttempts = 3
SPECIFICATION FairSpec
INVARIANTS TypeOK AtMostOneCommit OutboxAtomic OutboxIdsOrdered ReactionsFollowCommit NoLostUpdate
PROPERTIES LifecycleFollowsEdges EveryRequestEnds
