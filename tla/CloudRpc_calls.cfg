\* Two calls of one agent, one thread in the pool, one restart.
SPECIFICATION Spec
CONSTANTS
    i1 = i1
    i2 = i2
    CallIds = {i1, i2}
    Peers = {p1}
    EmptyBody = empty
    NoAnswer = NoAnswer
    Args <- ArgsDef
    CodeSum <- CodeSumDef
    Services <- ServicesDef
    Objects <- ObjectsDef
    TopObjects <- TopObjectsDef
    Children <- ChildrenDef
    Requests <- RequestsDef
    Results <- ResultsDef
    Values <- ValuesDef
    PoolSize = 1
    MaxDeliveries = 2
    MaxRestarts = 1
INVARIANTS TypeOK PublishedIsCallable ReplyIsResult
PROPERTIES EveryRequestAnswered
CHECK_DEADLOCK FALSE
