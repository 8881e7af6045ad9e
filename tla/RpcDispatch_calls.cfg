\* Two calls in flight, to one peer; an answer and the empty one.
SPECIFICATION Spec
CONSTANTS
    CallIds = {i1, i2}
    Peers = {p1}
    Bodies = {empty, b1}
    EmptyBody = empty
    NoAnswer = NoAnswer
    ReadableHeaders <- AllHeaders
INVARIANTS TypeOK OwnAnswer SingleOwner OnlyEarlyAnswersDropped
PROPERTIES FirstAnswerStands EveryCallReturns ImplementsRpcCall
CHECK_DEADLOCK FALSE
