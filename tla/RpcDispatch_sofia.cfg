\* The header values the Sofia backend returns.
SPECIFICATION Spec
CONSTANTS
    CallIds = {i1}
    Peers = {p1}
    Bodies = {empty, b1}
    EmptyBody = empty
    NoAnswer = NoAnswer
    ReadableHeaders <- SofiaHeaders
INVARIANTS OnlyEarlyAnswersDropped
CHECK_DEADLOCK FALSE
