\* An answer may come before the entry is inserted, or before the wait.
SPECIFICATION Spec
CONSTANTS
    CallIds = {i1}
    Peers = {p1}
    Bodies = {empty, b1}
    EmptyBody = empty
    NoAnswer = NoAnswer
    ReadableHeaders <- AllHeaders
INVARIANTS NoAnswerMissed
CHECK_DEADLOCK FALSE
