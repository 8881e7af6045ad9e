\* Two readers, so that notifications can go to the wrong one; two values.
SPECIFICATION Spec
CONSTANTS
    Consumers = {c1, c2}
    Values = {v1, v2}
    MaxEnqueues = 4
    MaxStops = 2
INVARIANTS TypeOK NothingLost NothingStranded EnoughWakeups
PROPERTIES StopEndsEveryConsumer ImplementsMailbox
CHECK_DEADLOCK FALSE
