\* One service, two tries to unregister, one spurious wakeup.
SPECIFICATION Spec
CONSTANTS
    Services = {"s"}
    UnregisterTries = 2
    MaxSpurious = 1
INVARIANTS TypeOK  EndsUnregistered
PROPERTIES InterruptEnds
CHECK_DEADLOCK FALSE
