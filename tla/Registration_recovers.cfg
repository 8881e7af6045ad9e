\* Two S-CSCFs, three faults, all interleavings of the three threads.
SPECIFICATION Spec
CONSTANTS
    Sessions = {r1, r2}
    Scscfs = {s1, s2}
    Impu = impu
    NoScscf = NoScscf
    MaxFaults = 3
    MaxCommands = 3
INVARIANTS TypeOK RefusedIsQueued
PROPERTIES RefusalRenews ExpiryRenews Recovers
CHECK_DEADLOCK FALSE
