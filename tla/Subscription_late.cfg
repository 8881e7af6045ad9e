\* Two accounts: a late answer is taken for the other's.
SPECIFICATION Spec
CONSTANTS
    Accounts = {1, 2}
    Refusers = {2}
    Unsubscribable = {}
    FromHeader = NoAccount
    NoAccount = NoAccount
    SpuriousWakeups = FALSE
    MaxFaults = 1
INVARIANTS MarkedIsAccepted
CHECK_DEADLOCK FALSE
