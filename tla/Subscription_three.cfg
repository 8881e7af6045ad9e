\* Three accounts, the middle one always refuses; clients unsubscribe the first, and
\* waits wake up unnotified.
SPECIFICATION Spec
CONSTANTS
    Accounts = {1, 2, 3}
    Refusers = {2}
    Unsubscribable = {1}
    FromHeader = NoAccount
    NoAccount = NoAccount
    SpuriousWakeups = TRUE
    MaxFaults = 1
INVARIANTS TypeOK MarkedHasSession
PROPERTIES WantedIsMarked
CHECK_DEADLOCK FALSE
