\* Two accounts turned on at will, then two operations, faults or changes.
CONSTANTS
    Account = {a1, a2}
    None = none
    KeepPending = 2
    MaxDevices = 3
    MaxSubs = 6
    MaxTokens = 2
    MaxKeys = 2
    MaxEvents = 2
SPECIFICATION FairSpec
INVARIANTS TypeOK RemovalsRemembered AsksBeforeRenewing
PROPERTIES ReconcileCleans Converges
CHECK_DEADLOCK FALSE
