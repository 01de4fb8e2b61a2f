\* One account: the relay's token is refused before the phone sends the new one.
CONSTANTS
    Account = {a1}
    None = none
    KeepPending = 2
    MaxDevices = 3
    MaxSubs = 4
    MaxTokens = 2
    MaxKeys = 2
    MaxEvents = 2
SPECIFICATION Spec
INVARIANT RemovedByPerson
CHECK_DEADLOCK FALSE
