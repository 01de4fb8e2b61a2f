CONSTANTS
    a1 = a1
    a2 = a2
    n0 = n0
    n1 = n1
    n2 = n2
    App = {a1, a2}
    Name = {n0, n1, n2}
    NameOwner <- Owners
    MaxMade = 3
    Nobody = nobody
    NoDir = nodir
SPECIFICATION RuntimeSpec
INVARIANT SweepLeavesLocked
CHECK_DEADLOCK FALSE
