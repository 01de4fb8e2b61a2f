CONSTANTS
    Profiles = {p1, p2}
    Keys = {k1, k2}
    Popup = popup
    None = none
    Free = free
    MaxScreens = 3
    MaxBorn = 1
    MayCrash = {p1}
    Jobs = {j1, j2, j3}
    MaxProcesses = 2
SPECIFICATION Spec
SYMMETRY KeyedSymmetry
INVARIANTS
    TypeOK FinishedMeansEnded QuitIsOrderly QuietWhenCertain DoubtHasReason
    OneWindowPerScreen ClearsAlone
PROPERTY LeasesProfiles
CHECK_DEADLOCK FALSE
