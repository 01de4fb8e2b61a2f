\* Two profiles, three calls, every thread running on.
CONSTANTS
    Profiles = {p1, p2}
    Keys = {k1}
    Popup = popup
    None = none
    Free = free
    MaxScreens = 2
    MaxBorn = 0
    MayCrash = {}
    Jobs = {j1, j2, j3}
    MaxProcesses = 2
SPECIFICATION FairSpec
PROPERTY QuitDecided
CHECK_DEADLOCK FALSE
