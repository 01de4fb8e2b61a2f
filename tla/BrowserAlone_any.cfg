\* Any parent of one browser: requests numbered up to MaxRequests, two screens, popups, and a person who
\* answers the windows asked to close.
CONSTANTS
    Profiles = {p1}
    Keys = {k1, k2}
    Popup = popup
    None = none
    MaxScreens = 2
    MaxBorn = 2
    MayCrash = {}
    MaxRequests = 2
SPECIFICATION FairSpec
INVARIANTS QuitsEmpty AnsweredOnce OnlyOldestAsked
PROPERTY ShutdownDecided
CHECK_DEADLOCK FALSE
