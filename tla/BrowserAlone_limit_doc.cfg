\* Popups fill the screens while one is being created.
CONSTANTS
    Profiles = {p1}
    Keys = {k1, k2}
    Popup = popup
    None = none
    MaxScreens = 2
    MaxBorn = 2
    MayCrash = {}
    MaxRequests = 1
SPECIFICATION Spec
SYMMETRY KeySymmetry
INVARIANT OpenSettled
CHECK_DEADLOCK FALSE
