CONSTANTS
    Pid = {root, x, y}
    Root = root
    MaxBorn = 3
    MaxFaults = 2
    LastPhase = 2
    Guard = guard
    Elsewhere = elsewhere
    Nil = nil
    Process = {b, q}
    Browser = b
    m = m
    x = x
    y = y
    a1 = a1
    a2 = a2
    n0 = n0
    n1 = n1
    n2 = n2
    nobody = nobody
    App = {a1, a2}
    Name = {n0, n1, n2}
    NameOwner <- Owners
    MaxMade = 3
    Nobody = nobody
    NoDir = nodir
    NoPlace = noplace
    Url = {u1, u2, u3}
    Safe = {u1, u2}
    MaxLoads = 4
    NoUrl = nourl
    HomeKey = {x, y}
    WebProfile = {x, y}
    MaxWindows = 2
    MaxClears = 1
    MaxNested = 2
    MaxIds = 5
    NoKey = nokey
    Instance = {x, y}
    BrowserId = {x, y}
    MaxRoots = 2
    Lost = lost
    MaxRequests = 3
    Parts = 2
    Home = {h, x, y}
    Page = {x, y}
    MaxPages = 2
    Broken = broken
    Unwritten = unwritten
    Request = {x, y}
    Window = {1, 2, 3}
    Unbound = unbound
    Code = {0, 1, 2}
    MaxAsks = 4
    Number = {m, x, y}
    MaxTime = 4
    NoNumber = nonumber
SPECIFICATION DesktopSpec
SYMMETRY Alike
INVARIANTS
    DesktopTypeOK SignalsOnlyOwn Supervised ForcedCounted 
    TrustedSpawn LastPageTrue ClearsSafely PipeOrderly QuitsRightly
CHECK_DEADLOCK FALSE
