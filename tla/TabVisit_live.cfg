SPECIFICATION FairSpec
CONSTANTS
    a = a
    b = b
    c = c
    p = p
    q = q
    NoUid = NoUid
    Blank = Blank
    Empty = Empty
    Uid <- TwoTabs
    Url = {p}
    InsertUrl = {p}
    StoreMayFail = TRUE
    ReopenOutcomes = {"fallback", "fails"}
    PrefMayChange = FALSE
    MaxLog = 3
    MaxQueue = 1
    MaxSidecar = 1
    MaxClears = 0
    MaxRestarts = 1
    MaxTime = 0
    MaxVisits = 1
CHECK_DEADLOCK FALSE
PROPERTIES
    GestureEnds
    JournalLoads
