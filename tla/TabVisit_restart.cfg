SPECIFICATION Spec
CONSTANTS
    a = a
    b = b
    c = c
    p = p
    q = q
    NoUid = NoUid
    Blank = Blank
    Empty = Empty
    Uid <- TwoTabs
    Url = {p}
    InsertUrl = {p}
    StoreMayFail = FALSE
    ReopenOutcomes = {"exact", "fails"}
    PrefMayChange = FALSE
    MaxLog = 3
    MaxQueue = 2
    MaxSidecar = 1
    MaxClears = 0
    MaxRestarts = 1
    MaxTime = 0
    MaxVisits = 4
CHECK_DEADLOCK FALSE
SYMMETRY TabSymmetry
INVARIANT
    MruSurvivesRestart
