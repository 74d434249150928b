SPECIFICATION Spec
CONSTANTS
    a = a
    b = b
    c = c
    p = p
    q = q
    NoUid = NoUid
    Blank = Blank
    Empty = Empty
    Uid <- ThreeTabs
    Url = {p}
    InsertUrl = {p}
    StoreMayFail = FALSE
    ReopenOutcomes = {"exact", "fallback", "fails"}
    PrefMayChange = TRUE
    MaxLog = 4
    MaxQueue = 1
    MaxSidecar = 1
    MaxClears = 0
    MaxRestarts = 0
    MaxTime = 0
    MaxVisits = 1
CHECK_DEADLOCK FALSE
SYMMETRY TabSymmetry
INVARIANTS
    CoordinatorInv
PROPERTIES
    VisitsAreSettled
    ReopenedVisitIsJournaled
