SPECIFICATION Spec
CONSTANTS
    a = a
    b = b
    c = c
    p = p
    q = q
    NoUid = NoUid
    Blank = Blank
    Empty = Empty
    Uid <- TwoTabs
    Url = {p}
    InsertUrl = {p}
    StoreMayFail = FALSE
    ReopenOutcomes = {"exact", "fallback"}
    PrefMayChange = FALSE
    MaxLog = 3
    MaxQueue = 3
    MaxSidecar = 1
    MaxClears = 1
    MaxRestarts = 0
    MaxTime = 1
    MaxVisits = 1
CHECK_DEADLOCK FALSE
SYMMETRY TabSymmetry
INVARIANTS
    CacheAgreesWithSidecar
    ClearIsABarrier
