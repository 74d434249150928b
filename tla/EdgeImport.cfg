SPECIFICATION FairSpec
CONSTANTS
    o1 = o1
    o2 = o2
    Origin = {o1, o2}
    Member = {"leveldb", "blob"}
    NoOrigin = NoOrigin
    Requests <- SomeRequests
    MaxEntries = 2
    MaxCrashes = 1
CHECK_DEADLOCK FALSE
INVARIANTS
    ReportInv
    WholeOrigins
PROPERTIES
    PageStoresSurvive
    ImportEnds
