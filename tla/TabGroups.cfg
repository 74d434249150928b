SPECIFICATION GroupsSpec
CONSTANTS
    Group <- ThreeGroups
    Folders <- SomeFolders
    Threshold = 3
    MaxTabs = 3
CHECK_DEADLOCK FALSE
INVARIANTS
    WindowInv
    PassInv
PROPERTIES
    BulkOpenIsConsented
    PassOnlyTogglesTowardsTarget
    PassTerminates
