SPECIFICATION FairSpec
CONSTANTS
    Interval = 3
    MinSpacing = 2
    MaxItems = 3
    MaxStartDelay = 4
    MaxRuns = 2
    MaxTime = 12
CHECK_DEADLOCK FALSE
INVARIANTS
    SchedulerInv
    StartsAreSpaced
PROPERTY
    NoStartAfterFinish
    RunFinishes
