SPECIFICATION Spec
CONSTANTS
    PositionFlag = TRUE
    Stored <- StoredValues
    MaxLocks = 2
INVARIANTS
    StripInv
    StripLetsGo
PROPERTY
    ImplementsPinPeek
