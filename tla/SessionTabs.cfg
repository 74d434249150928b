SPECIFICATION SessionSpec
CONSTANTS
    Tab = {t1, t2}
    Contents = {w1, w2, w3}
    Uid = {u1, u2, u3}
    Malformed = Malformed
    NoUid = NoUid
    NoContents = NoContents
    p = p
    Web <- WebPages
    File = File
    Blank = Blank
    Ntp = Ntp
    Url <- AllUrls
    NoUrl = NoUrl
    Garbage = Garbage
    Navigations <- SomeNavigations
    MaxClosed = 1
SYMMETRY Symmetry
CHECK_DEADLOCK FALSE
INVARIANTS
    RegistryInv
    SessionInv
PROPERTIES
    UidIsDurable
    InitialUrlIsSticky
