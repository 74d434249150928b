SPECIFICATION Spec
CONSTANTS
    Requests <- SomeRequests
    UserValues <- SomeUserValues
    OtherValues <- SomeOtherValues
    MaxInbox = 1
INVARIANT
    PageInv
PROPERTY
    ValueIsAsAsked
