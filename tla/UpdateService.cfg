SPECIFICATION Spec
CONSTANTS
    Facades = {f1, f2}
    Versions = {v1, v2}
    NoVersion = none
    ErrorTexts <- Texts
    Expected <- Lengths
    Chunks <- Pieces
    MaxReceived = 3
INVARIANTS
    FacadeInv
    OfferInv
PROPERTIES
    SkippedNeverSurfaces
    CheckIsAnswered
