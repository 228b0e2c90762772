CONSTANTS
    MaxVer = 3
    TrailerMax = 1
    Default = 1
    DefaultMin = 2
    Binds <- MCBinds
    Misnamed = {}
    MaxCalls = 2
    MaxEdits = 2
SPECIFICATION Spec
CHECK_DEADLOCK FALSE
INVARIANTS
    TypeOK
    ClaimsTrue
    PredictionHolds
    RefusesOnlyWithoutBase
PROPERTIES
    WholeIsKept
    ImplementsChoice
