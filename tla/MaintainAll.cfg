CONSTANTS
    Rows <- Template
    Plans <- Reruns
    NVers = 2
    Related <- Longer
    Attempts = 2
    Tooled <- GhNodes
SPECIFICATION FairSpec
INVARIANTS
    TypeOK
    DoneIsReleased
    StartsBounded
PROPERTIES
    TruncatedOnlyIfStale
    EndsUnlessHung
CHECK_DEADLOCK FALSE
