\* Remote nodes with related names, missing packages, cut lines, three signals.
CONSTANTS
    NVers = 2
    NLocal = 1
    NRemote = 2
    Attempts = 1
    FailLimit = 2
    StartsWith <- ShortName
    Inbox = FALSE
    SplitLines = TRUE
    Errors = {"transient"}
    MaxSignals = 3
SPECIFICATION Spec
INVARIANTS
    TypeOK
    BooksAgree
    OneSlotPerVersion
    NothingLeftBehind
    LostOnlyToQuarantine
PROPERTIES
    NoJobForDeadNode
    OnlyPushesOutlastTheLimit
    ImplementsClaims
