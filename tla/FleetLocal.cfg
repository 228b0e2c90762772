CONSTANTS
    NVers = 2
    NLocal = 2
    NRemote = 0
    Attempts = 2
    FailLimit = 1
    StartsWith <- OwnNameOnly
    Inbox = FALSE
    SplitLines = TRUE
    Errors = {"transient", "untar", "fatal"}
    MaxSignals = 1
SPECIFICATION FairSpec
INVARIANTS
    GiveUpJustified
    AllSettled
PROPERTIES
    RunEnds
