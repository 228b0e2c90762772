CONSTANTS
    NVers = 2
    NLocal = 1
    NRemote = 1
    Attempts = 2
    FailLimit = 1
    StartsWith <- OwnNameOnly
    Inbox = FALSE
    SplitLines = FALSE
    Errors = {"transient", "fatal"}
    MaxSignals = 0
SPECIFICATION FairSpec
PROPERTY JobsEnd
