\* Two attempts and output lines that a read boundary may cut.
CONSTANTS
    NVers = 1
    NLocal = 1
    NRemote = 0
    Attempts = 2
    FailLimit = 1
    StartsWith <- OwnNameOnly
    Inbox = FALSE
    SplitLines = TRUE
    Errors = {"transient"}
    MaxSignals = 0
SPECIFICATION Spec
INVARIANT DoneShaFresh
