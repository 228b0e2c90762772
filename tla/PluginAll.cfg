CONSTANTS
    omo = omo
    omoSlim = omoSlim
    Plugins = {omo, omoSlim}
    Behind <- Unrelated
    MaxRev = 2
    MaxTime = 1
    MaxCommands = 3
SPECIFICATION Spec
INVARIANT TypeOK
PROPERTIES
    OkMeansUsable
    FailureKeepsPlugin
    RollbackRestores
    OthersUntouched
