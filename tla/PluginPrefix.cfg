CONSTANTS
    omo = omo
    omoSlim = omoSlim
    Plugins = {omo, omoSlim}
    Behind <- Related
    MaxRev = 2
    MaxTime = 1
    MaxCommands = 3
SPECIFICATION Spec
PROPERTY OthersUntouched
