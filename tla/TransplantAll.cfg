CONSTANTS
    Binaries <- MCBinaries
    Ver = 2
    Libs <- MCLibs
    Prebuilts <- MCPrebuilts
    Prefixed <- MCPrefixed
    Flags = 7
    Configs <- MCConfigs
    MaxCalls = 2
    MaxEdits = 1
SPECIFICATION Spec
CHECK_DEADLOCK FALSE
INVARIANTS
    TypeOK
    AllIsComplete
    NothingFromTorn
    AssetsOfOneSet
