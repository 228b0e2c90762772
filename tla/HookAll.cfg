CONSTANTS
    omo = omo
    mine = mine
    key = key
    Manifests = {omo, mine}
    Plugins = {omo, mine}
    Keys = {key}
    NoKey = NoKey
    Unreadable = Unreadable
    Torn = Torn
    Misshapen = Misshapen
    Events <- MCEvents
    Id <- MCId
    Key <- MCKey
    Listens <- MCListens
    Min <- MCMin
    Max <- MCMax
    Barred <- MCBarred
    Blocklists <- MCLists
    AutoInstall = {omo, mine}
    AutoUpdate = {omo}
    MaxCore = 4
    MaxCalls = 2
SPECIFICATION Spec
INVARIANTS
    TypeOK
    GateHolds
    ReportsOwnActions
    SkipsOnlyWhatWasDone
    OkHasMarker
    ExitIsStrict
