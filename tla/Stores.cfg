SPECIFICATION MCSpec
CONSTANTS
    Missing = Missing
    ModeChoice <- MCModeChoice
    WebRequest <- MCWebRequest
    ModuleMask <- MCModuleMask
    CondChoice = {"observe"}
    MaxResets = 1
    MaxRequests = 3
    Task = {t1, t2}
    NoEntry = NoEntry
    Capacity = 3
    NvsSlots = 3
    QueueLen = 1
    MetaEvery = 1
    ConfigChoice <- MCConfigChoice
    MaxEntries = 4
    MaxBoots = 1
    MaxPuts = 1
SYMMETRY MCSymmetry
INVARIANTS
    OkIsDurable
    RestartIsInvisible
    MethodFitsMode
    ReadersAgree
    PersistedIsListed
PROPERTY ImplementsRecentLog
CHECK_DEADLOCK FALSE
