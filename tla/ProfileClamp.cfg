SPECIFICATION StoreSpec
CONSTANTS
    Missing = Missing
    ModeChoice <- MCModeChoice
    WebRequest <- WrapRequest
    ModuleMask <- MCModuleMask
    CondChoice = {"observe"}
    MaxResets = 1
    MaxRequests = 3
INVARIANT SpeedsAreClamped
CHECK_DEADLOCK FALSE
