SPECIFICATION Spec
CONSTANTS
    Fan1 = Fan1
    Fan2 = Fan2
    Fan = {Fan1, Fan2}
    ControlTask = ControlTask
    Task = {ControlTask}
    NoWrite = NoWrite
    NoReading = NoReading
    NoControl = NoControl
    RhThreshold = 90
    RhHysteresis = 5
    Reading <- MCReading
    FtxSpeed <- MCFtxSpeed
    MaxRequests = 1
    CondChoice <- MCCondChoice
    ModeChoice <- MCModeChoice
    Request <- MCRequest
    ModuleMask <- MCModuleMask
INVARIANTS
    TypeOK
    FailsafeStopsFans
    CondensationStopsExchanger
    DutyTracksSpeed
