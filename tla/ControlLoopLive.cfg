SPECIFICATION Spec
CONSTANTS
    Fan1 = Fan1
    Fan2 = Fan2
    Fan = {Fan1, Fan2}
    ControlTask = ControlTask
    Task = {ControlTask}
    NoWrite = NoWrite
    NoReading = NoReading
    NoControl = NoControl
    RhThreshold = 90
    RhHysteresis = 5
    Reading <- LiveReading
    FtxSpeed <- MCFtxSpeed
    MaxRequests = 1
    CondChoice = {}
    ModeChoice <- LiveModeChoice
    Request <- LiveRequest
    ModuleMask = {}
PROPERTIES
    FailsafeReleased
    ControlOffStopsFans
    FtxFansAgree
