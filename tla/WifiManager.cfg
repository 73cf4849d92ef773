SPECIFICATION Spec
CONSTANTS
    s1 = s1
    s2 = s2
    p1 = p1
    Ssid = {s1, s2}
    Password = {p1}
    Absent = Absent
    Empty = Empty
    Choice <- MCChoice
    MaxStores = 1
    MaxForgets = 1
    MaxResets = 1
    WIFI_MAX_RETRIES = 1
    MaxEvents = 3
INVARIANTS
    OnlyLapsesLoseCredentials
    NeverCutOff
PROPERTY StatusCatchesUp
CHECK_DEADLOCK FALSE
