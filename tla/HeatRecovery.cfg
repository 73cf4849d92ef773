SPECIFICATION HistSpec
CONSTANTS
    RhThreshold = 90
    RhHysteresis = 5
    Air <- MCAir
    SupplyRh = {50, 92}
    OtherSpeed = {0, 47, 100}
    FrostMinRuntime = 3
    MaxTick = 2
INVARIANTS
    FtxTypeOK
    FrostFlagsAgree
    EveryCapHolds
PROPERTIES
    FrostHoldsMinRuntime
    SlewIsBounded
    SteadyAirSettles
    FrostEnds
