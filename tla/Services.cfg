SPECIFICATION MCSpec
CONSTANTS
    MaxBoots = 4
    MaxPairs = 3
    MaxResets = 2
    BrokerKey = {k1, k2}
    NoKey = noKey
    MaxPins = 2
    Caller = {a, b}
    LastDay = 1
    MaxCalls = 2
    short = short
    long = long
    longCut = longCut
    spaced = spaced
    DeviceId = ourId
    FallbackId = noMacId
    Typed = {short, long, spaced, oldId}
    Name = {short, longCut, spaced, ourId, noMacId, oldId}
    Malformed = {spaced}
    IdLike = {ourId, noMacId, oldId}
    Cut <- MCCut
    NoName = NoName
SYMMETRY MCSymmetry
INVARIANTS
    ClientOutlivesItsUsers
    AnsweredPairMatches
    PinsAreKept
    NameIsAsAnswered
PROPERTIES
    BrokerWasPinned
