SPECIFICATION MCSpec
CONSTANTS
    Slots = 2
    Missing = Missing
    MaxRequests = 2
    MaxResets = 1
    c1 = c1
    c2 = c2
    c3 = c3
    Client = {c1, c2, c3}
    NoClient = noClient
    ClientSlots = 2
    Hash <- MCHash
    Unit = 3
    Rate = 2
    Bucket = 3
    Block = 3
    Amount = {1, 2}
INVARIANTS
    SourceTypeOK
    ReadsFollowTheSource
    SourceIsKept
    RateTypeOK
    OneSlotPerClient
    OnlyDriftBlocks
PROPERTIES
    SourceTakesEffect
    ImplementsTokenBuckets
