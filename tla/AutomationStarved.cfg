\* One instance that may hold fewer segments than there are.
CONSTANTS
    i1 = i1
    i2 = i2
    Owners = {i1, i2}
    None = None
    Segments = {0, 1}
    Group <- OneGroup
    TTL = 4
    Pauses = {1}
    Epochs = 2
    Oldest = 0
    Items = {1, 2, 3, 4}
    segmentOf <- SegmentOf
    OrderingKey <- Chains
    Setups <- Starving
    Lease = 1
    PollInterval = 1
    Term = 1
    Concurrency = 2
SPECIFICATION FairSpec
PROPERTIES
    EveryItemIsDone
CHECK_DEADLOCK FALSE
