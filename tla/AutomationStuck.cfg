\* One instance that may hold every segment, and one Release that fails.
CONSTANTS
    i1 = i1
    i2 = i2
    Owners = {i1, i2}
    None = None
    Segments = {0, 1}
    Group <- OneGroup
    TTL = 4
    Pauses = {1}
    Epochs = 2
    Oldest = 0
    Items = {1, 2, 3, 4}
    segmentOf <- SegmentOf
    OrderingKey <- Chains
    Setups <- Roomy
    Lease = 1
    PollInterval = 1
    Term = 1
    Concurrency = 2
SPECIFICATION FairSpec
PROPERTIES
    EveryItemIsDone
CHECK_DEADLOCK FALSE
