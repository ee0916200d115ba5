\* Two instances, two segments, four items: shards, named segments and none.
CONSTANTS
    i1 = i1
    i2 = i2
    Owners = {i1, i2}
    None = None
    Segments = {0, 1}
    Group <- OneGroup
    TTL = 7
    Pauses = {1}
    Epochs = 2
    Oldest = 0
    Items = {1, 2, 3, 4}
    segmentOf <- SegmentOf
    OrderingKey <- Chains
    Setups <- AllSetups
    Lease = 2
    PollInterval = 1
    Term = 1
    Concurrency = 2
SPECIFICATION FairSpec
INVARIANTS
    SegmentOutlivesBatch
    ChainRunsAlone
PROPERTIES
    DeferralHoldsSegment
    OnceLeavesNothing
    EveryItemIsDone
    PauseFreesSegments
CHECK_DEADLOCK FALSE
