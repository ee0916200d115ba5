\* Two Saves on one stream, on two that share a lock or on two that do not,
\* with a filtered reader that takes one event at a time, a load, or a walk
\* backwards whose scan budget is smaller than the log.
CONSTANTS
    w1 = w1
    w2 = w2
    s1 = s1
    s2 = s2
    s3 = s3
    r1 = r1
    l1 = l1
    b1 = b1
    System = System
    Savers <- TwoSavers
    Readers = {r1}
    Loaders = {l1}
    Browsers = {b1}
    Streams <- ThreeStreams
    hashtext <- Colliding
    Setups <- AllSetups
    Limit = 1
    Wanted = {w1}
    ScanLimit = 2
    MaxEventPage = 1
    MaxEventScan = 2
SPECIFICATION FairSpec
INVARIANTS
    NothingSkipped
    SavedOnExpectation
    LoadIsWhole
    BackwardsComplete
PROPERTIES
    SavesEnd
    EventuallyRead
CHECK_DEADLOCK FALSE
