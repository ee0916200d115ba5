\* Two calls of every kind, a direct writer and Close, on two streams.
CONSTANTS
    c1 = c1
    c2 = c2
    direct = direct
    Streams = {s1, s2}
    Calls <- Two
    Other = direct
    Writers <- TwoAndDirect
    Modes <- AllModes
    PinAhead = FALSE
    MaxBatch = 2
    MaxRetries = 1
    MaxLog = 1
SPECIFICATION FairSpec
INVARIANTS
    TypeOK
    FoldIsPrefix
    DecidedOnWholeStream
    RetryFindsNewEvents
    PinnedLandsOnPin
PROPERTIES
    ImplementsAtomic
    CallsReturn
CHECK_DEADLOCK FALSE
