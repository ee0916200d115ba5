\* Another instance rebuilds, stops, and leaves segment 0 to this one.
CONSTANTS
    a = a
    b = b
    None = None
    Instances <- Two
    Owners <- Two
    Owner <- ByInstance
    Segments = {0, 1}
    Version <- SameVersion
    SegmentOf <- InTurn
    Transactional = FALSE
    Pauses = FALSE
    BatchSize = 2
    MaxHead = 1
    MaxRequests = 1
    MaxFaults = 1
    MaxEpoch = 9
SPECIFICATION Spec
INVARIANT
    WaitUntilIsTrue
CHECK_DEADLOCK FALSE
