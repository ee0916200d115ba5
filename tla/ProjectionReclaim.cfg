\* A newer Version takes the segment between Reset and reclaim.
CONSTANTS
    a = a
    b = b
    None = None
    Instances <- Two
    Owners <- Two
    Owner <- ByInstance
    Segments = {0}
    Version <- NewerB
    SegmentOf <- Unsharded
    Transactional = TRUE
    Pauses = TRUE
    BatchSize = 2
    MaxHead = 2
    MaxRequests = 1
    MaxFaults = 2
    MaxEpoch = 4
SPECIFICATION Spec
INVARIANT
    VersionsDoNotMix
CHECK_DEADLOCK FALSE
