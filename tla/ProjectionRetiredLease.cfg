\* A segment claimed between Store.Reset and the retiring of leases.
CONSTANTS
    a = a
    b = b
    None = None
    Instances <- One
    Owners <- One
    Owner <- ByInstance
    Segments = {0, 1}
    Version <- SameVersion
    SegmentOf <- InTurn
    Transactional = FALSE
    Pauses = FALSE
    BatchSize = 2
    MaxHead = 1
    MaxRequests = 1
    MaxFaults = 0
    MaxEpoch = 9
SPECIFICATION Spec
INVARIANT
    NotRefusedByOwnClaim
CHECK_DEADLOCK FALSE
