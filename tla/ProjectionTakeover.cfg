\* Two instances take one segment from each other; memory store.
CONSTANTS
    a = a
    b = b
    None = None
    Instances <- Two
    Owners <- Two
    Owner <- ByInstance
    Segments = {0}
    Version <- SameVersion
    SegmentOf <- Unsharded
    Transactional = FALSE
    Pauses = TRUE
    BatchSize = 2
    MaxHead = 2
    MaxRequests = 1
    MaxFaults = 2
    MaxEpoch = 9
    Deployments = {"takeover"}
SPECIFICATION FairDeploymentSpec
INVARIANT
    NothingMissing
PROPERTIES
    RebuildIsServed
    CatchesUp
CHECK_DEADLOCK FALSE
