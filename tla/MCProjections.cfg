\* A restart under the same Owner, a rebuild beside commits, and a rollout.
CONSTANTS
    a = a
    b = b
    None = None
    Instances <- Two
    Owners <- Two
    Owner <- ByInstance
    Segments = {0}
    Version <- SameVersion
    SegmentOf <- Unsharded
    Transactional = FALSE
    Pauses = TRUE
    BatchSize = 2
    MaxHead = 2
    MaxRequests = 1
    MaxFaults = 2
    MaxEpoch = 9
    Deployments = {"restart", "rebuild", "rollout"}
SPECIFICATION DeploymentSpec
INVARIANTS
    AppliedExactlyOnce
    NoWipedPosition
    RolloutKeepsVersions
CHECK_DEADLOCK FALSE
