\* Two instances, two segments, leases of two units, calls that wait one.
CONSTANTS
    i1 = i1
    i2 = i2
    Owners = {i1, i2}
    None = None
    Segments = {0, 1}
    Group <- OneGroup
    TTL = 2
    Pauses = {1}
    Epochs = 3
    Oldest <- MinusOne
    Backends = {"postgres", "sqlite"}
    Ends <- TwoEnds
    MaxCalls = 3
    MaxFaults = 1
SPECIFICATION Spec
INVARIANTS
    OneHolder
    AcquiresDoNotDeadlock
PROPERTIES
    StoreContract
CHECK_DEADLOCK FALSE
