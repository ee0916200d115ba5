\* Three events of two streams, two replay requests, one fault.
CONSTANTS
    i1 = i1
    i2 = i2
    Instances = {i1, i2}
    Owners = {i1, i2}
    Owner <- OwnName
    None = None
    Segments = {0, 1}
    Events = {1, 2, 3}
    StreamOf <- TwoStreams
    Numbers = {1, 2}
    Setups <- AllSetups
SPECIFICATION FairSpec
INVARIANTS
    AppliedOrLettered
    StreamInOrder
    SucceededIsDeleted
PROPERTIES
    ReplayIsTrue
    ReplayAnswered
CHECK_DEADLOCK FALSE
