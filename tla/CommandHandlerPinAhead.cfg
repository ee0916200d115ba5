\* A handler pinned to a revision its stream has not reached yet.
CONSTANTS
    c1 = c1
    c2 = c2
    direct = direct
    Streams = {s1}
    Calls <- Two
    Other = direct
    Writers <- TwoAndDirect
    Modes <- Pinned
    PinAhead = TRUE
    MaxBatch = 1
    MaxRetries = 1
    MaxLog = 2
SPECIFICATION Spec
INVARIANT
    DecidedOnWholeStream
CHECK_DEADLOCK FALSE
