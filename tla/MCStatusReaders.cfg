\* Two waits or two pages on a projection that is declared, moves on and is
\* rebuilt; two generations of the goroutine that reads for them.
CONSTANTS
    Segments = {seg0}
    MaxPosition = 1
    MaxChanges = 2
    MaxStarts = 2
    Waits = {wait1, wait2}
    Pages = {page1, page2}
SPECIFICATION FairSpec
INVARIANTS
    NothingStale
PROPERTIES
    ReadersAreServed
CHECK_DEADLOCK FALSE
