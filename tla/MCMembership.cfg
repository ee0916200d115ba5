\* Two instances share one to three segments; one fault.
CONSTANTS
    Instances = {1, 2}
    Segments = {0, 1, 2}
    Nobody = Nobody
    Setups <- AllSetups
SPECIFICATION FairSpec
PROPERTIES
    SegmentsSettle
    NoSegmentIsLeft
CHECK_DEADLOCK FALSE
