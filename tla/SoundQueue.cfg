CONSTANTS
    buf_count = 3
    buf_size = 3
    Counts <- LongerCounts
    MaxBlocks = 5
    OpenSucceeds = TRUE
SPECIFICATION FairSpec
INVARIANTS
    QInv
    NoOverlap
    SampleCountExact
PROPERTIES
    StreamSpec
    WriteReturns
    BlocksPlayed
