CONSTANTS
    buf_count = 3
    buf_size = 2
    Counts <- WriteCounts
    MaxBlocks = 6
    OpenSucceeds = FALSE
SPECIFICATION FairSpec
PROPERTIES
    WriteReturns
CHECK_DEADLOCK FALSE
