SPECIFICATION Spec
CONSTANTS
    MaxLevel = 2
    MaxPeriod = 15
    MinSweep = 2
    BitsPerByte = 2
    NoIrq = 1000
    frame_period = 6
    ShortBy = 2
    LongMinus = 6
    FrameEnds = {20, 21}
    Late = 4
    Gaps = {0, 5}
    Lengths = {2}
    Lows = {1}
    Sweeps <- SomeSweeps
    Periods = {3, 11}
    PeriodLow = 8
    SampleLengths = {1, 3}
    DmcPeriods = {2, 3}
    Channels = {"square1", "dmc"}
    MaxCalls = 3
    MaxFrames = 2
INVARIANTS TypeOK LengthOnlyEnabled CallsDoNotMatter
PROPERTIES DmcIrqOnTime FramesDoNotMatter
