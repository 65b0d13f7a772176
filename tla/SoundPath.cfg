SPECIFICATION PathSpec
CONSTANTS
    min_period = 1
    MaxLevel = 1
    MaxPeriod = 3
    MinSweep = 1
    BitsPerByte = 3
    NoIrq = 1000
    TriangleRange = 3
    MinTimer = 3
    NoiseTop = 4
    ModeBit = 2
    MaxDac = 5
    DacStep = 2
    dmc_table <- SomeTable
    DmcByte = 3
    SlowestDmc = 3
    Dacs = {3}
    Voices = {"square", "triangle", "noise", "dmc"}
    Settings <- SomeSettings
    FrameLength = 10
    Gaps = {0, 3}
    Late = 2
    SampleRate = 3000
    ClockRate = 4800
    Msec = 2
    Unit = 8
    MaxQuality = 6
    HalfWidth = 2
    Impulse <- SomeImpulse
    bass_shift = 3
    delta_bits = 1
    Peak = 4
    MaxRead = 7
    MaxChanges = 2
    MaxFrames = 2
INVARIANTS PositionsInBuffer NoDrift
PROPERTIES SoundSpec
