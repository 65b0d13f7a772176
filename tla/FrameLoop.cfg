CONSTANTS
    DotsPerLine = 34
    Width = 32
    InstrCosts = {2, 4}
    StoreCosts = {4}
    FirstLine = 2
    EndLine = 3
    VBlankLine = 4
    FrameLines = 6
    ImgSize = 40
    FrameLength = 68
    Writes = {"none", "ctrl0", "ctrl1", "apu"}
    StatusReads = {TRUE, FALSE}
SPECIFICATION FairSpec
INVARIANTS
    IInv
    FrameComplete
    NmiSeesVBlank
    SpriteFlagsEndWithPicture
PROPERTIES
    BeamSpec
    FramesKeepComing
