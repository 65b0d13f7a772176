CONSTANTS
    DotsPerLine = 341
    Width = 256
    FirstLine = 8
    EndLine = 232
    VBlankLine = 240
    FrameLines = 262
    ImgSize = 61440
    FrameLength = 29780
    InstrCosts = {4}
    StoreCosts = {4}
    Writes = {"apu"}
    StatusReads = {FALSE}
SPECIFICATION Spec
INVARIANTS
    ApuClockOrdered
