SPECIFICATION Spec
CONSTANTS
    VBlankLine = 3
    FrameLines = 5
    ScrollValues <- SomeScroll
    Ctrl0Values <- SomeCtrl0
    AddrValues <- SomeAddr
    DataValues <- SomeData
    Patterns <- SomePatterns
    Shown <- SomeColumns
    MaxAccesses = 6
INVARIANTS TypeOK BackgroundExact
PROPERTY ScrollExact
