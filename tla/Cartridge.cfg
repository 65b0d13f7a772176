SPECIFICATION Spec
CONSTANTS
    hlen = 2
    PrgPage = 3
    ChrPage = 2
    PageCount = 16
    Files <- SomeFiles
    Garbage = {0, 1, 2, 9}
    MaxWrites = 1
INVARIANTS ProgramInPlace PictureInPlace RefusedLeavesEmpty
