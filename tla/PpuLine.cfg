SPECIFICATION Spec
CONSTANTS
    DotsPerLine = 8
    Width = 5
    VBlankLine = 4
    FrameLines = 5
    FirstLine = 2
    EndLine = 3
    SpriteCount = 3
    PerLine = 2
    SpriteWidth = 2
    SpriteHeight = 2
    StepDots = {3}
    Memories <- FourSprites
    BgPixels = {1, 2, 4}
    Pages <- OnePage
    Values <- SomeValues
    Addresses = {15}
    MaxStores = 1
PROPERTIES SpritesInOrder HitNotMissed HitNotEarly
