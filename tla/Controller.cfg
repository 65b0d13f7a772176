CONSTANTS
    Keys <- SomeKeys
    MaxQueue = 1
SPECIFICATION FairSpec
INVARIANTS
    LatchInv
    PadFollowsKeys
PROPERTIES
    PortSpec
    KeySeen
