CONSTANTS
    Nobody = nobody
    MaxFaults = 3
    MaxFrames = 2
SPECIFICATION FairSpec
CHECK_DEADLOCK FALSE
INVARIANTS
    SameSecret
    CleanHandover
PROPERTIES
    ExchangeSpec
    Settles
