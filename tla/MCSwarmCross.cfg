CONSTANTS
    None = none
    alice = alice
    bob = bob
    Nodes <- MCNodes
    Calls <- MCEachOther
    QueueCap = 2
    Breakable = FALSE
    Panics = FALSE
    MaxConns = 2
    MaxCalls = 3
SPECIFICATION FairSpec
CHECK_DEADLOCK FALSE
PROPERTIES
    DialsUpgraded
