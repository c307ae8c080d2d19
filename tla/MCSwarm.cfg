CONSTANTS
    None = none
    alice = alice
    bob = bob
    Nodes <- MCNodes
    Calls <- MCOneWay
    QueueCap = 2
    Breakable = TRUE
    Panics = TRUE
    MaxConns = 3
    MaxCalls = 3
SPECIFICATION FairSpec
CHECK_DEADLOCK FALSE
INVARIANTS
    NoDuplicateConnections
    StaleEntriesReported
    NoDeathUndisturbed
PROPERTIES
    DialsUpgraded
    LossForgotten
