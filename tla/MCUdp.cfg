CONSTANTS
    None = none
    alice = alice
    bob = bob
    Nodes <- MCNodes
    Calls <- MCCalls
    PingChecks <- MCPingChecks
    Lossy = TRUE
    QueueCap = 3
    NetCap = 2
    MaxConns = 2
    MaxCalls <- MCMaxCalls
    MaxSends <- MCMaxSends
SPECIFICATION FairSpec
CHECK_DEADLOCK FALSE
INVARIANTS
    IoDiesForACause
    UndisturbedSurvive
    RoutesLostToClosing
PROPERTIES
    HalfOpenEnds
    DialsSettle
