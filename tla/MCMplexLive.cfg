CONSTANTS
    A = endA
    B = endB
    NoStream = noStream
    NoProtocol = noProtocol
    first = first
    second = second
    ping = ping
    flood = flood
    Sessions <- MCSessions
    Protocols <- MCProtocols
    ProtoOf <- MCProtoOf
    Registry <- MCRegistryPing
    Opener <- MCOneOpener
    QueueCap = 4
    InboxCap = 3
    MaxStreams = 2
    WireCap = 4
    Breakable = TRUE
    MaxWrites <- MCWritesFirst
SPECIFICATION FairSpec
CHECK_DEADLOCK FALSE
PROPERTIES
    LossNoticed
    MessagesArrive
    OpensSettle
    ChannelsSpec
