CONSTANTS
    A = endA
    B = endB
    NoStream = noStream
    NoProtocol = noProtocol
    first = first
    second = second
    ping = ping
    flood = flood
    Sessions <- MCSessions
    Protocols <- MCProtocols
    ProtoOf <- MCProtoOf
    Registry <- MCRegistry
    Opener <- MCOneOpener
    QueueCap = 1
    InboxCap = 1
    MaxStreams = 2
    WireCap = 1
    Breakable = FALSE
    MaxWrites <- MCWrites
SPECIFICATION Spec
CHECK_DEADLOCK FALSE
INVARIANTS
    StreamsIsolated
    NegotiatedTogether
    AnnouncedFirst
    PanicsNeedAnEndedStream
