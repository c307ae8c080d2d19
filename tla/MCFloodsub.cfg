CONSTANTS
    Local = self
    Api = api
    Int = int
    NoStream = noStream
    peerA = peerA
    peerB = peerB
    streamA = streamA
    streamB = streamB
    topic = topic
    origin = origin
    Peers <- MCPeers
    Streams <- MCStreams
    PeerOf <- MCPeerOf
    Topics <- MCTopics
    Inbound <- MCInbound
    ChanCap = 1
    MaxRpcs = 2
    MaxApiOps = 2
SPECIFICATION Spec
CHECK_DEADLOCK FALSE
INVARIANTS
    TypeOK
    DeliveredOnce
    NoEcho
    SubscriptionsAnnounced
    LivePeersTracked
    EndIsReported
    NoSpontaneousPanic
