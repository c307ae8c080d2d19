CONSTANTS
    Local = self
    Api = api
    Int = int
    NoStream = noStream
    peerA = peerA
    peerB = peerB
    streamA = streamA
    streamB = streamB
    topic = topic
    origin = origin
    Peers <- MCPeers
    Streams <- MCStreams
    PeerOf <- MCPeerOf
    Topics <- MCTopics
    Inbound <- MCRelayed
    ChanCap = 4
    MaxRpcs = 1
    MaxApiOps = 2
SPECIFICATION FairSpec
CHECK_DEADLOCK FALSE
PROPERTIES
    DeadPeerForgotten
    CallsReturn
