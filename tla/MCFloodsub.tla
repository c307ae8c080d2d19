---------------------------- MODULE MCFloodsub ----------------------------
(***************************************************************************)
(* Instances of Floodsub for TLC: two peers with a stream each, and a      *)
(* message of a third party that both may relay.                           *)
(***************************************************************************)
EXTENDS Floodsub, TLC

CONSTANTS peerA, peerB, streamA, streamB, topic, origin

MCPeers == {peerA, peerB}
MCTopics == {topic}

MCStreams == {streamA, streamB}
MCPeerOf == (streamA :> peerA) @@ (streamB :> peerB)

\* what peers may relay: a message of a third party, and one this node wrote
MCRelayed == {[from |-> origin, seqno |-> 1, topics |-> {topic}]}
MCInbound == MCRelayed \cup {[from |-> Local, seqno |-> 1, topics |-> {topic}]}
=============================================================================
