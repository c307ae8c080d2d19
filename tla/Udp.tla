-------------------------------- MODULE Udp --------------------------------
(***************************************************************************)
(* Connections over one UDP socket per node (crates/transport/src/udp),    *)
(* their upgrade by the swarm, and the liveliness check of the muxer       *)
(* (ping_check in crates/muxer/src/conn.rs).                               *)
(*                                                                         *)
(* One I/O task per node reads and writes the socket.  It routes a         *)
(* datagram by the address it came from, through a map (peerstore) from    *)
(* address to the connection registered last; a datagram that finds no     *)
(* open connection fails an unwrap() and ends the task.  The swarm dials   *)
(* and accepts one connection at a time.  The network loses datagrams.     *)
(***************************************************************************)
EXTENDS Naturals, Sequences

CONSTANTS
    Nodes,
    None,
    Calls,          \* the calls an application may make: node, operation, peer
    PingChecks,     \* whether the liveliness check may be on, or off
    Lossy,          \* the network may lose datagrams
    QueueCap,       \* capacity of every channel (100 in the code)
    NetCap,         \* bound: datagrams under way from one node to another
    MaxConns,       \* bound: connections one node ever has
    MaxCalls,       \* bound: calls one application makes, without and with the check
    MaxSends        \* bound: payloads the streams of one connection write, likewise

Handles == 1..MaxConns
Ops == {"connect", "disconnect"}

ASSUME UdpAssumption ==
    /\ None \notin Handles /\ None \notin Nodes
    /\ Calls \subseteq [node : Nodes, op : Ops, peer : Nodes]
    /\ \A call \in Calls : call.node # call.peer
    /\ {QueueCap, NetCap, MaxConns} \subseteq Nat
    /\ {MaxCalls, MaxSends} \subseteq [BOOLEAN -> Nat]
    /\ Lossy \in BOOLEAN /\ PingChecks \subseteq BOOLEAN

(* Datagrams: "connect" is a Connect packet, the others are the payloads of *)
(* General packets.  A dial is answered by "ack" (peerstore_updated); the   *)
(* rounds of the upgrade are one exchange, "hello" and "welcome"; an        *)
(* upgraded connection carries "live" (the liveliness check) and "data".   *)
Payloads == {"ack", "hello", "welcome", "live", "data"}
Packets == Payloads \cup {"connect"}

VARIABLES
    ping_check,     \* the nodes run the liveliness check
    io,             \* node -> what the I/O task has in its hands
    net,            \* to -> from -> datagrams under way
    write_req,      \* node -> frames queued for the I/O task
    peerstore,      \* node -> peer -> the connection its datagrams go to
    new_peer,       \* node -> peers whose Connect waits to be accepted
    swarm,          \* node -> what the swarm task is doing, over which connection
    connections,    \* node -> peer -> the connection the swarm knows
    conn,           \* node -> connection -> its task, and its liveliness check
    inbox,          \* node -> connection -> payloads routed to it
    mux,            \* node -> connection -> frames queued for its task
    calls, sends,   \* bounds
    disturbed       \* history: whether a datagram was lost, a check timed out,
                    \* an application disconnected

vars == <<ping_check, io, net, write_req, peerstore, new_peer, swarm, connections, conn, inbox, mux,
          calls, sends, disturbed>>

(* A frame with internal set is a Disconnect for the I/O task itself. *)
Frames == [to : Nodes, packet : Packets, internal : {FALSE}]
            \cup [to : Nodes, packet : {None}, internal : {TRUE}]
MuxFrames == {"live", "data", "disconnected"}
IoLabels == {"idle", "holds", "dead"}
SwarmLabels == {"loop", "connectOut", "register", "ackIn", "helloOut", "welcomeIn",
                "ackOut", "helloIn", "welcomeOut", "dead"}
ConnLabels == {"none", "upgrade", "select", "write", "answer", "close", "ended", "panicked"}
CheckLabels == {"off", "sleep", "send", "wait", "report", "over"}

TypeOK ==
    /\ ping_check \in PingChecks
    /\ io \in [Nodes -> [at : IoLabels, from : Nodes \cup {None}, packet : Packets \cup {None}]]
    /\ net \in [Nodes -> [Nodes -> Seq(Packets)]]
    /\ write_req \in [Nodes -> Seq(Frames)]
    /\ new_peer \in [Nodes -> Seq(Nodes)]
    /\ peerstore \in [Nodes -> [Nodes -> Handles \cup {None}]]
    /\ connections \in [Nodes -> [Nodes -> Handles \cup {None}]]
    /\ swarm \in [Nodes -> [at : SwarmLabels, conn : Handles \cup {None}, peer : Nodes \cup {None}]]
    /\ conn \in [Nodes -> [Handles -> [peer : Nodes \cup {None}, dialed : BOOLEAN, at : ConnLabels,
                                       hand : MuxFrames \cup {None}, check : CheckLabels,
                                       answers : 0..QueueCap]]]
    /\ inbox \in [Nodes -> [Handles -> Seq(Payloads)]]
    /\ mux \in [Nodes -> [Handles -> Seq(MuxFrames)]]
    /\ \A n \in Nodes : Len(write_req[n]) =< QueueCap /\ Len(new_peer[n]) =< QueueCap
    /\ \A n \in Nodes, k \in Handles : /\ Len(inbox[n][k]) =< QueueCap
                                       /\ Len(mux[n][k]) =< QueueCap
                                       /\ sends[n][k] =< MaxSends[ping_check]
    /\ \A n, m \in Nodes : Len(net[n][m]) =< NetCap
    /\ calls \in [Nodes -> 0..MaxCalls[ping_check]]
    /\ sends \in [Nodes -> [Handles -> Nat]]
    /\ disturbed \subseteq {"lost", "timeout", "disconnect"}

Idle == [at |-> "idle", from |-> None, packet |-> None]
Looping == [at |-> "loop", conn |-> None, peer |-> None]
NoConn == [peer |-> None, dialed |-> FALSE, at |-> "none", hand |-> None,
           check |-> "off", answers |-> 0]

Init ==
    /\ ping_check \in PingChecks
    /\ io = [n \in Nodes |-> Idle]
    /\ net = [n \in Nodes |-> [m \in Nodes |-> <<>>]]
    /\ write_req = [n \in Nodes |-> <<>>]
    /\ peerstore = [n \in Nodes |-> [m \in Nodes |-> None]]
    /\ new_peer = [n \in Nodes |-> <<>>]
    /\ swarm = [n \in Nodes |-> Looping]
    /\ connections = [n \in Nodes |-> [m \in Nodes |-> None]]
    /\ conn = [n \in Nodes |-> [k \in Handles |-> NoConn]]
    /\ inbox = [n \in Nodes |-> [k \in Handles |-> <<>>]]
    /\ mux = [n \in Nodes |-> [k \in Handles |-> <<>>]]
    /\ calls = [n \in Nodes |-> 0]
    /\ sends = [n \in Nodes |-> [k \in Handles |-> 0]]
    /\ disturbed = {}

HasRoom(q) == Len(q) < QueueCap

(* A connection's task, or the swarm while it upgrades it, still owns the   *)
(* receiving end of its channels.                                           *)
Open(n, k) == k # None /\ conn[n][k].at \notin {"none", "ended", "panicked"}

-----------------------------------------------------------------------------
(* The I/O task (io_loop, handle_incoming) and the network. *)

Receive(n, m) ==
    /\ io[n].at = "idle"
    /\ net[n][m] # <<>>
    /\ io' = [io EXCEPT ![n] = [at |-> "holds", from |-> m, packet |-> Head(net[n][m])]]
    /\ net' = [net EXCEPT ![n][m] = Tail(@)]
    /\ UNCHANGED <<ping_check, write_req, peerstore, new_peer, swarm, connections, conn, inbox, mux,
                   calls, sends, disturbed>>

(* Connect: tell whoever accepts. *)
Notify(n) ==
    /\ io[n].at = "holds" /\ io[n].packet = "connect"
    /\ HasRoom(new_peer[n])
    /\ new_peer' = [new_peer EXCEPT ![n] = Append(@, io[n].from)]
    /\ io' = [io EXCEPT ![n] = Idle]
    /\ UNCHANGED <<ping_check, net, write_req, peerstore, swarm, connections, conn, inbox, mux,
                   calls, sends, disturbed>>

(* General: route by the address it came from. *)
Target(n) == peerstore[n][io[n].from]

Route(n) == LET k == Target(n) IN
    /\ io[n].at = "holds" /\ io[n].packet # "connect"
    /\ Open(n, k)
    /\ HasRoom(inbox[n][k])
    /\ inbox' = [inbox EXCEPT ![n][k] = Append(@, io[n].packet)]
    /\ io' = [io EXCEPT ![n] = Idle]
    /\ UNCHANGED <<ping_check, net, write_req, peerstore, new_peer, swarm, connections, conn, mux,
                   calls, sends, disturbed>>

RoutePanic(n) ==
    /\ io[n].at = "holds" /\ io[n].packet # "connect"
    /\ ~Open(n, Target(n))
    /\ io' = [io EXCEPT ![n].at = "dead"]
    /\ write_req' = [write_req EXCEPT ![n] = <<>>]
    /\ UNCHANGED <<ping_check, net, peerstore, new_peer, swarm, connections, conn, inbox, mux,
                   calls, sends, disturbed>>

(* A frame of this node: out to the network, where a full socket buffer    *)
(* drops it, or an internal Disconnect.                                    *)
Flush(n) ==
    /\ io[n].at = "idle"
    /\ write_req[n] # <<>>
    /\ write_req' = [write_req EXCEPT ![n] = Tail(@)]
    /\ LET frame == Head(write_req[n]) IN
          IF frame.internal
          THEN /\ peerstore' = [peerstore EXCEPT ![n][frame.to] = None]
               /\ UNCHANGED <<net, disturbed>>
          ELSE /\ IF Len(net[frame.to][n]) < NetCap
                  THEN /\ net' = [net EXCEPT ![frame.to][n] = Append(@, frame.packet)]
                       /\ UNCHANGED disturbed
                  ELSE disturbed' = disturbed \cup {"lost"} /\ UNCHANGED net
               /\ UNCHANGED peerstore
    /\ UNCHANGED <<ping_check, io, new_peer, swarm, connections, conn, inbox, mux, calls, sends>>

Lose(n, m) ==
    /\ Lossy
    /\ net[n][m] # <<>>
    /\ net' = [net EXCEPT ![n][m] = Tail(@)]
    /\ disturbed' = disturbed \cup {"lost"}
    /\ UNCHANGED <<ping_check, io, write_req, peerstore, new_peer, swarm, connections, conn, inbox, mux,
                   calls, sends>>

-----------------------------------------------------------------------------
(* The swarm task: dial, accept and the upgrade, in line. *)

Up(n) == io[n].at # "dead"
Writes(n, frame) ==
    /\ HasRoom(write_req[n])
    /\ write_req' = [write_req EXCEPT ![n] = Append(@, frame)]

(* What the swarm sends or waits for where it stands, and where it goes next. *)
Out == [connectOut |-> "connect", ackOut |-> "ack", helloOut |-> "hello", welcomeOut |-> "welcome"]
In == [ackIn |-> "ack", helloIn |-> "hello", welcomeIn |-> "welcome"]
AfterEager == [connectOut |-> "register", ackIn |-> "helloOut", helloOut |-> "welcomeIn", welcomeIn |-> "loop",
               ackOut |-> "welcomeOut", helloIn |-> "welcomeOut", welcomeOut |-> "loop"]
After == [connectOut |-> "register", ackIn |-> "helloOut", helloOut |-> "welcomeIn", welcomeIn |-> "loop",
          ackOut |-> "helloIn", helloIn |-> "welcomeOut", welcomeOut |-> "loop"]

Free(n, k) == conn[n][k].at = "none" /\ \A j \in 1..(k - 1) : conn[n][j].at # "none"

(* A swarm that panics drops the connection it was upgrading. *)
Dies(n) == LET k == swarm[n].conn IN
    /\ swarm' = [swarm EXCEPT ![n].at = "dead"]
    /\ conn' = IF Open(n, k) THEN [conn EXCEPT ![n][k].at = "panicked"] ELSE conn

(* An upgraded connection gets a task and a liveliness check, and is the    *)
(* one the swarm knows for the peer (update_peerstore).                     *)
Advance(n) == LET k == swarm[n].conn
                  next == After[swarm[n].at] IN
    IF next = "loop"
    THEN /\ swarm' = [swarm EXCEPT ![n] = Looping]
         /\ conn' = [conn EXCEPT ![n][k].at = "select",
                                 ![n][k].check = IF ping_check THEN "sleep" ELSE "off"]
         /\ connections' = [connections EXCEPT ![n][swarm[n].peer] = k]
    ELSE /\ swarm' = [swarm EXCEPT ![n].at = next]
         /\ UNCHANGED <<conn, connections>>

Calling(n, op, m) ==
    /\ [node |-> n, op |-> op, peer |-> m] \in Calls
    /\ swarm[n].at = "loop"
    /\ calls[n] < MaxCalls[ping_check]
    /\ calls' = [calls EXCEPT ![n] = @ + 1]

(* connect, and dial: the Connect packet first, then the map. *)
Dial(n, m, k) ==
    /\ Calling(n, "connect", m)
    /\ connections[n][m] = None
    /\ Free(n, k)
    /\ swarm' = [swarm EXCEPT ![n] = [at |-> "connectOut", conn |-> k, peer |-> m]]
    /\ UNCHANGED <<ping_check, io, net, write_req, peerstore, new_peer, connections, conn, inbox, mux,
                   sends, disturbed>>

Register(n) == LET k == swarm[n].conn
                   m == swarm[n].peer IN
    /\ swarm[n].at = "register"
    /\ peerstore' = [peerstore EXCEPT ![n][m] = k]
    /\ conn' = [conn EXCEPT ![n][k] = [NoConn EXCEPT !.peer = m, !.dialed = TRUE, !.at = "upgrade"]]
    /\ swarm' = [swarm EXCEPT ![n].at = "ackIn"]
    /\ UNCHANGED <<ping_check, io, net, write_req, new_peer, connections, inbox, mux, calls, sends, disturbed>>

(* accept: the map first, then the acknowledgement. *)
AcceptUnrouted(n, k) == LET m == Head(new_peer[n]) IN
    /\ swarm[n].at = "loop"
    /\ new_peer[n] # <<>>
    /\ Free(n, k)
    /\ new_peer' = [new_peer EXCEPT ![n] = Tail(@)]
    /\ conn' = [conn EXCEPT ![n][k] = [NoConn EXCEPT !.peer = m, !.at = "upgrade"]]
    /\ swarm' = [swarm EXCEPT ![n] = [at |-> "ackOut", conn |-> k, peer |-> m]]
    /\ UNCHANGED <<ping_check, io, net, write_req, peerstore, connections, inbox, mux, calls, sends, disturbed>>

AcceptSilent(n, k) == LET m == Head(new_peer[n]) IN
    /\ swarm[n].at = "loop"
    /\ new_peer[n] # <<>>
    /\ Free(n, k)
    /\ new_peer' = [new_peer EXCEPT ![n] = Tail(@)]
    /\ peerstore' = [peerstore EXCEPT ![n][m] = k]
    /\ conn' = [conn EXCEPT ![n][k] = [NoConn EXCEPT !.peer = m, !.at = "upgrade"]]
    /\ swarm' = [swarm EXCEPT ![n] = [at |-> "helloIn", conn |-> k, peer |-> m]]
    /\ UNCHANGED <<ping_check, io, net, write_req, connections, inbox, mux, calls, sends, disturbed>>

Accept(n, k) == LET m == Head(new_peer[n]) IN
    /\ swarm[n].at = "loop"
    /\ new_peer[n] # <<>>
    /\ Free(n, k)
    /\ new_peer' = [new_peer EXCEPT ![n] = Tail(@)]
    /\ peerstore' = [peerstore EXCEPT ![n][m] = k]
    /\ conn' = [conn EXCEPT ![n][k] = [NoConn EXCEPT !.peer = m, !.at = "upgrade"]]
    /\ swarm' = [swarm EXCEPT ![n] = [at |-> "ackOut", conn |-> k, peer |-> m]]
    /\ UNCHANGED <<ping_check, io, net, write_req, connections, inbox, mux, calls, sends, disturbed>>

SwarmSends(n) ==
    /\ swarm[n].at \in DOMAIN Out
    /\ IF Up(n)
       THEN /\ Writes(n, [to |-> swarm[n].peer, packet |-> Out[swarm[n].at], internal |-> FALSE])
            /\ Advance(n)
       ELSE Dies(n) /\ UNCHANGED <<write_req, connections>>
    /\ UNCHANGED <<ping_check, io, net, peerstore, new_peer, inbox, mux, calls, sends, disturbed>>

(* Any other payload fails to decode, or the assert_eq! of dial. *)
SwarmReceives(n) == LET k == swarm[n].conn IN
    /\ swarm[n].at \in DOMAIN In
    /\ inbox[n][k] # <<>>
    /\ inbox' = [inbox EXCEPT ![n][k] = Tail(@)]
    /\ IF Head(inbox[n][k]) = In[swarm[n].at]
       THEN Advance(n)
       ELSE Dies(n) /\ UNCHANGED connections
    /\ UNCHANGED <<ping_check, io, net, write_req, peerstore, new_peer, mux, calls, sends, disturbed>>

(* The map holds the only sender of a connection's inbox: without an entry, *)
(* recv_msg finds its channel closed once it is empty.                      *)
Starved(n, k) == inbox[n][k] = <<>> /\ peerstore[n][conn[n][k].peer] # k

SwarmStarved(n) ==
    /\ swarm[n].at \in DOMAIN In
    /\ Starved(n, swarm[n].conn)
    /\ Dies(n)
    /\ UNCHANGED <<ping_check, io, net, write_req, peerstore, new_peer, connections, inbox, mux,
                   calls, sends, disturbed>>

(* on_disconnect: over UDP the connection's task is told to close. *)
Disconnect(n, m) == LET k == connections[n][m] IN
    /\ Calling(n, "disconnect", m)
    /\ disturbed' = disturbed \cup {"disconnect"}
    /\ IF Open(n, k)
       THEN /\ HasRoom(mux[n][k])
            /\ mux' = [mux EXCEPT ![n][k] = Append(@, "disconnected")]
            /\ connections' = [connections EXCEPT ![n][m] = None]
            /\ UNCHANGED <<swarm, conn>>
       ELSE Dies(n) /\ UNCHANGED <<mux, connections>>
    /\ UNCHANGED <<ping_check, io, net, write_req, peerstore, new_peer, inbox, sends>>

-----------------------------------------------------------------------------
(* The task of a connection (conn_handler of the muxer). *)

Moves(n, k, label) == conn' = [conn EXCEPT ![n][k].at = label]
connOnly == <<ping_check, io, net, peerstore, new_peer, swarm, connections, calls, sends, disturbed>>

ConnTakes(n, k) ==
    /\ conn[n][k].at = "select"
    /\ mux[n][k] # <<>>
    /\ mux' = [mux EXCEPT ![n][k] = Tail(@)]
    /\ conn' = [conn EXCEPT ![n][k].at = IF Head(mux[n][k]) = "disconnected" THEN "close" ELSE "write",
                            ![n][k].hand = Head(mux[n][k])]
    /\ UNCHANGED <<connOnly, write_req, inbox>>

ConnWrites(n, k) ==
    /\ conn[n][k].at = "write"
    /\ IF Up(n)
       THEN /\ Writes(n, [to |-> conn[n][k].peer, packet |-> conn[n][k].hand, internal |-> FALSE])
            /\ Moves(n, k, "select")
       ELSE Moves(n, k, "panicked") /\ UNCHANGED write_req
    /\ UNCHANGED <<connOnly, inbox, mux>>

(* Disconnected: close the raw connection and return, without telling the   *)
(* swarm or the peer.                                                       *)
ConnCloses(n, k) ==
    /\ conn[n][k].at = "close"
    /\ IF Up(n)
       THEN /\ Writes(n, [to |-> conn[n][k].peer, packet |-> None, internal |-> TRUE])
            /\ Moves(n, k, "ended")
       ELSE Moves(n, k, "panicked") /\ UNCHANGED write_req
    /\ UNCHANGED <<connOnly, inbox, mux>>

(* A payload that is no frame fails to parse. *)
ConnReads(n, k) ==
    /\ conn[n][k].at = "select"
    /\ inbox[n][k] # <<>>
    /\ inbox' = [inbox EXCEPT ![n][k] = Tail(@)]
    /\ Moves(n, k, CASE Head(inbox[n][k]) = "live" -> "answer"
                      [] Head(inbox[n][k]) = "data" -> "select"
                      [] OTHER -> "panicked")
    /\ UNCHANGED <<connOnly, write_req, mux>>

(* Liveliness: hand it to the check, which may be gone. *)
ConnAnswers(n, k) ==
    /\ conn[n][k].at = "answer"
    /\ IF conn[n][k].check \in {"off", "over"}
       THEN Moves(n, k, "panicked")
       ELSE /\ conn[n][k].answers < QueueCap
            /\ conn' = [conn EXCEPT ![n][k].at = "select", ![n][k].answers = @ + 1]
    /\ UNCHANGED <<connOnly, write_req, inbox, mux>>

ConnStarved(n, k) ==
    /\ conn[n][k].at = "select"
    /\ Starved(n, k)
    /\ Moves(n, k, "panicked")
    /\ UNCHANGED <<connOnly, write_req, inbox, mux>>

(* The streams of the connection write. *)
StreamWrites(n, k) ==
    /\ conn[n][k].at \in {"select", "write", "answer", "close"}
    /\ sends[n][k] < MaxSends[ping_check]
    /\ HasRoom(mux[n][k])
    /\ mux' = [mux EXCEPT ![n][k] = Append(@, "data")]
    /\ sends' = [sends EXCEPT ![n][k] = @ + 1]
    /\ UNCHANGED <<ping_check, io, net, write_req, peerstore, new_peer, swarm, connections, conn, inbox,
                   calls, disturbed>>

-----------------------------------------------------------------------------
(* The liveliness check (ping_check): the dialer sends and waits for the    *)
(* answer, the listener waits and answers; either gives up after a while.   *)

Checks(n, k, label) == conn' = [conn EXCEPT ![n][k].check = label]
checkOnly == <<ping_check, io, net, write_req, peerstore, new_peer, swarm, connections, inbox, calls, sends>>

Wakes(n, k) ==
    /\ conn[n][k].check = "sleep"
    /\ Checks(n, k, IF conn[n][k].dialed THEN "send" ELSE "wait")
    /\ UNCHANGED <<checkOnly, mux, disturbed>>

CheckSends(n, k) ==
    /\ conn[n][k].check = "send"
    /\ Open(n, k)
    /\ HasRoom(mux[n][k])
    /\ mux' = [mux EXCEPT ![n][k] = Append(@, "live")]
    /\ Checks(n, k, IF conn[n][k].dialed THEN "wait" ELSE "sleep")
    /\ UNCHANGED <<checkOnly, disturbed>>

CheckHears(n, k) ==
    /\ conn[n][k].check = "wait"
    /\ conn[n][k].answers > 0
    /\ conn' = [conn EXCEPT ![n][k].answers = @ - 1,
                            ![n][k].check = IF conn[n][k].dialed THEN "sleep" ELSE "send"]
    /\ UNCHANGED <<checkOnly, mux, disturbed>>

TimesOutDialer(n, k) ==
    /\ conn[n][k].dialed
    /\ conn[n][k].check \in {"send", "wait"}
    /\ Checks(n, k, "report")
    /\ disturbed' = disturbed \cup {"timeout"}
    /\ UNCHANGED <<checkOnly, mux>>

TimesOut(n, k) ==
    /\ conn[n][k].check \in {"send", "wait"}
    /\ Checks(n, k, "report")
    /\ disturbed' = disturbed \cup {"timeout"}
    /\ UNCHANGED <<checkOnly, mux>>

CheckReports(n, k) ==
    /\ conn[n][k].check = "report"
    /\ Open(n, k)
    /\ HasRoom(mux[n][k])
    /\ mux' = [mux EXCEPT ![n][k] = Append(@, "disconnected")]
    /\ Checks(n, k, "over")
    /\ UNCHANGED <<checkOnly, disturbed>>

(* Nobody is left to send to, or to hear from. *)
CheckFails(n, k) ==
    /\ conn[n][k].check \in {"send", "wait", "report"}
    /\ conn[n][k].check = "wait" => conn[n][k].answers = 0
    /\ ~Open(n, k)
    /\ Checks(n, k, "over")
    /\ UNCHANGED <<checkOnly, mux, disturbed>>

-----------------------------------------------------------------------------
IoStep(n) ==
    \/ \E m \in Nodes : Receive(n, m)
    \/ Notify(n) \/ Route(n) \/ RoutePanic(n) \/ Flush(n)

SwarmStep(n) ==
    \/ \E k \in Handles : Accept(n, k)
    \/ Register(n) \/ SwarmSends(n) \/ SwarmReceives(n) \/ SwarmStarved(n)

ConnStep(n, k) ==
    \/ ConnTakes(n, k) \/ ConnWrites(n, k) \/ ConnCloses(n, k)
    \/ ConnReads(n, k) \/ ConnAnswers(n, k) \/ ConnStarved(n, k)

CheckStep(n, k) ==
    \/ Wakes(n, k) \/ CheckSends(n, k) \/ CheckHears(n, k)
    \/ TimesOut(n, k) \/ CheckReports(n, k) \/ CheckFails(n, k)

Next ==
    \/ \E n \in Nodes : IoStep(n) \/ SwarmStep(n)
    \/ \E n, m \in Nodes : Lose(n, m) \/ Disconnect(n, m)
    \/ \E n, m \in Nodes, k \in Handles : Dial(n, m, k)
    \/ \E n \in Nodes, k \in Handles : ConnStep(n, k) \/ CheckStep(n, k) \/ StreamWrites(n, k)

Spec == Init /\ [][Next]_vars

(* Tasks that can run do and timers fire; nobody has to call or write, and  *)
(* the network loses what it likes.                                         *)
Fairness ==
    /\ \A n \in Nodes : WF_vars(IoStep(n)) /\ WF_vars(SwarmStep(n))
    /\ \A n \in Nodes, k \in Handles : WF_vars(ConnStep(n, k)) /\ WF_vars(CheckStep(n, k))

FairSpec == Spec /\ Fairness

-----------------------------------------------------------------------------
(* Properties. *)

Fell(n, m) == \E k \in Handles : conn[n][k].peer = m /\ conn[n][k].at \in {"ended", "panicked"}
Unregistered(n, m) == swarm[n].peer = m /\ swarm[n].at \in {"register", "ackIn"}

(* Loss alone never ends an I/O task: a datagram finds no open connection   *)
(* only after a connection to its sender has ended here, or in the moment   *)
(* between the Connect of a dial and the entry in the map (the unwrap()s of *)
(* handle_incoming).                                                        *)
IoDiesForACause ==
    \A n \in Nodes : ~Up(n) => Fell(n, io[n].from) \/ Unregistered(n, io[n].from)

(* As long as nothing is lost, times out or is disconnected, only that      *)
(* moment can hurt: no swarm and no connection panics unless an I/O task is *)
(* gone (conn_handler of the swarm and of the muxer).                       *)
UndisturbedSurvive ==
    disturbed = {} /\ (\A n \in Nodes : Up(n)) =>
        \A n \in Nodes : /\ swarm[n].at # "dead"
                         /\ \A k \in Handles : conn[n][k].at # "panicked"

(* A connection that one end has given up, or never got, does not stay: the *)
(* other end gives it up too (ping_check).                                  *)
Talks(n, m) == \E k \in Handles : /\ conn[n][k].peer = m
                                 /\ conn[n][k].at \in {"select", "write", "answer", "close"}
HalfOpenEnds == \A n \in Nodes : \A m \in Nodes \ {n} :
    ping_check /\ <>[]~Talks(n, m) => <>[]~Talks(m, n)

(* The I/O task routes to every open connection, unless an earlier         *)
(* connection to the same peer has closed: its internal Disconnect is       *)
(* handled late and names the peer only (close, handle_incoming).           *)
RoutesLostToClosing ==
    \A n \in Nodes, k \in Handles :
        Open(n, k) /\ peerstore[n][conn[n][k].peer] = None =>
            \E j \in Handles : j # k /\ conn[n][j].peer = conn[n][k].peer /\ conn[n][j].at = "ended"

(* The first dial of a peer is answered, or a task it depends on is gone, or *)
(* something was lost: dial and the upgrade wait without a timeout.  The     *)
(* answer to a later dial may be routed to the connection that came before.  *)
Redials(n) == \E k \in Handles : k # swarm[n].conn /\ conn[n][k].peer = swarm[n].peer
DialsSettle ==
    \A n \in Nodes : swarm[n].at \notin {"loop", "dead"} ~>
        \/ swarm[n].at \in {"loop", "dead"}
        \/ Redials(n)
        \/ "lost" \in disturbed
        \/ \E m \in Nodes : ~Up(m)
=============================================================================
