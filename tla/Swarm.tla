------------------------------- MODULE Swarm -------------------------------
(***************************************************************************)
(* The swarms of several nodes over TCP (crates/swarm/src).  Each node has *)
(* one swarm task: a loop that accepts connections and takes commands, and *)
(* runs the whole upgrade of a connection in line, so that it does nothing *)
(* else until the other end has played its part.  Every upgraded           *)
(* connection gets a task of its own (Mplex), known here only by how it    *)
(* ends: the raw connection fails and it tells the swarm, or it panics.    *)
(* The swarm keeps the peers and, for each, the way to its connection.     *)
(***************************************************************************)
EXTENDS Naturals, Sequences

CONSTANTS
    Nodes,
    None,
    Calls,          \* the calls an application may make: node, operation, peer
    QueueCap,       \* capacity of the swarm's channel (100 in the code)
    Breakable,      \* TCP connections may fail by themselves
    Panics,         \* connection tasks may panic
    MaxConns,       \* bound: TCP connections ever dialled, numbered as they are
    MaxCalls        \* bound: calls one application makes

Conns == 1..MaxConns
Ops == {"connect", "stream", "disconnect"}
Commands == [op : Ops, peer : Nodes]

ASSUME SwarmAssumption ==
    /\ None \notin Conns /\ None \notin Nodes
    /\ Calls \subseteq [node : Nodes, op : Ops, peer : Nodes]
    /\ \A call \in Calls : call.node # call.peer
    /\ {QueueCap, MaxConns, MaxCalls} \subseteq Nat
    /\ {Breakable, Panics} \subseteq BOOLEAN

VARIABLES
    \* a node's swarm
    swarm,          \* node -> what its swarm task is doing, over which connection
    swarm_mpsc,     \* node -> commands queued for it
    peer_store,     \* node -> the peers it knows
    connections,    \* node -> peer -> the connection streams are opened on
    \* a connection
    dialer, listener,   \* its ends
    link,           \* "unused", "up" or "lost"
    stage,          \* node -> connection -> how far this end has got
    \* bound and history
    calls,          \* node -> calls made
    disturbed       \* a connection failed, or an application disconnected

swarmVars == <<swarm, peer_store, connections>>
connVars == <<dialer, listener, link, stage>>
vars == <<swarm, swarm_mpsc, peer_store, connections, dialer, listener, link, stage,
          calls, disturbed>>

Stages == {"none", "pending", "upgrade", "running", "reporting", "ended", "panicked"}
Labels == {"loop", "upgrade", "upgradeThenStream", "stream", "dead"}

TypeOK ==
    /\ swarm \in [Nodes -> [at : Labels, conn : Conns \cup {None}, peer : Nodes \cup {None}]]
    /\ swarm_mpsc \in [Nodes -> Seq(Commands)]
    /\ \A n \in Nodes : Len(swarm_mpsc[n]) =< QueueCap
    /\ peer_store \in [Nodes -> SUBSET Nodes]
    /\ connections \in [Nodes -> [Nodes -> Conns \cup {None}]]
    /\ {dialer, listener} \subseteq [Conns -> Nodes \cup {None}]
    /\ link \in [Conns -> {"unused", "up", "lost"}]
    /\ stage \in [Nodes -> [Conns -> Stages]]
    /\ calls \in [Nodes -> 0..MaxCalls]
    /\ disturbed \in BOOLEAN

Looping == [at |-> "loop", conn |-> None, peer |-> None]

Init ==
    /\ swarm = [n \in Nodes |-> Looping]
    /\ swarm_mpsc = [n \in Nodes |-> <<>>]
    /\ peer_store = [n \in Nodes |-> {}]
    /\ connections = [n \in Nodes |-> [m \in Nodes |-> None]]
    /\ dialer = [c \in Conns |-> None]
    /\ listener = [c \in Conns |-> None]
    /\ link = [c \in Conns |-> "unused"]
    /\ stage = [n \in Nodes |-> [c \in Conns |-> "none"]]
    /\ calls = [n \in Nodes |-> 0]
    /\ disturbed = FALSE

Alive(n) == swarm[n].at # "dead"
Peer(n, c) == IF dialer[c] = n THEN listener[c] ELSE dialer[c]
is_peer_connected(n, m) == connections[n][m] # None

Busy(n, label, c, m) == swarm' = [swarm EXCEPT ![n] = [at |-> label, conn |-> c, peer |-> m]]
Loops(n) == swarm' = [swarm EXCEPT ![n] = Looping]

(* The swarm task panics: its listener goes, and with it the connections in *)
(* the backlog and the one being upgraded; running ones have their own tasks. *)
Dies(n) ==
    /\ swarm' = [swarm EXCEPT ![n] = [Looping EXCEPT !.at = "dead"]]
    /\ swarm_mpsc' = [swarm_mpsc EXCEPT ![n] = <<>>]
    /\ link' = [c \in Conns |-> IF stage[n][c] \in {"pending", "upgrade"} THEN "lost" ELSE link[c]]
    /\ UNCHANGED <<peer_store, connections, dialer, listener, stage, calls, disturbed>>

-----------------------------------------------------------------------------
(* Commands. *)

HasRoom(n) == Len(swarm_mpsc[n]) < QueueCap

Queue(n, op, m) ==
    /\ HasRoom(n)
    /\ swarm_mpsc' = [swarm_mpsc EXCEPT ![n] = Append(@, [op |-> op, peer |-> m])]

Call(n, op, m) ==
    /\ [node |-> n, op |-> op, peer |-> m] \in Calls
    /\ calls[n] < MaxCalls
    /\ Alive(n)
    /\ Queue(n, op, m)
    /\ calls' = [calls EXCEPT ![n] = @ + 1]
    /\ disturbed' = (disturbed \/ op = "disconnect")
    /\ UNCHANGED <<swarmVars, connVars>>

Waiting(n, ops) ==
    /\ swarm[n].at = "loop"
    /\ swarm_mpsc[n] # <<>>
    /\ Head(swarm_mpsc[n]).op \in ops
Pops(n) == swarm_mpsc' = [swarm_mpsc EXCEPT ![n] = Tail(@)]
NextPeer(n) == Head(swarm_mpsc[n]).peer

(* connect, to a peer that has a connection already: nothing to do. *)
SkipConnect(n) ==
    /\ Waiting(n, {"connect"})
    /\ is_peer_connected(n, NextPeer(n))
    /\ Pops(n)
    /\ UNCHANGED <<swarmVars, connVars, calls, disturbed>>

(* connect, or new_stream to a peer without a connection: dial and upgrade. *)
(* The peer's kernel takes the connection; its swarm has yet to accept it.  *)
NeedsDialAlways(n) == TRUE
NeedsDial(n) == ~is_peer_connected(n, NextPeer(n))

Dial(n, c) == LET m == NextPeer(n) IN
    /\ Waiting(n, {"connect", "stream"})
    /\ NeedsDial(n)
    /\ Alive(m)
    /\ link[c] = "unused" /\ \A d \in 1..(c - 1) : link[d] # "unused"
    /\ Pops(n)
    /\ dialer' = [dialer EXCEPT ![c] = n]
    /\ listener' = [listener EXCEPT ![c] = m]
    /\ link' = [link EXCEPT ![c] = "up"]
    /\ stage' = [stage EXCEPT ![n][c] = "upgrade", ![m][c] = "pending"]
    /\ Busy(n, IF Head(swarm_mpsc[n]).op = "stream" THEN "upgradeThenStream" ELSE "upgrade", c, m)
    /\ UNCHANGED <<peer_store, connections, calls, disturbed>>

DialRefused(n) ==
    /\ Waiting(n, {"connect", "stream"})
    /\ NeedsDial(n)
    /\ ~Alive(NextPeer(n))
    /\ Dies(n)

(* new_stream, once there is a connection: hand the request to its task. *)
StartStream(n) == LET m == NextPeer(n) IN
    /\ Waiting(n, {"stream"})
    /\ is_peer_connected(n, m)
    /\ Pops(n)
    /\ Busy(n, "stream", None, m)
    /\ UNCHANGED <<peer_store, connections, connVars, calls, disturbed>>

Gone(n, c) == c = None \/ stage[n][c] \in {"ended", "panicked"}

SendStream(n) ==
    /\ swarm[n].at = "stream"
    /\ ~Gone(n, connections[n][swarm[n].peer])
    /\ Loops(n)
    /\ UNCHANGED <<swarm_mpsc, peer_store, connections, connVars, calls, disturbed>>

StreamFails(n) ==
    /\ swarm[n].at = "stream"
    /\ Gone(n, connections[n][swarm[n].peer])
    /\ Dies(n)

(* on_disconnect: forget the peer.  Over TCP its connection is left alone,  *)
(* and a peer that is not known ends the swarm task.                        *)
OnDisconnect(n) == LET m == NextPeer(n) IN
    /\ Waiting(n, {"disconnect"})
    /\ m \in peer_store[n]
    /\ Pops(n)
    /\ peer_store' = [peer_store EXCEPT ![n] = @ \ {m}]
    /\ connections' = [connections EXCEPT ![n][m] = None]
    /\ UNCHANGED <<swarm, connVars, calls, disturbed>>

DisconnectUnknown(n) ==
    /\ Waiting(n, {"disconnect"})
    /\ NextPeer(n) \notin peer_store[n]
    /\ Dies(n)

-----------------------------------------------------------------------------
(* Upgrades. *)

Accept(n, c) ==
    /\ swarm[n].at = "loop"
    /\ listener[c] = n
    /\ stage[n][c] = "pending"
    /\ stage' = [stage EXCEPT ![n][c] = "upgrade"]
    /\ Busy(n, "upgrade", c, dialer[c])
    /\ UNCHANGED <<swarm_mpsc, peer_store, connections, dialer, listener, link, calls, disturbed>>

(* update_peerstore: the latest connection of a peer replaces an earlier one. *)
update_peerstore_only(n, m, c) ==
    /\ peer_store' = [peer_store EXCEPT ![n] = @ \cup {m}]
    /\ UNCHANGED connections

update_peerstore(n, m, c) ==
    /\ peer_store' = [peer_store EXCEPT ![n] = @ \cup {m}]
    /\ connections' = [connections EXCEPT ![n][m] = c]

(* Each round of the upgrade is a request of the dialer and a response of   *)
(* the listener, who is therefore through first.                            *)
ThroughLast(n, c) == stage[Peer(n, c)][c] \notin {"none", "pending", "upgrade"}

Through(n, c) ==
    \/ n = listener[c] /\ stage[dialer[c]][c] = "upgrade"
    \/ n = dialer[c] /\ stage[listener[c]][c] \notin {"none", "pending", "upgrade"}

FinishUpgrade(n) == LET c == swarm[n].conn
                        m == swarm[n].peer IN
    /\ swarm[n].at \in {"upgrade", "upgradeThenStream"}
    /\ Through(n, c)
    /\ stage' = [stage EXCEPT ![n][c] = "running"]
    /\ update_peerstore(n, m, c)
    /\ IF swarm[n].at = "upgrade" THEN Loops(n) ELSE Busy(n, "stream", None, m)
    /\ UNCHANGED <<swarm_mpsc, dialer, listener, link, calls, disturbed>>

UpgradeFails(n) ==
    /\ swarm[n].at \in {"upgrade", "upgradeThenStream"}
    /\ link[swarm[n].conn] = "lost"
    /\ Dies(n)

-----------------------------------------------------------------------------
(* Connection tasks and the network. *)

LinkLost(c) ==
    /\ Breakable
    /\ link[c] = "up"
    /\ link' = [link EXCEPT ![c] = "lost"]
    /\ disturbed' = TRUE
    /\ UNCHANGED <<swarmVars, swarm_mpsc, dialer, listener, stage, calls>>

ConnEndsDialer(n, c) ==
    /\ n = dialer[c]
    /\ stage[n][c] = "running"
    /\ link[c] = "lost"
    /\ stage' = [stage EXCEPT ![n][c] = "reporting"]
    /\ UNCHANGED <<swarmVars, swarm_mpsc, dialer, listener, link, calls, disturbed>>

ConnEnds(n, c) ==
    /\ stage[n][c] = "running"
    /\ link[c] = "lost"
    /\ stage' = [stage EXCEPT ![n][c] = "reporting"]
    /\ UNCHANGED <<swarmVars, swarm_mpsc, dialer, listener, link, calls, disturbed>>

ConnReportsNothing(n, c) ==
    /\ stage[n][c] = "reporting"
    /\ stage' = [stage EXCEPT ![n][c] = "ended"]
    /\ UNCHANGED <<swarmVars, swarm_mpsc, dialer, listener, link, calls, disturbed>>

ConnReports(n, c) ==
    /\ stage[n][c] = "reporting"
    /\ IF Alive(n) THEN Queue(n, "disconnect", Peer(n, c)) ELSE UNCHANGED swarm_mpsc
    /\ stage' = [stage EXCEPT ![n][c] = "ended"]
    /\ UNCHANGED <<swarmVars, dialer, listener, link, calls, disturbed>>

ConnPanics(n, c) ==
    /\ Panics
    /\ stage[n][c] = "running"
    /\ stage' = [stage EXCEPT ![n][c] = "panicked"]
    /\ link' = [link EXCEPT ![c] = "lost"]
    /\ disturbed' = TRUE
    /\ UNCHANGED <<swarmVars, swarm_mpsc, dialer, listener, calls>>

-----------------------------------------------------------------------------
SwarmStep(n) ==
    \/ SkipConnect(n) \/ (\E c \in Conns : Dial(n, c) \/ Accept(n, c)) \/ DialRefused(n)
    \/ StartStream(n) \/ SendStream(n) \/ StreamFails(n)
    \/ OnDisconnect(n) \/ DisconnectUnknown(n) \/ FinishUpgrade(n) \/ UpgradeFails(n)

ConnStep(n, c) == ConnEnds(n, c) \/ ConnReports(n, c)

Next ==
    \/ \E call \in Calls : Call(call.node, call.op, call.peer)
    \/ \E n \in Nodes : SwarmStep(n)
    \/ \E n \in Nodes, c \in Conns : ConnStep(n, c) \/ ConnPanics(n, c)
    \/ \E c \in Conns : LinkLost(c)

Spec == Init /\ [][Next]_vars

(* Tasks that can run do; the select! of the swarm takes its branches in    *)
(* random order, so a waiting connection is accepted in the end.            *)
Fairness ==
    /\ \A n \in Nodes : WF_vars(SwarmStep(n))
    /\ \A n \in Nodes, c \in Conns : SF_vars(Accept(n, c)) /\ WF_vars(ConnStep(n, c))

FairSpec == Spec /\ Fairness

-----------------------------------------------------------------------------
(* Properties. *)

Live(c) == link[c] = "up" /\ stage[dialer[c]][c] = "running" /\ stage[listener[c]][c] = "running"
Ends(c) == {dialer[c], listener[c]}

(* Two nodes never hold two live connections to each other: whether there  *)
(* is one is checked before a dial, and nothing is accepted in between     *)
(* (connect and the select! of initiate).                                  *)
NoDuplicateConnections ==
    \A c, d \in Conns : Live(c) /\ Live(d) /\ Ends(c) = Ends(d) => c = d

(* The map may name a connection whose task has ended only while the report *)
(* of some connection of that peer is still queued (on_disconnect).         *)
StaleEntriesReported ==
    \A n, m \in Nodes : LET c == connections[n][m] IN
        Alive(n) /\ is_peer_connected(n, m) /\ stage[n][c] = "ended" =>
            \E k \in DOMAIN swarm_mpsc[n] : swarm_mpsc[n][k] = [op |-> "disconnect", peer |-> m]

(* As long as no connection fails and no application disconnects, no swarm *)
(* task ends, whatever streams and connections are asked for in what order. *)
NoDeathUndisturbed == ~disturbed => \A n \in Nodes : Alive(n)

(* A connection that was dialled is upgraded at both ends, or fails:        *)
(* README.md:22, "Accept/dial loop, runs the upgrade pipeline on every      *)
(* connection".                                                             *)
DialsUpgraded ==
    \A c \in Conns : link[c] = "up" ~>
        \/ link[c] = "lost"
        \/ Live(c)

(* An entry for a connection that failed goes away, unless its task panicked *)
(* and so never reported, or the swarm task itself is gone.                  *)
LossForgotten ==
    \A n, m \in Nodes, c \in Conns : connections[n][m] = c /\ link[c] = "lost" ~>
        connections[n][m] # c \/ stage[n][c] = "panicked" \/ ~Alive(n)
=============================================================================
