---------------------------- MODULE SwarmProofs ----------------------------
(***************************************************************************)
(* Safety theorems of Swarm, for any number of nodes, connections, calls   *)
(* and any capacity of the channels.                                       *)
(***************************************************************************)
EXTENDS Swarm, TLAPS

-----------------------------------------------------------------------------
(* Typing. *)

(* A command is sent: the channel keeps its type and its bound.             *)
LEMMA QueueOK ==
    ASSUME TypeOK, NEW n \in Nodes, NEW op \in Ops, NEW m \in Nodes, Queue(n, op, m)
    PROVE  /\ swarm_mpsc' \in [Nodes -> Seq(Commands)]
           /\ \A k \in Nodes : Len(swarm_mpsc'[k]) =< QueueCap
  <1>1. [op |-> op, peer |-> m] \in Commands
    BY DEF Commands
  <1>2. swarm_mpsc[n] \in Seq(Commands) /\ QueueCap \in Nat
    BY SwarmAssumption DEF TypeOK
  <1>3. /\ Append(swarm_mpsc[n], [op |-> op, peer |-> m]) \in Seq(Commands)
        /\ Len(Append(swarm_mpsc[n], [op |-> op, peer |-> m])) =< QueueCap
    BY <1>1, <1>2 DEF Queue, HasRoom
  <1> QED
    BY <1>3 DEF TypeOK, Queue

(* A command is taken, and is one of the commands there are.                *)
LEMMA PopsOK ==
    ASSUME TypeOK, NEW n \in Nodes, swarm_mpsc[n] # <<>>, Pops(n)
    PROVE  /\ swarm_mpsc' \in [Nodes -> Seq(Commands)]
           /\ \A k \in Nodes : Len(swarm_mpsc'[k]) =< QueueCap
           /\ Head(swarm_mpsc[n]).op \in Ops
           /\ NextPeer(n) \in Nodes
  <1>1. swarm_mpsc[n] \in Seq(Commands) /\ QueueCap \in Nat /\ Len(swarm_mpsc[n]) =< QueueCap
    BY SwarmAssumption DEF TypeOK
  <1>2. /\ Tail(swarm_mpsc[n]) \in Seq(Commands)
        /\ Len(Tail(swarm_mpsc[n])) =< QueueCap
        /\ Head(swarm_mpsc[n]) \in Commands
    BY <1>1
  <1> QED
    BY <1>2 DEF TypeOK, Pops, NextPeer, Commands

(* A swarm that dies leaves everything typed.                               *)
LEMMA DiesOK ==
    ASSUME TypeOK, NEW n \in Nodes, Dies(n)
    PROVE  TypeOK'
  <1>1. <<>> \in Seq(Commands) /\ Len(<<>>) = 0 /\ QueueCap \in Nat
    BY SwarmAssumption
  <1>2. swarm_mpsc' \in [Nodes -> Seq(Commands)]
    BY <1>1 DEF TypeOK, Dies
  <1>3. \A k \in Nodes : Len(swarm_mpsc'[k]) =< QueueCap
    BY <1>1 DEF TypeOK, Dies
  <1>4. swarm' \in [Nodes -> [at : Labels, conn : Conns \cup {None}, peer : Nodes \cup {None}]]
    BY DEF TypeOK, Dies, Looping, Labels
  <1>5. link' \in [Conns -> {"unused", "up", "lost"}]
    BY DEF TypeOK, Dies
  <1> QED
    BY <1>2, <1>3, <1>4, <1>5 DEF TypeOK, Dies

-----------------------------------------------------------------------------
(* What the channel of a swarm holds after a command is sent or taken. *)

Holds(q, cmd) == \E k \in DOMAIN q : q[k] = cmd
InQueue(n, cmd) == Holds(swarm_mpsc[n], cmd)

(* What a queue holds when a command is added.                              *)
LEMMA InAppend ==
    ASSUME NEW q \in Seq(Commands), NEW new \in Commands, NEW cmd
    PROVE  Holds(Append(q, new), cmd) <=> Holds(q, cmd) \/ cmd = new
  <1> DEFINE r == Append(q, new)
  <1>1. /\ Len(q) \in Nat /\ DOMAIN q = 1..Len(q) /\ DOMAIN r = 1..(Len(q) + 1)
        /\ r[Len(q) + 1] = new /\ \A i \in 1..Len(q) : r[i] = q[i]
    OBVIOUS
  <1>2. ASSUME NEW k \in DOMAIN r PROVE r[k] = cmd => (\E i \in DOMAIN q : q[i] = cmd) \/ cmd = new
    BY <1>1
  <1>3. ASSUME NEW k \in DOMAIN q, q[k] = cmd PROVE \E i \in DOMAIN r : r[i] = cmd
    BY <1>1, <1>3
  <1>4. ASSUME cmd = new PROVE \E i \in DOMAIN r : r[i] = cmd
    BY <1>1, <1>4
  <1> QED
    BY <1>2, <1>3, <1>4 DEF Holds

(* What a queue holds when its first command is taken.                      *)
LEMMA InTail ==
    ASSUME NEW q \in Seq(Commands), q # <<>>, NEW cmd
    PROVE  /\ Holds(Tail(q), cmd) => Holds(q, cmd)
           /\ Holds(q, cmd) => Holds(Tail(q), cmd) \/ cmd = Head(q)
           /\ Holds(q, Head(q))
  <1> DEFINE r == Tail(q)
  <1>1. /\ Len(q) \in Nat \ {0} /\ DOMAIN q = 1..Len(q) /\ DOMAIN r = 1..(Len(q) - 1)
        /\ Head(q) = q[1] /\ \A i \in 1..(Len(q) - 1) : r[i] = q[i + 1]
    OBVIOUS
  <1>2. ASSUME NEW k \in DOMAIN r, r[k] = cmd PROVE \E i \in DOMAIN q : q[i] = cmd
    BY <1>1, <1>2
  <1>3. ASSUME NEW k \in DOMAIN q, q[k] = cmd
        PROVE  (\E i \in DOMAIN r : r[i] = cmd) \/ cmd = Head(q)
    <2>1. CASE k = 1
      BY <1>1, <1>3, <2>1
    <2>2. CASE k # 1
      <3>1. k - 1 \in DOMAIN r /\ r[k - 1] = cmd
        BY <1>1, <1>3, <2>2
      <3> QED
        BY <3>1
    <2> QED
      BY <2>1, <2>2
  <1>4. \E k \in DOMAIN q : q[k] = Head(q)
    BY <1>1
  <1> QED
    BY <1>2, <1>3, <1>4 DEF Holds

(* The same of the channel of a swarm, as commands are sent...              *)
LEMMA Queued ==
    ASSUME TypeOK, NEW n \in Nodes, NEW op \in Ops, NEW m \in Nodes, Queue(n, op, m)
    PROVE  /\ [op |-> op, peer |-> m] \in Commands
           /\ \A k \in Nodes, cmd \in Commands :
                InQueue(k, cmd)' <=> InQueue(k, cmd) \/ (k = n /\ cmd = [op |-> op, peer |-> m])
  <1>1. [op |-> op, peer |-> m] \in Commands /\ swarm_mpsc[n] \in Seq(Commands)
    BY DEF Commands, TypeOK
  <1>2. \A k \in Nodes : swarm_mpsc'[k] = IF k = n THEN Append(swarm_mpsc[n], [op |-> op, peer |-> m])
                                          ELSE swarm_mpsc[k]
    BY DEF TypeOK, Queue
  <1>3. ASSUME NEW k \in Nodes, NEW cmd \in Commands
        PROVE  InQueue(k, cmd)' <=> InQueue(k, cmd) \/ (k = n /\ cmd = [op |-> op, peer |-> m])
    <2>1. CASE k = n
      BY <1>1, <1>2, <2>1, InAppend DEF InQueue
    <2>2. CASE k # n
      BY <1>2, <2>2 DEF InQueue
    <2> QED
      BY <2>1, <2>2
  <1> QED
    BY <1>1, <1>3

(* ... and as they are taken.                                               *)
LEMMA Popped ==
    ASSUME TypeOK, NEW n \in Nodes, swarm_mpsc[n] # <<>>, Pops(n)
    PROVE  /\ Head(swarm_mpsc[n]) \in Commands
           /\ InQueue(n, Head(swarm_mpsc[n]))
           /\ \A k \in Nodes, cmd \in Commands :
                /\ InQueue(k, cmd)' => InQueue(k, cmd)
                /\ InQueue(k, cmd) => InQueue(k, cmd)' \/ (k = n /\ cmd = Head(swarm_mpsc[n]))
  <1>1. swarm_mpsc[n] \in Seq(Commands) /\ Head(swarm_mpsc[n]) \in Commands
    BY DEF TypeOK
  <1>2. \A k \in Nodes : swarm_mpsc'[k] = IF k = n THEN Tail(swarm_mpsc[n]) ELSE swarm_mpsc[k]
    BY DEF TypeOK, Pops
  <1>3. ASSUME NEW k \in Nodes, NEW cmd \in Commands
        PROVE  /\ InQueue(k, cmd)' => InQueue(k, cmd)
               /\ InQueue(k, cmd) => InQueue(k, cmd)' \/ (k = n /\ cmd = Head(swarm_mpsc[n]))
    <2>1. CASE k = n
      BY <1>1, <1>2, <2>1, InTail DEF InQueue
    <2>2. CASE k # n
      BY <1>2, <2>2 DEF InQueue
    <2> QED
      BY <2>1, <2>2
  <1>4. InQueue(n, Head(swarm_mpsc[n]))
    BY <1>1, InTail DEF InQueue
  <1> QED
    BY <1>1, <1>3, <1>4

(* The channel of a swarm that died holds nothing.                          *)
LEMMA DeadQueue ==
    ASSUME TypeOK, NEW n \in Nodes, Dies(n)
    PROVE  \A k \in Nodes, cmd \in Commands :
                /\ InQueue(k, cmd)' => InQueue(k, cmd)
                /\ k # n => (InQueue(k, cmd)' <=> InQueue(k, cmd))
  <1>1. \A k \in Nodes : swarm_mpsc'[k] = IF k = n THEN <<>> ELSE swarm_mpsc[k]
    BY DEF TypeOK, Dies
  <1>2. DOMAIN <<>> = {}
    OBVIOUS
  <1>3. \A cmd : ~Holds(<<>>, cmd)
    BY <1>2 DEF Holds
  <1> QED
    BY <1>1, <1>3 DEF InQueue

-----------------------------------------------------------------------------
(* What a connection, a queue and a map of connections may look like.  The *)
(* typing needs it: an upgrade stores the peer it was started for.         *)
Upgrading(n) == swarm[n].at \in {"upgrade", "upgradeThenStream"}

ConnsOK ==
    \A c \in Conns :
        /\ link[c] = "unused" => \A n \in Nodes : stage[n][c] = "none"
        /\ link[c] # "unused" => /\ dialer[c] \in Nodes /\ listener[c] \in Nodes
                                 /\ dialer[c] # listener[c]
                                 /\ \A n \in Nodes : stage[n][c] # "none" => n \in Ends(c)

UpgradesOK ==
    \A n \in Nodes : Upgrading(n) =>
        /\ swarm[n].conn \in Conns
        /\ stage[n][swarm[n].conn] = "upgrade"
        /\ swarm[n].peer = Peer(n, swarm[n].conn)

EntriesOK ==
    \A n, m \in Nodes : connections[n][m] # None =>
        /\ stage[n][connections[n][m]] \in {"running", "reporting", "ended", "panicked"}
        /\ Peer(n, connections[n][m]) = m

QueuesOK == \A n \in Nodes, cmd \in Commands : InQueue(n, cmd) => cmd.peer # n

Shape == TypeOK /\ ConnsOK /\ UpgradesOK /\ EntriesOK /\ QueuesOK

(* At the start there are no connections, entries or commands.              *)
LEMMA ShapeInit == Init => Shape
  <1> SUFFICES ASSUME Init PROVE Shape
    OBVIOUS
  <1>1. <<>> \in Seq(Commands) /\ Len(<<>>) = 0 /\ DOMAIN <<>> = {}
    OBVIOUS
  <1>2. QueueCap \in Nat /\ 0 \in 0..MaxCalls
    BY SwarmAssumption
  <1>3. swarm_mpsc \in [Nodes -> Seq(Commands)] /\ \A n \in Nodes : Len(swarm_mpsc[n]) =< QueueCap
    BY <1>1, <1>2 DEF Init
  <1>4. swarm \in [Nodes -> [at : Labels, conn : Conns \cup {None}, peer : Nodes \cup {None}]]
    BY DEF Init, Looping, Labels
  <1>5. peer_store \in [Nodes -> SUBSET Nodes] /\ connections \in [Nodes -> [Nodes -> Conns \cup {None}]]
    BY DEF Init
  <1>6. stage \in [Nodes -> [Conns -> Stages]] /\ link \in [Conns -> {"unused", "up", "lost"}]
    BY DEF Init, Stages
  <1>7. calls \in [Nodes -> 0..MaxCalls] /\ disturbed \in BOOLEAN
    BY <1>2 DEF Init
  <1>8. TypeOK
    BY <1>3, <1>4, <1>5, <1>6, <1>7 DEF Init, TypeOK
  <1>9. ConnsOK /\ UpgradesOK /\ EntriesOK
    BY DEF Init, ConnsOK, UpgradesOK, Upgrading, EntriesOK, Looping
  <1>10. QueuesOK
    BY <1>1 DEF Init, QueuesOK, InQueue, Holds
  <1> QED
    BY <1>8, <1>9, <1>10 DEF Shape

(* Taking a command: it names another node, and the queue stays well formed. *)
LEMMA PopShape ==
    ASSUME Shape, NEW n \in Nodes, swarm_mpsc[n] # <<>>, Pops(n)
    PROVE  /\ NextPeer(n) \in Nodes /\ NextPeer(n) # n
           /\ QueuesOK'
  <1>1. TypeOK /\ QueuesOK
    BY DEF Shape
  <1> QED
    BY <1>1, PopsOK, Popped DEF QueuesOK, NextPeer

(* A swarm that dies upgrades nothing any more.                             *)
LEMMA DiesShape ==
    ASSUME Shape, NEW n \in Nodes, Dies(n)
    PROVE  Shape'
  <1>1. TypeOK /\ ConnsOK /\ UpgradesOK /\ EntriesOK /\ QueuesOK
    BY DEF Shape
  <1>2. TypeOK'
    BY <1>1, DiesOK
  <1>3. QueuesOK'
    BY <1>1, DeadQueue DEF QueuesOK
  <1>4. \A c \in Conns : link'[c] = "unused" <=> link[c] = "unused"
    BY <1>1 DEF Dies, ConnsOK
  <1>5. ConnsOK'
    BY <1>1, <1>4 DEF Dies, ConnsOK, Ends
  <1>6. \A k \in Nodes : swarm'[k] = IF k = n THEN [Looping EXCEPT !.at = "dead"] ELSE swarm[k]
    BY <1>1 DEF Dies, TypeOK
  <1>7. UpgradesOK'
    BY <1>1, <1>6 DEF Dies, UpgradesOK, Upgrading, Peer, Looping
  <1>8. EntriesOK'
    BY <1>1 DEF Dies, EntriesOK, Peer
  <1> QED
    BY <1>2, <1>3, <1>5, <1>7, <1>8 DEF Shape

(* An application calls: a command naming another node is sent.             *)
LEMMA CallShape ==
    ASSUME Shape, NEW call \in Calls, Call(call.node, call.op, call.peer)
    PROVE  Shape'
  <1>1. TypeOK /\ ConnsOK /\ UpgradesOK /\ EntriesOK /\ QueuesOK
    BY DEF Shape
  <1> DEFINE n == call.node
             m == call.peer
             op == call.op
  <1>2. n \in Nodes /\ m \in Nodes /\ n # m /\ op \in Ops
    BY SwarmAssumption
  <1> HIDE DEF n, m, op
  <1>3. Queue(n, op, m) /\ Call(n, op, m)
    BY DEF Call, n, m, op
  <1>4. MaxCalls \in Nat
    BY SwarmAssumption
  <1>5. calls \in [Nodes -> 0..MaxCalls] /\ calls[n] < MaxCalls
        /\ calls' = [calls EXCEPT ![n] = @ + 1]
    BY <1>1, <1>3 DEF TypeOK, Call
  <1>6. calls[n] + 1 \in 0..MaxCalls
    BY <1>2, <1>4, <1>5
  <1>7. calls' \in [Nodes -> 0..MaxCalls]
    BY <1>5, <1>6
  <1>8. disturbed' \in BOOLEAN
    BY <1>3 DEF Call
  <1>9. UNCHANGED <<swarmVars, connVars>>
    BY <1>3 DEF Call
  <1>10. TypeOK'
    BY <1>1, <1>2, <1>3, <1>7, <1>8, <1>9, QueueOK DEF TypeOK, swarmVars, connVars
  <1>11. \A k \in Nodes, cmd \in Commands :
            InQueue(k, cmd)' <=> InQueue(k, cmd) \/ (k = n /\ cmd = [op |-> op, peer |-> m])
    BY <1>1, <1>2, <1>3, Queued
  <1>12. QueuesOK'
    BY <1>1, <1>2, <1>11 DEF QueuesOK
  <1>13. ConnsOK' /\ UpgradesOK' /\ EntriesOK'
    BY <1>1, <1>3 DEF Call, swarmVars, connVars, ConnsOK, UpgradesOK, Upgrading, EntriesOK, Ends, Peer
  <1> QED
    BY <1>10, <1>12, <1>13 DEF Shape

(* Steps of a swarm that touch no connection. *)
LEMMA CommandShape ==
    ASSUME Shape, NEW n \in Nodes,
           SkipConnect(n) \/ StartStream(n) \/ SendStream(n) \/ OnDisconnect(n)
    PROVE  Shape'
  <1>1. TypeOK /\ ConnsOK /\ UpgradesOK /\ EntriesOK /\ QueuesOK
    BY DEF Shape
  <1>2. CASE SkipConnect(n)
    <2>1. swarm_mpsc[n] # <<>> /\ Pops(n) /\ UNCHANGED <<swarmVars, connVars, calls, disturbed>>
      BY <1>2 DEF SkipConnect, Waiting
    <2>2. TypeOK' /\ QueuesOK'
      BY <1>1, <2>1, PopsOK, PopShape DEF TypeOK, swarmVars, connVars
    <2>3. ConnsOK' /\ UpgradesOK' /\ EntriesOK'
      BY <1>1, <2>1 DEF swarmVars, connVars, ConnsOK, UpgradesOK, Upgrading, EntriesOK, Ends, Peer
    <2> QED
      BY <2>2, <2>3 DEF Shape
  <1>3. CASE StartStream(n)
    <2>1. /\ swarm_mpsc[n] # <<>> /\ Pops(n) /\ Busy(n, "stream", None, NextPeer(n))
          /\ UNCHANGED <<peer_store, connections, connVars, calls, disturbed>>
      BY <1>3 DEF StartStream, Waiting
    <2>2. NextPeer(n) \in Nodes /\ QueuesOK'
      BY <2>1, PopShape
    <2>3. TypeOK'
      BY <1>1, <2>1, <2>2, PopsOK DEF TypeOK, connVars, Busy, Labels
    <2>4. \A k \in Nodes : swarm'[k] = IF k = n THEN [at |-> "stream", conn |-> None, peer |-> NextPeer(n)]
                                              ELSE swarm[k]
      BY <1>1, <2>1 DEF TypeOK, Busy
    <2>5. ConnsOK' /\ UpgradesOK' /\ EntriesOK'
      BY <1>1, <2>1, <2>4 DEF connVars, ConnsOK, UpgradesOK, Upgrading, EntriesOK, Ends, Peer
    <2> QED
      BY <2>2, <2>3, <2>5 DEF Shape
  <1>4. CASE SendStream(n)
    <2>1. Loops(n) /\ UNCHANGED <<swarm_mpsc, peer_store, connections, connVars, calls, disturbed>>
      BY <1>4 DEF SendStream
    <2>2. TypeOK'
      BY <1>1, <2>1 DEF TypeOK, connVars, Loops, Looping, Labels
    <2>3. \A k \in Nodes : swarm'[k] = IF k = n THEN Looping ELSE swarm[k]
      BY <1>1, <2>1 DEF TypeOK, Loops
    <2>4. ConnsOK' /\ UpgradesOK' /\ EntriesOK' /\ QueuesOK'
      BY <1>1, <2>1, <2>3 DEF connVars, ConnsOK, UpgradesOK, Upgrading, EntriesOK, Ends, Peer,
                              Looping, QueuesOK, InQueue
    <2> QED
      BY <2>2, <2>4 DEF Shape
  <1>5. CASE OnDisconnect(n)
    <2>1. /\ swarm_mpsc[n] # <<>> /\ Pops(n)
          /\ peer_store' = [peer_store EXCEPT ![n] = @ \ {NextPeer(n)}]
          /\ connections' = [connections EXCEPT ![n][NextPeer(n)] = None]
          /\ UNCHANGED <<swarm, connVars, calls, disturbed>>
      BY <1>5 DEF OnDisconnect, Waiting
    <2>2. NextPeer(n) \in Nodes /\ QueuesOK'
      BY <2>1, PopShape
    <2>3. \A k, l \in Nodes : connections'[k][l] = IF k = n /\ l = NextPeer(n) THEN None ELSE connections[k][l]
      BY <1>1, <2>1 DEF TypeOK
    <2>4. TypeOK'
      BY <1>1, <2>1, <2>2, PopsOK DEF TypeOK, connVars
    <2>5. ConnsOK' /\ UpgradesOK' /\ EntriesOK'
      BY <1>1, <2>1, <2>3 DEF connVars, ConnsOK, UpgradesOK, Upgrading, EntriesOK, Ends, Peer
    <2> QED
      BY <2>2, <2>4, <2>5 DEF Shape
  <1> QED
    BY <1>2, <1>3, <1>4, <1>5

(* A dial gives both ends of an unused connection their stage.              *)
LEMMA DialShape ==
    ASSUME Shape, NEW n \in Nodes, NEW c \in Conns, Dial(n, c)
    PROVE  Shape'
  <1>1. TypeOK /\ ConnsOK /\ UpgradesOK /\ EntriesOK /\ QueuesOK
    BY DEF Shape
  <1> DEFINE m == NextPeer(n)
             label == IF Head(swarm_mpsc[n]).op = "stream" THEN "upgradeThenStream" ELSE "upgrade"
             NewPeer(k, d) == IF dialer'[d] = k THEN listener'[d] ELSE dialer'[d]
  <1>2. swarm_mpsc[n] # <<>> /\ Pops(n) /\ Busy(n, label, c, m)
    BY DEF Dial, Waiting
  <1>3. m \in Nodes /\ m # n /\ QueuesOK'
    BY <1>2, PopShape
  <1>4. /\ link[c] = "unused"
        /\ dialer' = [dialer EXCEPT ![c] = n]
        /\ listener' = [listener EXCEPT ![c] = m]
        /\ link' = [link EXCEPT ![c] = "up"]
        /\ stage' = [stage EXCEPT ![n][c] = "upgrade", ![m][c] = "pending"]
        /\ UNCHANGED <<peer_store, connections, calls, disturbed>>
    BY DEF Dial
  <1>5. label \in {"upgrade", "upgradeThenStream"}
    OBVIOUS
  <1>6. /\ swarm_mpsc' \in [Nodes -> Seq(Commands)]
        /\ \A k \in Nodes : Len(swarm_mpsc'[k]) =< QueueCap
    BY <1>1, <1>2, PopsOK
  <1> HIDE DEF m, label
  <1>7. \A k \in Nodes, d \in Conns : stage'[k][d] =
           IF d = c /\ k = n THEN "upgrade" ELSE IF d = c /\ k = m THEN "pending" ELSE stage[k][d]
    BY <1>1, <1>3, <1>4 DEF TypeOK
  <1>8. \A d \in Conns : /\ dialer'[d] = IF d = c THEN n ELSE dialer[d]
                         /\ listener'[d] = IF d = c THEN m ELSE listener[d]
                         /\ link'[d] = IF d = c THEN "up" ELSE link[d]
    BY <1>1, <1>4 DEF TypeOK
  <1>9. \A k \in Nodes : swarm'[k] = IF k = n THEN [at |-> label, conn |-> c, peer |-> m] ELSE swarm[k]
    BY <1>1, <1>2 DEF TypeOK, Busy
  <1>10. stage' \in [Nodes -> [Conns -> Stages]]
    BY <1>1, <1>3, <1>4 DEF TypeOK, Stages
  <1>11. swarm' \in [Nodes -> [at : Labels, conn : Conns \cup {None}, peer : Nodes \cup {None}]]
    BY <1>1, <1>2, <1>3, <1>5 DEF TypeOK, Busy, Labels
  <1>12. dialer' \in [Conns -> Nodes \cup {None}] /\ listener' \in [Conns -> Nodes \cup {None}]
    BY <1>1, <1>3, <1>4 DEF TypeOK
  <1>13. TypeOK'
    BY <1>1, <1>4, <1>6, <1>10, <1>11, <1>12 DEF TypeOK
  <1>14. /\ UNCHANGED connections /\ link[c] = "unused" /\ m \in Nodes /\ m # n
         /\ \A k \in Nodes : stage[k][c] = "none"
    BY <1>1, <1>3, <1>4 DEF ConnsOK
  <1>15. \A d \in Conns : d # c => dialer'[d] = dialer[d] /\ listener'[d] = listener[d] /\ link'[d] = link[d]
                                 /\ \A k \in Nodes : stage'[k][d] = stage[k][d]
    BY <1>7, <1>8
  <1>16. /\ dialer'[c] = n /\ listener'[c] = m /\ link'[c] = "up"
         /\ \A k \in Nodes : stage'[k][c] # "none" => k \in {n, m}
         /\ stage'[n][c] = "upgrade"
    BY <1>14, <1>7, <1>8
  <1>17. ConnsOK'
    <2> SUFFICES ASSUME NEW d \in Conns
                 PROVE  /\ link'[d] = "unused" => \A k \in Nodes : stage'[k][d] = "none"
                        /\ link'[d] # "unused" => /\ dialer'[d] \in Nodes /\ listener'[d] \in Nodes
                              /\ dialer'[d] # listener'[d]
                              /\ \A k \in Nodes : stage'[k][d] # "none" => k \in {dialer'[d], listener'[d]}
      BY DEF ConnsOK, Ends
    <2>1. CASE d = c
      BY <1>14, <1>16, <2>1
    <2>2. CASE d # c
      BY <1>1, <1>15, <2>2 DEF ConnsOK, Ends
    <2> QED
      BY <2>1, <2>2
  <1>18. UpgradesOK'
    <2> SUFFICES ASSUME NEW k \in Nodes, swarm'[k].at \in {"upgrade", "upgradeThenStream"}
                 PROVE  /\ swarm'[k].conn \in Conns
                        /\ stage'[k][swarm'[k].conn] = "upgrade"
                        /\ swarm'[k].peer = NewPeer(k, swarm'[k].conn)
      BY DEF UpgradesOK, Upgrading, Peer
    <2>1. CASE k = n
      <3>1. swarm'[k].conn = c /\ swarm'[k].peer = m
        BY <1>9, <2>1
      <3> QED
        BY <1>16, <2>1, <3>1
    <2>2. CASE k # n
      <3>1. /\ swarm'[k] = swarm[k] /\ swarm[k].conn \in Conns
            /\ stage[k][swarm[k].conn] = "upgrade" /\ swarm[k].peer = Peer(k, swarm[k].conn)
        BY <1>1, <1>9, <2>2 DEF UpgradesOK, Upgrading
      <3>2. swarm[k].conn # c
        BY <1>14, <3>1
      <3>3. NewPeer(k, swarm[k].conn) = Peer(k, swarm[k].conn)
        BY <1>15, <3>1, <3>2 DEF Peer
      <3> QED
        BY <1>15, <3>1, <3>2, <3>3
    <2> QED
      BY <2>1, <2>2
  <1>19. EntriesOK'
    <2> SUFFICES ASSUME NEW k \in Nodes, NEW l \in Nodes, connections[k][l] # None
                 PROVE  /\ stage'[k][connections[k][l]] \in {"running", "reporting", "ended", "panicked"}
                        /\ NewPeer(k, connections[k][l]) = l
      BY <1>14 DEF EntriesOK, Peer
    <2>1. connections[k][l] \in Conns
      BY <1>1 DEF TypeOK
    <2>2. connections[k][l] # c
      BY <1>1, <1>4 DEF EntriesOK, ConnsOK
    <2>3. NewPeer(k, connections[k][l]) = Peer(k, connections[k][l])
      BY <1>15, <2>1, <2>2 DEF Peer
    <2> QED
      BY <1>1, <1>15, <2>1, <2>2, <2>3 DEF EntriesOK
  <1> QED
    BY <1>3, <1>13, <1>17, <1>18, <1>19 DEF Shape

(* Steps that only move one end of a connection on. *)
Moves(n, c, next) ==
    /\ stage[n][c] # "none"
    /\ stage' = [stage EXCEPT ![n][c] = next]
    /\ UNCHANGED <<dialer, listener>>
    /\ \A d \in Conns : link'[d] = "unused" <=> link[d] = "unused"

(* One end of a connection gets further.                                    *)
LEMMA MovesOK ==
    ASSUME Shape, NEW n \in Nodes, NEW c \in Conns, NEW next \in Stages, Moves(n, c, next)
    PROVE  /\ stage' \in [Nodes -> [Conns -> Stages]]
           /\ \A k \in Nodes, d \in Conns :
                 stage'[k][d] = IF k = n /\ d = c THEN next ELSE stage[k][d]
           /\ ConnsOK'
  <1>1. TypeOK /\ ConnsOK
    BY DEF Shape
  <1>2. stage' \in [Nodes -> [Conns -> Stages]]
    BY <1>1 DEF TypeOK, Moves
  <1>3. \A k \in Nodes, d \in Conns : stage'[k][d] = IF k = n /\ d = c THEN next ELSE stage[k][d]
    BY <1>1 DEF TypeOK, Moves
  <1>4. ConnsOK'
    BY <1>1, <1>3 DEF ConnsOK, Moves, Ends
  <1> QED
    BY <1>2, <1>3, <1>4

(* A waiting connection is accepted by its listener.                        *)
LEMMA AcceptShape ==
    ASSUME Shape, NEW n \in Nodes, NEW c \in Conns, Accept(n, c)
    PROVE  Shape'
  <1>1. TypeOK /\ ConnsOK /\ UpgradesOK /\ EntriesOK /\ QueuesOK
    BY DEF Shape
  <1>2. Moves(n, c, "upgrade") /\ "upgrade" \in Stages
    BY DEF Accept, Moves, Stages
  <1>3. /\ stage' \in [Nodes -> [Conns -> Stages]]
        /\ \A k \in Nodes, d \in Conns : stage'[k][d] = IF k = n /\ d = c THEN "upgrade" ELSE stage[k][d]
        /\ ConnsOK'
    BY <1>2, MovesOK
  <1>4. /\ stage[n][c] = "pending" /\ swarm[n].at = "loop" /\ listener[c] = n
        /\ Busy(n, "upgrade", c, dialer[c])
        /\ UNCHANGED <<swarm_mpsc, peer_store, connections, dialer, listener, link, calls, disturbed>>
    BY DEF Accept
  <1>5. \A k \in Nodes : swarm'[k] = IF k = n THEN [at |-> "upgrade", conn |-> c, peer |-> dialer[c]] ELSE swarm[k]
    BY <1>1, <1>4 DEF TypeOK, Busy
  <1>6. swarm' \in [Nodes -> [at : Labels, conn : Conns \cup {None}, peer : Nodes \cup {None}]]
    BY <1>1, <1>4 DEF TypeOK, Busy, Labels
  <1>7. TypeOK'
    BY <1>1, <1>3, <1>4, <1>6 DEF TypeOK
  <1>8. link[c] # "unused"
    BY <1>1, <1>4 DEF ConnsOK
  <1>9. UpgradesOK'
    <2> SUFFICES ASSUME NEW k \in Nodes, swarm'[k].at \in {"upgrade", "upgradeThenStream"}
                 PROVE  /\ swarm'[k].conn \in Conns
                        /\ stage'[k][swarm'[k].conn] = "upgrade"
                        /\ swarm'[k].peer = Peer(k, swarm'[k].conn)
      BY <1>4 DEF UpgradesOK, Upgrading, Peer
    <2>1. CASE k = n
      <3>1. dialer[c] # n
        BY <1>1, <1>4, <1>8 DEF ConnsOK
      <3> QED
        BY <1>3, <1>5, <2>1, <3>1 DEF Peer
    <2>2. CASE k # n
      BY <1>1, <1>3, <1>5, <2>2 DEF UpgradesOK, Upgrading
    <2> QED
      BY <2>1, <2>2
  <1>10. EntriesOK'
    <2> SUFFICES ASSUME NEW k \in Nodes, NEW l \in Nodes, connections[k][l] # None
                 PROVE  /\ stage'[k][connections[k][l]] \in {"running", "reporting", "ended", "panicked"}
                        /\ Peer(k, connections[k][l]) = l
      BY <1>4 DEF EntriesOK, Peer
    <2>1. connections[k][l] \in Conns
      BY <1>1 DEF TypeOK
    <2> QED
      BY <1>1, <1>3, <1>4, <2>1 DEF EntriesOK
  <1>11. QueuesOK'
    BY <1>1, <1>4 DEF QueuesOK, InQueue
  <1> QED
    BY <1>3, <1>7, <1>9, <1>10, <1>11 DEF Shape

(* An upgrade ends: its connection runs and has the entry of its peer.      *)
LEMMA FinishShape ==
    ASSUME Shape, NEW n \in Nodes, FinishUpgrade(n)
    PROVE  Shape'
  <1>1. TypeOK /\ ConnsOK /\ UpgradesOK /\ EntriesOK /\ QueuesOK
    BY DEF Shape
  <1> DEFINE c == swarm[n].conn
             m == swarm[n].peer
  <1>2. /\ c \in Conns /\ stage[n][c] = "upgrade" /\ m = Peer(n, c) /\ Upgrading(n)
    BY <1>1 DEF FinishUpgrade, UpgradesOK, Upgrading
  <1>3. m \in Nodes
    BY <1>1, <1>2 DEF ConnsOK, Peer
  <1>4. /\ stage' = [stage EXCEPT ![n][c] = "running"]
        /\ peer_store' = [peer_store EXCEPT ![n] = @ \cup {m}]
        /\ connections' = [connections EXCEPT ![n][m] = c]
        /\ Loops(n) \/ Busy(n, "stream", None, m)
        /\ UNCHANGED <<swarm_mpsc, dialer, listener, link, calls, disturbed>>
    BY DEF FinishUpgrade, update_peerstore
  <1> HIDE DEF c, m
  <1>5. Moves(n, c, "running") /\ "running" \in Stages
    BY <1>2, <1>4 DEF Moves, Stages
  <1>6. /\ stage' \in [Nodes -> [Conns -> Stages]]
        /\ \A k \in Nodes, d \in Conns : stage'[k][d] = IF k = n /\ d = c THEN "running" ELSE stage[k][d]
        /\ ConnsOK'
    BY <1>2, <1>5, MovesOK
  <1>7. \A k \in Nodes : IF k = n THEN ~Upgrading(k)' ELSE swarm'[k] = swarm[k]
    <2>1. CASE Loops(n)
      BY <1>1, <2>1 DEF TypeOK, Loops, Looping, Upgrading
    <2>2. CASE Busy(n, "stream", None, m)
      BY <1>1, <2>2 DEF TypeOK, Busy, Upgrading
    <2> QED
      BY <1>4, <2>1, <2>2
  <1>8. swarm' \in [Nodes -> [at : Labels, conn : Conns \cup {None}, peer : Nodes \cup {None}]]
    <2>1. CASE Loops(n)
      BY <1>1, <2>1 DEF TypeOK, Loops, Looping, Labels
    <2>2. CASE Busy(n, "stream", None, m)
      BY <1>1, <1>3, <2>2 DEF TypeOK, Busy, Labels
    <2> QED
      BY <1>4, <2>1, <2>2
  <1>9. \A k, l \in Nodes : connections'[k][l] = IF k = n /\ l = m THEN c ELSE connections[k][l]
    BY <1>1, <1>4 DEF TypeOK
  <1>10. peer_store' \in [Nodes -> SUBSET Nodes] /\ connections' \in [Nodes -> [Nodes -> Conns \cup {None}]]
    BY <1>1, <1>2, <1>3, <1>4 DEF TypeOK
  <1>11. TypeOK'
    BY <1>1, <1>4, <1>6, <1>8, <1>10 DEF TypeOK
  <1>12. UpgradesOK'
    BY <1>1, <1>4, <1>6, <1>7 DEF UpgradesOK, Upgrading, Peer
  <1>13. EntriesOK'
    BY <1>1, <1>2, <1>3, <1>4, <1>6, <1>9 DEF EntriesOK, Peer, TypeOK
  <1>14. QueuesOK'
    BY <1>1, <1>4 DEF QueuesOK, InQueue
  <1> QED
    BY <1>6, <1>11, <1>12, <1>13, <1>14 DEF Shape

(* A connection task ends, reports or panics.                               *)
LEMMA ConnShape ==
    ASSUME Shape, NEW n \in Nodes, NEW c \in Conns, ConnStep(n, c) \/ ConnPanics(n, c)
    PROVE  Shape'
  <1>1. TypeOK /\ ConnsOK /\ UpgradesOK /\ EntriesOK /\ QueuesOK
    BY DEF Shape
  <1>2. PICK next \in {"reporting", "ended", "panicked"} :
           /\ Moves(n, c, next)
           /\ stage[n][c] \in {"running", "reporting"}
           /\ swarmVars' = swarmVars /\ calls' = calls
           /\ disturbed' \in BOOLEAN
           /\ link' \in [Conns -> {"unused", "up", "lost"}]
    <2>1. CASE ConnEnds(n, c)
      BY <1>1, <2>1 DEF ConnEnds, Moves, TypeOK
    <2>2. CASE ConnReports(n, c)
      BY <1>1, <2>2 DEF ConnReports, Moves, TypeOK
    <2>3. CASE ConnPanics(n, c)
      <3>1. link[c] # "unused"
        BY <1>1, <2>3 DEF ConnPanics, ConnsOK
      <3>2. \A d \in Conns : link'[d] = "unused" <=> link[d] = "unused"
        BY <1>1, <2>3, <3>1 DEF ConnPanics, TypeOK
      <3> QED
        BY <1>1, <2>3, <3>2 DEF ConnPanics, Moves, TypeOK
    <2> QED
      BY <2>1, <2>2, <2>3 DEF ConnStep
  <1>3. next \in Stages
    BY DEF Stages
  <1>4. /\ stage' \in [Nodes -> [Conns -> Stages]]
        /\ \A k \in Nodes, d \in Conns : stage'[k][d] = IF k = n /\ d = c THEN next ELSE stage[k][d]
        /\ ConnsOK'
    BY <1>2, <1>3, MovesOK
  <1>5. /\ Peer(n, c) \in Nodes /\ Peer(n, c) # n
    BY <1>1, <1>2 DEF ConnsOK, Peer, Ends
  <1>6. \/ UNCHANGED swarm_mpsc
        \/ Queue(n, "disconnect", Peer(n, c))
    BY DEF ConnStep, ConnEnds, ConnReports, ConnPanics
  <1>7. /\ swarm_mpsc' \in [Nodes -> Seq(Commands)]
        /\ \A k \in Nodes : Len(swarm_mpsc'[k]) =< QueueCap
    BY <1>1, <1>5, <1>6, QueueOK DEF TypeOK, Ops
  <1>8. QueuesOK'
    <2>1. CASE UNCHANGED swarm_mpsc
      BY <1>1, <2>1 DEF QueuesOK, InQueue
    <2>2. CASE Queue(n, "disconnect", Peer(n, c))
      <3>1. \A k \in Nodes, cmd \in Commands : InQueue(k, cmd)' <=>
                InQueue(k, cmd) \/ (k = n /\ cmd = [op |-> "disconnect", peer |-> Peer(n, c)])
        BY <1>1, <1>5, <2>2, Queued DEF Ops
      <3> QED
        BY <1>1, <1>5, <3>1 DEF QueuesOK
    <2> QED
      BY <1>6, <2>1, <2>2
  <1>9. TypeOK'
    BY <1>1, <1>2, <1>4, <1>7 DEF TypeOK, Moves, swarmVars
  <1>10. UpgradesOK'
    BY <1>1, <1>2, <1>4 DEF UpgradesOK, Upgrading, Peer, Moves, swarmVars
  <1>11. EntriesOK'
    BY <1>1, <1>2, <1>4 DEF EntriesOK, Peer, Moves, swarmVars, TypeOK
  <1> QED
    BY <1>4, <1>8, <1>9, <1>10, <1>11 DEF Shape

(* A link is lost.                                                          *)
LEMMA LinkShape ==
    ASSUME Shape, NEW c \in Conns, LinkLost(c)
    PROVE  Shape'
  <1>1. TypeOK /\ ConnsOK /\ UpgradesOK /\ EntriesOK /\ QueuesOK
    BY DEF Shape
  <1>2. \A d \in Conns : link'[d] = "unused" <=> link[d] = "unused"
    BY <1>1 DEF LinkLost, TypeOK
  <1>3. TypeOK'
    BY <1>1 DEF LinkLost, TypeOK, swarmVars
  <1>4. ConnsOK' /\ UpgradesOK' /\ EntriesOK' /\ QueuesOK'
    BY <1>1, <1>2 DEF LinkLost, swarmVars, ConnsOK, UpgradesOK, Upgrading, EntriesOK, Ends, Peer,
                      QueuesOK, InQueue
  <1> QED
    BY <1>3, <1>4 DEF Shape

(* The step lemma: one case per action of Next. *)
LEMMA ShapeStep == Shape /\ [Next]_vars => Shape'
  <1> SUFFICES ASSUME Shape, [Next]_vars PROVE Shape'
    OBVIOUS
  <1>1. ASSUME NEW call \in Calls, Call(call.node, call.op, call.peer) PROVE Shape'
    BY <1>1, CallShape
  <1>2. ASSUME NEW n \in Nodes, SwarmStep(n) PROVE Shape'
    <2>1. CASE SkipConnect(n) \/ StartStream(n) \/ SendStream(n) \/ OnDisconnect(n)
      BY <2>1, CommandShape
    <2>2. CASE DialRefused(n) \/ StreamFails(n) \/ DisconnectUnknown(n) \/ UpgradeFails(n)
      BY <2>2, DiesShape DEF DialRefused, StreamFails, DisconnectUnknown, UpgradeFails
    <2>3. CASE FinishUpgrade(n)
      BY <2>3, FinishShape
    <2>4. CASE \E c \in Conns : Dial(n, c) \/ Accept(n, c)
      BY <2>4, DialShape, AcceptShape
    <2> QED
      BY <1>2, <2>1, <2>2, <2>3, <2>4 DEF SwarmStep
  <1>3. ASSUME NEW n \in Nodes, NEW c \in Conns, ConnStep(n, c) \/ ConnPanics(n, c) PROVE Shape'
    BY <1>3, ConnShape
  <1>4. ASSUME NEW c \in Conns, LinkLost(c) PROVE Shape'
    BY <1>4, LinkShape
  <1>5. CASE UNCHANGED vars
    <2>1. TypeOK'
      BY <1>5 DEF Shape, vars, TypeOK
    <2>2. ConnsOK' /\ UpgradesOK' /\ EntriesOK' /\ QueuesOK'
      BY <1>5 DEF Shape, vars, ConnsOK, UpgradesOK, Upgrading, EntriesOK, Ends, Peer, QueuesOK, InQueue
    <2> QED
      BY <2>1, <2>2 DEF Shape
  <1> QED
    BY <1>1, <1>2, <1>3, <1>4, <1>5 DEF Next

(* Every variable keeps its type, and every connection, upgrade and entry   *)
(* of the map the shape the code relies on: an upgrade is of a connection   *)
(* to the peer it will be stored under (conn_handler, update_peerstore),    *)
(* and an entry names a connection to its peer that was upgraded.           *)
THEOREM TypeCorrect == Spec => [](TypeOK /\ UpgradesOK /\ EntriesOK)
  <1>1. Shape => TypeOK /\ UpgradesOK /\ EntriesOK
    BY DEF Shape
  <1> QED
    BY <1>1, ShapeInit, ShapeStep, PTL DEF Spec

-----------------------------------------------------------------------------
(* What holds as long as nothing disturbs the connections: nobody dies, no  *)
(* connection is lost or ending, nobody is told to forget a peer, and a     *)
(* stream is only asked of a peer with a connection.                        *)
Quiet ==
    /\ \A n \in Nodes : Alive(n)
    /\ \A c \in Conns : link[c] # "lost"
    /\ \A n \in Nodes, c \in Conns : stage[n][c] \notin {"reporting", "ended", "panicked"}
    /\ \A n \in Nodes, cmd \in Commands : InQueue(n, cmd) => cmd.op # "disconnect"
    /\ \A n \in Nodes : swarm[n].at = "stream" =>
          swarm[n].peer \in Nodes /\ is_peer_connected(n, swarm[n].peer)

Calm == ~disturbed => Quiet

(* Nothing has happened yet.                                                *)
LEMMA CalmInit == Init => Calm
  <1>1. DOMAIN <<>> = {}
    OBVIOUS
  <1> QED
    BY <1>1 DEF Init, Calm, Quiet, Alive, Looping, InQueue, Holds

(* A call other than disconnect.                                            *)
LEMMA QuietCall ==
    ASSUME Shape, Quiet, NEW call \in Calls, Call(call.node, call.op, call.peer), ~disturbed'
    PROVE  Quiet'
  <1> DEFINE n == call.node
             m == call.peer
             op == call.op
  <1>1. n \in Nodes /\ m \in Nodes /\ op \in Ops
    BY SwarmAssumption
  <1> HIDE DEF n, m, op
  <1>2. Call(n, op, m)
    BY DEF n, m, op
  <1>3. op # "disconnect" /\ Queue(n, op, m) /\ UNCHANGED <<swarmVars, connVars>>
    BY <1>2 DEF Call
  <1>4. \A k \in Nodes, cmd \in Commands :
            InQueue(k, cmd)' <=> InQueue(k, cmd) \/ (k = n /\ cmd = [op |-> op, peer |-> m])
    BY <1>1, <1>3, Queued DEF Shape
  <1>5. \A k \in Nodes, cmd \in Commands : InQueue(k, cmd)' => cmd.op # "disconnect"
    BY <1>3, <1>4 DEF Quiet
  <1>6. UNCHANGED <<swarm, connections, link, stage>>
    BY <1>3 DEF swarmVars, connVars
  <1> QED
    BY <1>5, <1>6 DEF Quiet, Alive, is_peer_connected

(* Undisturbed, none of the causes of a death is present. *)
LEMMA QuietNoDeath ==
    ASSUME Shape, Quiet, NEW n \in Nodes,
           DialRefused(n) \/ StreamFails(n) \/ DisconnectUnknown(n) \/ UpgradeFails(n)
    PROVE  FALSE
  <1>1. TypeOK /\ UpgradesOK /\ EntriesOK
    BY DEF Shape
  <1>2. swarm_mpsc[n] # <<>> => Head(swarm_mpsc[n]) \in Commands /\ InQueue(n, Head(swarm_mpsc[n]))
    <2> SUFFICES ASSUME swarm_mpsc[n] # <<>>
                 PROVE  Head(swarm_mpsc[n]) \in Commands /\ InQueue(n, Head(swarm_mpsc[n]))
      OBVIOUS
    <2>1. swarm_mpsc[n] \in Seq(Commands) /\ Head(swarm_mpsc[n]) \in Commands
      BY <1>1 DEF TypeOK
    <2> QED
      BY <2>1, InTail DEF InQueue
  <1>3. CASE DialRefused(n)
    BY <1>2, <1>3 DEF DialRefused, Waiting, NextPeer, Quiet, Commands
  <1>4. CASE StreamFails(n)
    BY <1>1, <1>4 DEF StreamFails, Gone, Quiet, is_peer_connected, EntriesOK, TypeOK
  <1>5. CASE DisconnectUnknown(n)
    BY <1>2, <1>5 DEF DisconnectUnknown, Waiting, Quiet
  <1>6. CASE UpgradeFails(n)
    BY <1>1, <1>6 DEF UpgradeFails, UpgradesOK, Upgrading, Quiet
  <1> QED
    BY <1>3, <1>4, <1>5, <1>6

(* Taking a command leaves no request to forget a peer behind. *)
LEMMA QuietPop ==
    ASSUME Shape, Quiet, NEW n \in Nodes, swarm_mpsc[n] # <<>>, Pops(n)
    PROVE  \A k \in Nodes, cmd \in Commands : InQueue(k, cmd)' => cmd.op # "disconnect"
  BY Popped DEF Shape, Quiet

(* A step of a swarm, in the absence of failures.                           *)
LEMMA QuietSwarm ==
    ASSUME Shape, Quiet, NEW n \in Nodes, SwarmStep(n)
    PROVE  Quiet'
  <1>1. TypeOK /\ UpgradesOK /\ ConnsOK
    BY DEF Shape
  <1>2. CASE SkipConnect(n)
    <2>1. swarm_mpsc[n] # <<>> /\ Pops(n) /\ UNCHANGED <<swarm, connections, link, stage>>
      BY <1>2 DEF SkipConnect, Waiting, swarmVars, connVars
    <2> QED
      BY <2>1, QuietPop DEF Quiet, Alive, is_peer_connected
  <1>3. CASE StartStream(n)
    <2>1. /\ swarm_mpsc[n] # <<>> /\ Pops(n) /\ Busy(n, "stream", None, NextPeer(n))
          /\ is_peer_connected(n, NextPeer(n)) /\ UNCHANGED <<connections, link, stage>>
      BY <1>3 DEF StartStream, Waiting, connVars
    <2>2. NextPeer(n) \in Nodes
      BY <2>1, PopShape
    <2>3. \A k \in Nodes : swarm'[k] = IF k = n THEN [at |-> "stream", conn |-> None, peer |-> NextPeer(n)]
                                              ELSE swarm[k]
      BY <1>1, <2>1 DEF TypeOK, Busy
    <2>4. \A k \in Nodes, cmd \in Commands : InQueue(k, cmd)' => cmd.op # "disconnect"
      BY <2>1, QuietPop
    <2> QED
      BY <2>1, <2>2, <2>3, <2>4 DEF Quiet, Alive, is_peer_connected
  <1>4. CASE SendStream(n)
    <2>1. Loops(n) /\ UNCHANGED <<swarm_mpsc, connections, link, stage>>
      BY <1>4 DEF SendStream, connVars
    <2>2. \A k \in Nodes : swarm'[k] = IF k = n THEN Looping ELSE swarm[k]
      BY <1>1, <2>1 DEF TypeOK, Loops
    <2> QED
      BY <2>1, <2>2 DEF Quiet, Alive, is_peer_connected, Looping, InQueue
  <1>5. CASE OnDisconnect(n)
    <2>1. Head(swarm_mpsc[n]).op = "disconnect" /\ swarm_mpsc[n] # <<>> /\ Pops(n)
      BY <1>5 DEF OnDisconnect, Waiting
    <2> QED
      BY <1>1, <2>1, Popped DEF Quiet
  <1>6. CASE FinishUpgrade(n)
    <2> DEFINE c == swarm[n].conn
               m == swarm[n].peer
    <2>1. /\ c \in Conns /\ m = Peer(n, c) /\ stage[n][c] = "upgrade"
          /\ stage' = [stage EXCEPT ![n][c] = "running"]
          /\ connections' = [connections EXCEPT ![n][m] = c]
          /\ Loops(n) \/ Busy(n, "stream", None, m)
          /\ UNCHANGED <<swarm_mpsc, link>>
      BY <1>1, <1>6 DEF FinishUpgrade, update_peerstore, UpgradesOK, Upgrading
    <2>2. m \in Nodes
      BY <1>1, <2>1 DEF ConnsOK, Peer
    <2> HIDE DEF c, m
    <2>3. \A k, l \in Nodes : connections'[k][l] = IF k = n /\ l = m THEN c ELSE connections[k][l]
      BY <1>1, <2>1 DEF TypeOK
    <2>4. \A k \in Nodes, d \in Conns : stage'[k][d] = IF k = n /\ d = c THEN "running" ELSE stage[k][d]
      BY <1>1, <2>1 DEF TypeOK
    <2>5. \A k \in Nodes : \/ swarm'[k] = swarm[k]
                           \/ swarm'[k] = Looping
                           \/ k = n /\ swarm'[k] = [at |-> "stream", conn |-> None, peer |-> m]
      <3>1. CASE Loops(n)
        BY <1>1, <3>1 DEF TypeOK, Loops
      <3>2. CASE Busy(n, "stream", None, m)
        BY <1>1, <3>2 DEF TypeOK, Busy
      <3> QED
        BY <2>1, <3>1, <3>2
    <2>6. c # None
      BY <2>1, SwarmAssumption
    <2>7. \A k \in Nodes : Alive(k)'
      BY <2>5 DEF Quiet, Alive, Looping
    <2>8. \A k \in Nodes : swarm'[k].at = "stream" =>
              swarm'[k].peer \in Nodes /\ connections'[k][swarm'[k].peer] # None
      BY <2>2, <2>3, <2>5, <2>6 DEF Quiet, is_peer_connected, Looping
    <2>9. UNCHANGED <<swarm_mpsc, link>>
      BY <2>1
    <2> QED
      BY <2>4, <2>7, <2>8, <2>9 DEF Quiet, InQueue, is_peer_connected
  <1>7. CASE \E c \in Conns : Dial(n, c)
    <2> PICK c \in Conns : Dial(n, c)
      BY <1>7
    <2> DEFINE m == NextPeer(n)
               label == IF Head(swarm_mpsc[n]).op = "stream" THEN "upgradeThenStream" ELSE "upgrade"
    <2>1. /\ swarm_mpsc[n] # <<>> /\ Pops(n) /\ Busy(n, label, c, m)
          /\ link' = [link EXCEPT ![c] = "up"]
          /\ stage' = [stage EXCEPT ![n][c] = "upgrade", ![m][c] = "pending"]
          /\ UNCHANGED connections
      BY DEF Dial, Waiting
    <2>2. \A k \in Nodes, cmd \in Commands : InQueue(k, cmd)' => cmd.op # "disconnect"
      BY <2>1, QuietPop
    <2>3. m \in Nodes
      BY <2>1, PopShape
    <2>4. label \in {"upgrade", "upgradeThenStream"}
      OBVIOUS
    <2> HIDE DEF m, label
    <2>5. \A k \in Nodes, d \in Conns : stage'[k][d] \in {stage[k][d], "upgrade", "pending"}
      BY <1>1, <2>1, <2>3 DEF TypeOK
    <2>6. \A k \in Nodes : swarm'[k] = IF k = n THEN [at |-> label, conn |-> c, peer |-> m] ELSE swarm[k]
      BY <1>1, <2>1 DEF TypeOK, Busy
    <2>7. \A d \in Conns : link'[d] \in {link[d], "up"}
      BY <1>1, <2>1 DEF TypeOK
    <2>8. \A k \in Nodes : Alive(k)' /\ (swarm'[k].at = "stream" => swarm'[k] = swarm[k])
      BY <2>4, <2>6 DEF Quiet, Alive
    <2>9. UNCHANGED connections
      BY <2>1
    <2> QED
      BY <2>2, <2>5, <2>7, <2>8, <2>9 DEF Quiet, is_peer_connected
  <1>8. CASE \E c \in Conns : Accept(n, c)
    <2> PICK c \in Conns : Accept(n, c)
      BY <1>8
    <2>1. /\ stage' = [stage EXCEPT ![n][c] = "upgrade"] /\ Busy(n, "upgrade", c, dialer[c])
          /\ UNCHANGED <<swarm_mpsc, connections, link>>
      BY DEF Accept
    <2>2. \A k \in Nodes, d \in Conns : stage'[k][d] \in {stage[k][d], "upgrade"}
      BY <1>1, <2>1 DEF TypeOK
    <2>3. \A k \in Nodes : swarm'[k] = IF k = n THEN [at |-> "upgrade", conn |-> c, peer |-> dialer[c]] ELSE swarm[k]
      BY <1>1, <2>1 DEF TypeOK, Busy
    <2>4. UNCHANGED <<swarm_mpsc, connections, link>>
      BY <2>1
    <2> QED
      BY <2>2, <2>3, <2>4 DEF Quiet, Alive, is_peer_connected, InQueue
  <1>9. ASSUME DialRefused(n) \/ StreamFails(n) \/ DisconnectUnknown(n) \/ UpgradeFails(n)
        PROVE  FALSE
    BY <1>9, QuietNoDeath
  <1> QED
    BY <1>2, <1>3, <1>4, <1>5, <1>6, <1>7, <1>8, <1>9 DEF SwarmStep

(* As long as nothing fails, every step leaves the swarms quiet.            *)
LEMMA CalmStep == Shape /\ Calm /\ [Next]_vars => Calm'
  <1> SUFFICES ASSUME Shape, Calm, [Next]_vars, ~disturbed' PROVE Quiet'
    BY DEF Calm
  <1>1. ASSUME NEW call \in Calls, Call(call.node, call.op, call.peer) PROVE Quiet'
    <2>1. ~disturbed
      BY <1>1 DEF Call
    <2> QED
      BY <1>1, <2>1, QuietCall DEF Calm
  <1>2. ASSUME NEW n \in Nodes, SwarmStep(n) PROVE Quiet'
    <2>1. UNCHANGED disturbed
      BY <1>2 DEF SwarmStep, SkipConnect, Dial, Accept, DialRefused, StartStream, SendStream, StreamFails,
                  OnDisconnect, DisconnectUnknown, FinishUpgrade, UpgradeFails, Dies
    <2> QED
      BY <1>2, <2>1, QuietSwarm DEF Calm
  <1>3. ASSUME NEW n \in Nodes, NEW c \in Conns, ConnStep(n, c) \/ ConnPanics(n, c) PROVE Quiet'
    <2>1. ~disturbed /\ (ConnEnds(n, c) \/ ConnReports(n, c))
      BY <1>3 DEF ConnStep, ConnEnds, ConnReports, ConnPanics
    <2> QED
      BY <2>1 DEF Calm, Quiet, ConnEnds, ConnReports
  <1>4. ASSUME NEW c \in Conns, LinkLost(c) PROVE Quiet'
    BY <1>4 DEF LinkLost
  <1>5. CASE UNCHANGED vars
    BY <1>5 DEF vars, Calm, Quiet, Alive, is_peer_connected, InQueue
  <1> QED
    BY <1>1, <1>2, <1>3, <1>4, <1>5 DEF Next

(* As long as no connection fails and no application disconnects, no swarm  *)
(* task ends: none of the unwrap()s and expect()s of initiate, connect,     *)
(* new_stream and on_disconnect is met (swarm/src/swarm.rs, inner.rs).      *)
THEOREM SwarmsSurvive == Spec => []NoDeathUndisturbed
  <1>1. Calm => NoDeathUndisturbed
    BY DEF Calm, Quiet, NoDeathUndisturbed
  <1>2. Init => Shape /\ Calm
    BY ShapeInit, CalmInit
  <1>3. Shape /\ Calm /\ [Next]_vars => Shape' /\ Calm'
    BY ShapeStep, CalmStep
  <1> QED
    BY <1>1, <1>2, <1>3, PTL DEF Spec

-----------------------------------------------------------------------------
(* An entry whose connection has ended is on its way out.  Nothing but the *)
(* handling of the report takes the report away, and that removes the entry. *)
Forget(m) == [op |-> "disconnect", peer |-> m]
Stale(n, m) == connections[n][m] # None /\ stage[n][connections[n][m]] = "ended"
StaleInv == \A n, m \in Nodes : Alive(n) /\ Stale(n, m) => InQueue(n, Forget(m))

(* A step that makes no entry stale, revives no swarm and loses no report   *)
(* of an entry that stays.                                                  *)
StaleQuiet ==
    \A n, m \in Nodes : Alive(n)' /\ Stale(n, m)' =>
        /\ Alive(n) /\ Stale(n, m)
        /\ InQueue(n, Forget(m)) => InQueue(n, Forget(m))'

(* Such a step keeps the invariant.                                         *)
LEMMA StaleFrame ==
    ASSUME StaleInv, StaleQuiet
    PROVE  StaleInv'
  BY DEF StaleInv, StaleQuiet

(* A swarm that died has no report to lose.                                 *)
LEMMA StaleDies ==
    ASSUME Shape, NEW n \in Nodes, Dies(n)
    PROVE  StaleQuiet
  <1>1. TypeOK
    BY DEF Shape
  <1>2. UNCHANGED <<connections, stage>>
    BY DEF Dies
  <1>3. \A k \in Nodes : Alive(k)' => k # n /\ Alive(k)
    BY <1>1 DEF Dies, TypeOK, Alive, Looping
  <1>4. \A m \in Nodes : Forget(m) \in Commands
    BY DEF Forget, Commands, Ops
  <1> QED
    BY <1>1, <1>2, <1>3, <1>4, DeadQueue DEF StaleQuiet, Stale

(* No step of a swarm makes an entry stale.                                 *)
LEMMA StaleSwarm ==
    ASSUME Shape, NEW n \in Nodes, SwarmStep(n)
    PROVE  StaleQuiet
  <1>1. TypeOK /\ ConnsOK /\ UpgradesOK /\ EntriesOK
    BY DEF Shape
  <1>2. \A m \in Nodes : Forget(m) \in Commands /\ Forget(m).op = "disconnect" /\ Forget(m).peer = m
    BY DEF Forget, Commands, Ops
  <1>3. CASE DialRefused(n) \/ StreamFails(n) \/ DisconnectUnknown(n) \/ UpgradeFails(n)
    BY <1>3, StaleDies DEF DialRefused, StreamFails, DisconnectUnknown, UpgradeFails
  <1>4. CASE SkipConnect(n) \/ StartStream(n)
    <2>1. /\ swarm_mpsc[n] # <<>> /\ Pops(n) /\ Head(swarm_mpsc[n]).op # "disconnect" /\ Alive(n)
          /\ UNCHANGED <<connections, stage>>
      BY <1>4 DEF SkipConnect, StartStream, Waiting, swarmVars, connVars, Alive
    <2>2. \A k \in Nodes : Alive(k)' => Alive(k)
      BY <1>1, <1>4, <2>1 DEF SkipConnect, StartStream, swarmVars, Alive, Busy, TypeOK
    <2>3. \A k, m \in Nodes : InQueue(k, Forget(m)) => InQueue(k, Forget(m))'
      BY <1>1, <1>2, <2>1, Popped
    <2> QED
      BY <2>1, <2>2, <2>3 DEF StaleQuiet, Stale
  <1>5. CASE SendStream(n)
    <2>1. swarm[n].at = "stream" /\ Loops(n) /\ UNCHANGED <<swarm_mpsc, connections, stage>>
      BY <1>5 DEF SendStream, connVars
    <2>2. \A k \in Nodes : Alive(k)' => Alive(k)
      BY <1>1, <2>1 DEF Loops, TypeOK, Alive
    <2> QED
      BY <2>1, <2>2 DEF StaleQuiet, Stale, InQueue
  <1>6. CASE OnDisconnect(n)
    <2>1. /\ swarm_mpsc[n] # <<>> /\ Pops(n) /\ UNCHANGED <<swarm, stage>>
          /\ connections' = [connections EXCEPT ![n][NextPeer(n)] = None]
      BY <1>6 DEF OnDisconnect, Waiting, connVars
    <2>2. \A k, l \in Nodes : connections'[k][l] = IF k = n /\ l = NextPeer(n) THEN None ELSE connections[k][l]
      BY <1>1, <2>1 DEF TypeOK
    <2>3. \A k, m \in Nodes : InQueue(k, Forget(m)) =>
              InQueue(k, Forget(m))' \/ (k = n /\ Forget(m) = Head(swarm_mpsc[n]))
      BY <1>1, <1>2, <2>1, Popped
    <2>4. \A k, m \in Nodes : Stale(k, m)' => Stale(k, m) /\ ~(k = n /\ m = NextPeer(n))
      BY <2>1, <2>2 DEF Stale
    <2>5. \A m \in Nodes : Forget(m) = Head(swarm_mpsc[n]) => m = NextPeer(n)
      BY <1>2 DEF NextPeer
    <2>6. \A k \in Nodes : Alive(k)' <=> Alive(k)
      BY <2>1 DEF Alive
    <2> QED
      BY <2>3, <2>4, <2>5, <2>6 DEF StaleQuiet
  <1>7. CASE FinishUpgrade(n)
    <2> DEFINE c == swarm[n].conn
               m == swarm[n].peer
    <2>1. /\ c \in Conns /\ m = Peer(n, c) /\ stage[n][c] = "upgrade"
          /\ stage' = [stage EXCEPT ![n][c] = "running"]
          /\ connections' = [connections EXCEPT ![n][m] = c]
          /\ Loops(n) \/ Busy(n, "stream", None, m)
          /\ UNCHANGED swarm_mpsc
          /\ swarm[n].at # "dead"
      BY <1>1, <1>7 DEF FinishUpgrade, update_peerstore, UpgradesOK, Upgrading
    <2> HIDE DEF c, m
    <2>2. \A k, l \in Nodes : connections'[k][l] = IF k = n /\ l = m THEN c ELSE connections[k][l]
      BY <1>1, <2>1 DEF TypeOK
    <2>3. \A k \in Nodes, d \in Conns : stage'[k][d] = IF k = n /\ d = c THEN "running" ELSE stage[k][d]
      BY <1>1, <2>1 DEF TypeOK
    <2>4. \A k \in Nodes : Alive(k)' => Alive(k)
      <3>1. CASE Loops(n)
        BY <1>1, <2>1, <3>1 DEF TypeOK, Loops, Alive
      <3>2. CASE Busy(n, "stream", None, m)
        BY <1>1, <2>1, <3>2 DEF TypeOK, Busy, Alive
      <3> QED
        BY <2>1, <3>1, <3>2
    <2>5. \A k, l \in Nodes : Stale(k, l)' => Stale(k, l)
      <3> SUFFICES ASSUME NEW k \in Nodes, NEW l \in Nodes, connections'[k][l] # None,
                          stage'[k][connections'[k][l]] = "ended"
                   PROVE  connections[k][l] # None /\ stage[k][connections[k][l]] = "ended"
        BY DEF Stale
      <3>1. connections'[k][l] \in Conns
        BY <1>1, <2>1, <2>2 DEF TypeOK
      <3>2. ~(k = n /\ connections'[k][l] = c)
        BY <2>1, <2>3
      <3>3. ~(k = n /\ l = m)
        BY <2>2, <3>2
      <3> QED
        BY <2>2, <2>3, <3>1, <3>2, <3>3
    <2>6. UNCHANGED swarm_mpsc
      BY <2>1
    <2> QED
      BY <2>4, <2>5, <2>6 DEF StaleQuiet, InQueue
  <1>8. CASE \E c \in Conns : Dial(n, c)
    <2> PICK c \in Conns : Dial(n, c)
      BY <1>8
    <2> DEFINE m == NextPeer(n)
               label == IF Head(swarm_mpsc[n]).op = "stream" THEN "upgradeThenStream" ELSE "upgrade"
    <2>1. /\ swarm_mpsc[n] # <<>> /\ Pops(n) /\ Busy(n, label, c, m)
          /\ stage' = [stage EXCEPT ![n][c] = "upgrade", ![m][c] = "pending"]
          /\ UNCHANGED connections
          /\ Head(swarm_mpsc[n]).op # "disconnect" /\ swarm[n].at # "dead"
      BY DEF Dial, Waiting
    <2>2. m \in Nodes
      BY <2>1, PopShape
    <2>3. \A k, l \in Nodes : InQueue(k, Forget(l)) => InQueue(k, Forget(l))'
      BY <1>1, <1>2, <2>1, Popped
    <2> HIDE DEF m, label
    <2>4. \A k \in Nodes, d \in Conns : stage'[k][d] \in {stage[k][d], "upgrade", "pending"}
      BY <1>1, <2>1, <2>2 DEF TypeOK
    <2>5. \A k \in Nodes : Alive(k)' => Alive(k)
      BY <1>1, <2>1 DEF TypeOK, Busy, Alive
    <2>6. \A k, l \in Nodes : Stale(k, l)' => Stale(k, l)
      BY <1>1, <2>1, <2>4 DEF Stale, TypeOK
    <2> QED
      BY <2>3, <2>5, <2>6 DEF StaleQuiet
  <1>9. CASE \E c \in Conns : Accept(n, c)
    <2> PICK c \in Conns : Accept(n, c)
      BY <1>9
    <2>1. /\ stage' = [stage EXCEPT ![n][c] = "upgrade"] /\ Busy(n, "upgrade", c, dialer[c])
          /\ UNCHANGED <<swarm_mpsc, connections>> /\ swarm[n].at # "dead"
      BY DEF Accept
    <2>2. \A k \in Nodes, d \in Conns : stage'[k][d] \in {stage[k][d], "upgrade"}
      BY <1>1, <2>1 DEF TypeOK
    <2>3. \A k \in Nodes : Alive(k)' => Alive(k)
      BY <1>1, <2>1 DEF TypeOK, Busy, Alive
    <2>4. \A k, l \in Nodes : Stale(k, l)' => Stale(k, l)
      BY <1>1, <2>1, <2>2 DEF Stale, TypeOK
    <2>5. UNCHANGED swarm_mpsc
      BY <2>1
    <2> QED
      BY <2>3, <2>4, <2>5 DEF StaleQuiet, InQueue
  <1> QED
    BY <1>3, <1>4, <1>5, <1>6, <1>7, <1>8, <1>9 DEF SwarmStep

(* A connection that ends makes its entry stale, and reports it.            *)
LEMMA StaleReports ==
    ASSUME Shape, StaleInv, NEW n \in Nodes, NEW c \in Conns, ConnReports(n, c)
    PROVE  StaleInv'
  <1>1. TypeOK /\ ConnsOK /\ EntriesOK
    BY DEF Shape
  <1>2. PICK p \in Nodes : p = Peer(n, c)
    BY <1>1 DEF ConnReports, ConnsOK, Peer
  <1>3. /\ stage' = [stage EXCEPT ![n][c] = "ended"]
        /\ UNCHANGED <<swarm, connections>>
        /\ \/ Alive(n) /\ Queue(n, "disconnect", p)
           \/ ~Alive(n) /\ UNCHANGED swarm_mpsc
    BY <1>2 DEF ConnReports, swarmVars
  <1>4. \A k \in Nodes, d \in Conns : stage'[k][d] = IF k = n /\ d = c THEN "ended" ELSE stage[k][d]
    BY <1>1, <1>3 DEF TypeOK
  <1>5. /\ \A m \in Nodes : Forget(m) \in Commands
        /\ Forget(p) = [op |-> "disconnect", peer |-> p]
    BY DEF Forget, Commands, Ops
  <1> SUFFICES ASSUME NEW k \in Nodes, NEW m \in Nodes, Alive(k)', Stale(k, m)'
               PROVE  InQueue(k, Forget(m))'
    BY DEF StaleInv
  <1>6. Alive(k)
    BY <1>3 DEF Alive
  <1>7. connections[k][m] \in Conns /\ stage'[k][connections[k][m]] = "ended"
    BY <1>1, <1>3 DEF Stale, TypeOK
  <1>8. CASE k = n /\ connections[k][m] = c
    <2>1. m = p
      BY <1>1, <1>2, <1>8, SwarmAssumption DEF EntriesOK
    <2>2. InQueue(n, Forget(p))'
      BY <1>1, <1>2, <1>3, <1>6, <1>8, <1>5, Queued DEF Ops
    <2> QED
      BY <1>8, <2>1, <2>2
  <1>9. CASE ~(k = n /\ connections[k][m] = c)
    <2>1. InQueue(k, Forget(m))
      BY <1>4, <1>6, <1>7, <1>9, SwarmAssumption DEF StaleInv, Stale
    <2>2. CASE UNCHANGED swarm_mpsc
      BY <2>1, <2>2 DEF InQueue
    <2>3. CASE Queue(n, "disconnect", p)
      BY <1>1, <1>2, <1>5, <2>1, <2>3, Queued DEF Ops
    <2> QED
      BY <1>3, <2>2, <2>3
  <1> QED
    BY <1>8, <1>9

(* Every step keeps the reports of the entries that are stale.              *)
LEMMA StaleStep == Shape /\ StaleInv /\ [Next]_vars => StaleInv'
  <1> SUFFICES ASSUME Shape, StaleInv, [Next]_vars PROVE StaleInv'
    OBVIOUS
  <1>1. TypeOK
    BY DEF Shape
  <1>2. ASSUME NEW call \in Calls, Call(call.node, call.op, call.peer) PROVE StaleInv'
    <2>1. /\ UNCHANGED <<swarm, connections, stage>>
          /\ Queue(call.node, call.op, call.peer)
      BY <1>2 DEF Call, swarmVars, connVars
    <2>2. call.node \in Nodes /\ call.op \in Ops /\ call.peer \in Nodes
      BY SwarmAssumption
    <2>3. \A m \in Nodes : Forget(m) \in Commands
      BY DEF Forget, Commands, Ops
    <2>4. \A k, m \in Nodes : InQueue(k, Forget(m)) => InQueue(k, Forget(m))'
      BY <1>1, <2>1, <2>2, <2>3, Queued
    <2>5. StaleQuiet
      BY <2>1, <2>4 DEF StaleQuiet, Alive, Stale
    <2> QED
      BY <2>5, StaleFrame
  <1>3. ASSUME NEW n \in Nodes, SwarmStep(n) PROVE StaleInv'
    BY <1>3, StaleSwarm, StaleFrame
  <1>4. ASSUME NEW n \in Nodes, NEW c \in Conns, ConnEnds(n, c) \/ ConnPanics(n, c) PROVE StaleInv'
    <2>1. PICK next \in {"reporting", "panicked"} : stage' = [stage EXCEPT ![n][c] = next]
      BY <1>4 DEF ConnEnds, ConnPanics
    <2>2. \A k \in Nodes, d \in Conns : stage'[k][d] \in {stage[k][d], "reporting", "panicked"}
      BY <1>1, <2>1 DEF TypeOK
    <2>3. UNCHANGED <<swarm, swarm_mpsc, connections>>
      BY <1>4 DEF ConnEnds, ConnPanics, swarmVars
    <2>4. \A k, m \in Nodes : connections'[k][m] = connections[k][m]
                             /\ connections[k][m] \in Conns \cup {None}
      BY <1>1, <2>3 DEF TypeOK
    <2>5. \A k, m \in Nodes : Stale(k, m)' => Stale(k, m)
      BY <2>2, <2>4 DEF Stale
    <2>6. StaleQuiet
      BY <2>3, <2>5 DEF StaleQuiet, Alive, InQueue
    <2> QED
      BY <2>6, StaleFrame
  <1>5. ASSUME NEW n \in Nodes, NEW c \in Conns, ConnReports(n, c) PROVE StaleInv'
    BY <1>5, StaleReports
  <1>6. ASSUME NEW c \in Conns, LinkLost(c) PROVE StaleInv'
    BY <1>6 DEF LinkLost, swarmVars, StaleInv, Alive, Stale, InQueue
  <1>7. CASE UNCHANGED vars
    BY <1>7 DEF vars, StaleInv, Alive, Stale, InQueue
  <1> QED
    BY <1>2, <1>3, <1>4, <1>5, <1>6, <1>7 DEF Next, ConnStep

(* The map names an ended connection only while a report about that peer is *)
(* queued: no entry outlives its connection for good (on_disconnect), unless *)
(* the connection's task panicked and so reports nothing.                    *)
THEOREM StaleEntriesLeave == Spec => []StaleEntriesReported
  <1>1. StaleInv => StaleEntriesReported
    BY DEF StaleInv, StaleEntriesReported, Stale, InQueue, Holds, Forget, is_peer_connected
  <1>2. Init => Shape /\ StaleInv
    BY ShapeInit DEF Init, StaleInv, Stale
  <1>3. Shape /\ StaleInv /\ [Next]_vars => Shape' /\ StaleInv'
    BY ShapeStep, StaleStep
  <1> QED
    BY <1>1, <1>2, <1>3, PTL DEF Spec
-----------------------------------------------------------------------------
(* One connection at a time.  Where calls go one way only, the dialer's map *)
(* names every connection of its that still runs: it dials only a peer it   *)
(* has no entry for, and an entry goes only when the one report of its      *)
(* connection is handled.  An application that disconnects breaks this, for *)
(* the entry goes and the connection stays.                                 *)
Dials(n, m) == \E call \in Calls : call.node = n /\ call.peer = m
OneWay == \A n, m \in Nodes : ~(Dials(n, m) /\ Dials(m, n))
NeverDisconnects == \A call \in Calls : call.op # "disconnect"

AtMostOnce(q, cmd) == \A i, j \in DOMAIN q : q[i] = cmd /\ q[j] = cmd => i = j

(* A connection whose task has yet to report its end. *)
Lasts(n, m, c) == Peer(n, c) = m /\ stage[n][c] \in {"running", "reporting"}

Asked ==
    /\ \A n \in Nodes, cmd \in Commands :
           InQueue(n, cmd) /\ cmd.op # "disconnect" => Dials(n, cmd.peer)
    /\ \A c \in Conns : link[c] # "unused" => Dials(dialer[c], listener[c])

Single(n, m) ==
    /\ \A c \in Conns : Lasts(n, m, c) => connections[n][m] = c
    /\ Upgrading(n) /\ swarm[n].peer = m => connections[n][m] = None
    /\ InQueue(n, Forget(m)) => Stale(n, m)
    /\ AtMostOnce(swarm_mpsc[n], Forget(m))

SingleInv == Asked /\ \A n, m \in Nodes : Dials(n, m) => Single(n, m)

(* A step that starts no upgrade to the peer, sends no report of it and     *)
(* leaves its entry, keeps it single.                                       *)
LEMMA SingleKept ==
    ASSUME Shape, NEW n \in Nodes, NEW m \in Nodes, Single(n, m),
           connections'[n][m] = connections[n][m],
           \A c \in Conns : Lasts(n, m, c)' => Lasts(n, m, c),
           Upgrading(n)' /\ swarm'[n].peer = m => connections[n][m] = None,
           InQueue(n, Forget(m))' => InQueue(n, Forget(m)),
           AtMostOnce(swarm_mpsc'[n], Forget(m)),
           \A c \in Conns : stage[n][c] = "ended" => stage'[n][c] = "ended"
    PROVE  Single(n, m)'
  <1>1. connections[n][m] \in Conns \cup {None}
    BY DEF Shape, TypeOK
  <1>2. Stale(n, m) => Stale(n, m)'
    BY <1>1 DEF Stale
  <1> QED
    BY <1>2 DEF Single

(* A queue that holds a command once holds it once when another is added,   *)
(* and no more when it is taken.                                            *)
LEMMA OnceAppend ==
    ASSUME NEW q \in Seq(Commands), NEW new \in Commands, NEW cmd,
           AtMostOnce(q, cmd), cmd # new \/ ~Holds(q, cmd)
    PROVE  AtMostOnce(Append(q, new), cmd)
  <1> DEFINE r == Append(q, new)
  <1>1. /\ Len(q) \in Nat /\ DOMAIN q = 1..Len(q) /\ DOMAIN r = 1..(Len(q) + 1)
        /\ r[Len(q) + 1] = new /\ \A i \in 1..Len(q) : r[i] = q[i]
    OBVIOUS
  <1> SUFFICES ASSUME NEW i \in DOMAIN r, NEW j \in DOMAIN r, r[i] = cmd, r[j] = cmd
               PROVE  i = j
    BY DEF AtMostOnce
  <1> HIDE DEF r
  <1>2. CASE cmd = new
    BY <1>1, <1>2 DEF Holds
  <1>3. CASE cmd # new
    BY <1>1, <1>3 DEF AtMostOnce
  <1> QED
    BY <1>2, <1>3

(* And here it is taken: the one that was there is gone.                    *)
LEMMA OnceTail ==
    ASSUME NEW q \in Seq(Commands), q # <<>>, NEW cmd, AtMostOnce(q, cmd)
    PROVE  /\ AtMostOnce(Tail(q), cmd)
           /\ cmd = Head(q) => ~Holds(Tail(q), cmd)
  <1> DEFINE r == Tail(q)
  <1>1. /\ Len(q) \in Nat \ {0} /\ DOMAIN q = 1..Len(q) /\ DOMAIN r = 1..(Len(q) - 1)
        /\ Head(q) = q[1] /\ \A i \in 1..(Len(q) - 1) : r[i] = q[i + 1]
    OBVIOUS
  <1> HIDE DEF r
  <1>2. ASSUME NEW i \in DOMAIN r, NEW j \in DOMAIN r, r[i] = cmd, r[j] = cmd PROVE i = j
    <2>1. i + 1 \in DOMAIN q /\ j + 1 \in DOMAIN q /\ q[i + 1] = cmd /\ q[j + 1] = cmd
      BY <1>1, <1>2
    <2>2. i + 1 = j + 1
      BY <2>1 DEF AtMostOnce
    <2> QED
      BY <1>1, <2>2
  <1>3. ASSUME cmd = Head(q), NEW i \in DOMAIN r, r[i] = cmd PROVE FALSE
    <2>1. i + 1 \in DOMAIN q /\ 1 \in DOMAIN q /\ q[i + 1] = cmd /\ q[1] = cmd
      BY <1>1, <1>3
    <2>2. i + 1 = 1
      BY <2>1 DEF AtMostOnce
    <2> QED
      BY <1>1, <2>2
  <1> QED
    BY <1>2, <1>3 DEF AtMostOnce, Holds, r

(* The same of the channel of a swarm, as commands are sent...              *)
LEMMA OnceQueued ==
    ASSUME TypeOK, NEW n \in Nodes, NEW op \in Ops, NEW p \in Nodes, Queue(n, op, p),
           NEW k \in Nodes, NEW m \in Nodes, AtMostOnce(swarm_mpsc[k], Forget(m)),
           k = n /\ Forget(m) = [op |-> op, peer |-> p] => ~InQueue(n, Forget(m))
    PROVE  AtMostOnce(swarm_mpsc'[k], Forget(m))
  <1>1. [op |-> op, peer |-> p] \in Commands /\ swarm_mpsc[n] \in Seq(Commands)
    BY DEF Commands, TypeOK
  <1>2. swarm_mpsc'[k] = IF k = n THEN Append(swarm_mpsc[n], [op |-> op, peer |-> p])
                         ELSE swarm_mpsc[k]
    BY DEF TypeOK, Queue
  <1>3. CASE k = n
    BY <1>1, <1>2, <1>3, OnceAppend DEF InQueue
  <1> QED
    BY <1>2, <1>3

(* ... as they are taken...                                                 *)
LEMMA OncePopped ==
    ASSUME TypeOK, NEW n \in Nodes, swarm_mpsc[n] # <<>>, Pops(n),
           NEW k \in Nodes, NEW m \in Nodes, AtMostOnce(swarm_mpsc[k], Forget(m))
    PROVE  /\ AtMostOnce(swarm_mpsc'[k], Forget(m))
           /\ k = n /\ Head(swarm_mpsc[n]) = Forget(m) => ~InQueue(n, Forget(m))'
  <1>1. swarm_mpsc[n] \in Seq(Commands)
    BY DEF TypeOK
  <1>2. swarm_mpsc'[k] = IF k = n THEN Tail(swarm_mpsc[n]) ELSE swarm_mpsc[k]
    BY DEF TypeOK, Pops
  <1>3. CASE k = n
    BY <1>1, <1>2, <1>3, OnceTail DEF InQueue
  <1> QED
    BY <1>2, <1>3

(* ... and as the swarm dies.                                               *)
LEMMA OnceDead ==
    ASSUME TypeOK, NEW n \in Nodes, Dies(n),
           NEW k \in Nodes, NEW m \in Nodes, AtMostOnce(swarm_mpsc[k], Forget(m))
    PROVE  AtMostOnce(swarm_mpsc'[k], Forget(m))
  <1>1. swarm_mpsc'[k] = IF k = n THEN <<>> ELSE swarm_mpsc[k]
    BY DEF TypeOK, Dies
  <1>2. DOMAIN <<>> = {}
    OBVIOUS
  <1>3. AtMostOnce(<<>>, Forget(m))
    BY <1>2 DEF AtMostOnce
  <1> QED
    BY <1>1, <1>3

(* Connections and queued commands still go where calls went.               *)
LEMMA AskedKept ==
    ASSUME Asked, UNCHANGED <<dialer, listener>>,
           \A n \in Nodes, cmd \in Commands : InQueue(n, cmd)' =>
               InQueue(n, cmd) \/ cmd.op = "disconnect" \/ Dials(n, cmd.peer),
           \A c \in Conns : link'[c] # "unused" => link[c] # "unused"
    PROVE  Asked'
  BY DEF Asked, Dials

(* A swarm that died has no commands and upgrades nothing.                  *)
LEMMA SingleDies ==
    ASSUME Shape, SingleInv, NEW n \in Nodes, Dies(n)
    PROVE  SingleInv'
  <1>1. TypeOK /\ ConnsOK /\ Asked
    BY DEF Shape, SingleInv
  <1>2. \A k \in Nodes, cmd \in Commands : InQueue(k, cmd)' => InQueue(k, cmd)
    BY <1>1, DeadQueue
  <1>3. \A c \in Conns : link[c] = "unused" => \A k \in Nodes : stage[k][c] = "none"
    BY <1>1 DEF ConnsOK
  <1>4. \A c \in Conns : link'[c] # "unused" => link[c] # "unused"
    BY <1>1, <1>3 DEF Dies
  <1>5. UNCHANGED <<dialer, listener, connections, stage>>
    BY DEF Dies
  <1>6. Asked'
    BY <1>1, <1>2, <1>4, <1>5, AskedKept
  <1>7. \A k \in Nodes : swarm'[k] = IF k = n THEN [Looping EXCEPT !.at = "dead"] ELSE swarm[k]
    BY <1>1 DEF TypeOK, Dies
  <1>8. \A k \in Nodes : Upgrading(k)' => Upgrading(k) /\ swarm'[k] = swarm[k]
    BY <1>7 DEF Upgrading, Looping
  <1> SUFFICES ASSUME NEW k \in Nodes, NEW m \in Nodes, Dials(k, m)
               PROVE  Single(k, m)'
    BY <1>6 DEF SingleInv, Dials
  <1>9. Single(k, m) /\ Forget(m) \in Commands
    BY DEF SingleInv, Forget, Commands, Ops
  <1>10. AtMostOnce(swarm_mpsc'[k], Forget(m))
    BY <1>1, <1>9, OnceDead DEF Single
  <1>11. Upgrading(k)' /\ swarm'[k].peer = m => connections[k][m] = None
    BY <1>8, <1>9 DEF Single
  <1>12. \A c \in Conns : Lasts(k, m, c)' => Lasts(k, m, c)
    BY <1>5 DEF Lasts, Peer
  <1> QED
    BY <1>2, <1>5, <1>9, <1>10, <1>11, <1>12, SingleKept

(* A command that changes no entry.                                         *)
LEMMA SingleCommand ==
    ASSUME Shape, SingleInv, NEW n \in Nodes,
           SkipConnect(n) \/ StartStream(n) \/ SendStream(n)
    PROVE  SingleInv'
  <1>1. TypeOK /\ Asked
    BY DEF Shape, SingleInv
  <1>2. /\ UNCHANGED <<dialer, listener, link, connections, stage>>
        /\ \/ swarm_mpsc[n] # <<>> /\ Pops(n)
           \/ UNCHANGED swarm_mpsc
        /\ \/ UNCHANGED swarm
           \/ Loops(n)
           \/ Busy(n, "stream", None, NextPeer(n))
    BY DEF SkipConnect, StartStream, SendStream, Waiting, swarmVars, connVars
  <1>3. \A k \in Nodes, cmd \in Commands : InQueue(k, cmd)' => InQueue(k, cmd)
    BY <1>1, <1>2, Popped DEF InQueue
  <1>4. Asked'
    BY <1>1, <1>2, <1>3, AskedKept
  <1>5. \A k \in Nodes : swarm'[k] = swarm[k] \/ swarm'[k].at \in {"loop", "stream"}
    <2>1. CASE Loops(n)
      BY <1>1, <2>1 DEF TypeOK, Loops, Looping
    <2>2. CASE Busy(n, "stream", None, NextPeer(n))
      BY <1>1, <2>2 DEF TypeOK, Busy
    <2> QED
      BY <1>2, <2>1, <2>2
  <1>6. \A k \in Nodes : Upgrading(k)' => Upgrading(k) /\ swarm'[k] = swarm[k]
    BY <1>5 DEF Upgrading
  <1> SUFFICES ASSUME NEW k \in Nodes, NEW m \in Nodes, Dials(k, m)
               PROVE  Single(k, m)'
    BY <1>4 DEF SingleInv, Dials
  <1>7. Single(k, m) /\ Forget(m) \in Commands
    BY DEF SingleInv, Forget, Commands, Ops
  <1>8. AtMostOnce(swarm_mpsc'[k], Forget(m))
    BY <1>1, <1>2, <1>7, OncePopped DEF Single
  <1>9. Upgrading(k)' /\ swarm'[k].peer = m => connections[k][m] = None
    BY <1>6, <1>7 DEF Single
  <1>10. \A c \in Conns : Lasts(k, m, c)' => Lasts(k, m, c)
    BY <1>2 DEF Lasts, Peer
  <1> QED
    BY <1>2, <1>3, <1>7, <1>8, <1>9, <1>10, SingleKept

(* The one report of a connection takes its entry with it. *)
LEMMA SingleForgets ==
    ASSUME Shape, SingleInv, NEW n \in Nodes, OnDisconnect(n)
    PROVE  SingleInv'
  <1>1. TypeOK /\ Asked
    BY DEF Shape, SingleInv
  <1>2. /\ swarm_mpsc[n] # <<>> /\ Pops(n)
        /\ connections' = [connections EXCEPT ![n][NextPeer(n)] = None]
        /\ UNCHANGED <<swarm, dialer, listener, link, stage>>
        /\ Head(swarm_mpsc[n]).op = "disconnect"
    BY DEF OnDisconnect, Waiting, connVars
  <1>3. /\ \A k \in Nodes, cmd \in Commands : InQueue(k, cmd)' => InQueue(k, cmd)
        /\ Head(swarm_mpsc[n]) \in Commands /\ InQueue(n, Head(swarm_mpsc[n]))
    BY <1>1, <1>2, Popped
  <1>4. NextPeer(n) \in Nodes /\ Head(swarm_mpsc[n]) = Forget(NextPeer(n))
    BY <1>2, <1>3 DEF NextPeer, Commands, Forget
  <1>5. \A k, l \in Nodes : connections'[k][l] = IF k = n /\ l = NextPeer(n) THEN None
                                                ELSE connections[k][l]
    BY <1>1, <1>2, <1>4 DEF TypeOK
  <1>6. Asked'
    BY <1>1, <1>2, <1>3, AskedKept
  <1> SUFFICES ASSUME NEW k \in Nodes, NEW m \in Nodes, Dials(k, m)
               PROVE  Single(k, m)'
    BY <1>6 DEF SingleInv, Dials
  <1>7. Single(k, m) /\ Forget(m) \in Commands
    BY DEF SingleInv, Forget, Commands, Ops
  <1>8. /\ AtMostOnce(swarm_mpsc'[k], Forget(m))
        /\ k = n /\ Head(swarm_mpsc[n]) = Forget(m) => ~InQueue(n, Forget(m))'
    BY <1>1, <1>2, <1>7, OncePopped DEF Single
  <1>9. \A c \in Conns : Lasts(k, m, c)' => Lasts(k, m, c)
    BY <1>2 DEF Lasts, Peer
  <1>10. CASE k = n /\ m = NextPeer(n)
    <2>1. Stale(k, m) /\ ~InQueue(k, Forget(m))' /\ connections'[k][m] = None
      BY <1>3, <1>4, <1>5, <1>7, <1>8, <1>10 DEF Single
    <2>2. ASSUME NEW c \in Conns, Lasts(k, m, c) PROVE FALSE
      BY <1>7, <2>1, <2>2 DEF Single, Lasts, Stale
    <2> QED
      BY <1>8, <1>9, <2>1, <2>2 DEF Single
  <1>11. CASE ~(k = n /\ m = NextPeer(n))
    <2>1. connections'[k][m] = connections[k][m]
      BY <1>5, <1>11
    <2>2. Upgrading(k)' /\ swarm'[k].peer = m => connections[k][m] = None
      BY <1>2, <1>7 DEF Single, Upgrading
    <2> QED
      BY <1>2, <1>3, <1>7, <1>8, <1>9, <2>1, <2>2, SingleKept
  <1> QED
    BY <1>10, <1>11

(* A dial goes to a peer without an entry, and so without a connection. *)
LEMMA SingleDial ==
    ASSUME Shape, SingleInv, NEW n \in Nodes, NEW c \in Conns, Dial(n, c)
    PROVE  SingleInv'
  <1>1. TypeOK /\ ConnsOK /\ Asked
    BY DEF Shape, SingleInv
  <1> DEFINE p == NextPeer(n)
             label == IF Head(swarm_mpsc[n]).op = "stream" THEN "upgradeThenStream" ELSE "upgrade"
  <1>2. /\ swarm_mpsc[n] # <<>> /\ Pops(n) /\ Busy(n, label, c, p)
        /\ Head(swarm_mpsc[n]).op # "disconnect"
        /\ connections[n][p] = None
        /\ link[c] = "unused"
        /\ dialer' = [dialer EXCEPT ![c] = n]
        /\ listener' = [listener EXCEPT ![c] = p]
        /\ link' = [link EXCEPT ![c] = "up"]
        /\ stage' = [stage EXCEPT ![n][c] = "upgrade", ![p][c] = "pending"]
        /\ UNCHANGED connections
    BY DEF Dial, Waiting, NeedsDial, is_peer_connected
  <1>3. /\ \A k \in Nodes, cmd \in Commands : InQueue(k, cmd)' => InQueue(k, cmd)
        /\ Head(swarm_mpsc[n]) \in Commands /\ InQueue(n, Head(swarm_mpsc[n]))
    BY <1>1, <1>2, Popped
  <1>4. p \in Nodes /\ p # n /\ Dials(n, p)
    BY <1>1, <1>2, <1>3, PopShape DEF Asked, NextPeer
  <1> HIDE DEF p, label
  <1>5. \A k \in Nodes : swarm'[k] = IF k = n THEN [at |-> label, conn |-> c, peer |-> p] ELSE swarm[k]
    BY <1>1, <1>2 DEF TypeOK, Busy
  <1>6. \A d \in Conns :
            /\ dialer'[d] = IF d = c THEN n ELSE dialer[d]
            /\ listener'[d] = IF d = c THEN p ELSE listener[d]
            /\ link'[d] = IF d = c THEN "up" ELSE link[d]
    BY <1>1, <1>2 DEF TypeOK
  <1>7. \A k \in Nodes, d \in Conns :
            /\ d # c => stage'[k][d] = stage[k][d]
            /\ stage'[k][c] \in {"none", "upgrade", "pending"}
    BY <1>1, <1>2, <1>4 DEF TypeOK, ConnsOK
  <1>8. Asked'
    BY <1>1, <1>3, <1>4, <1>6 DEF Asked, Dials
  <1> SUFFICES ASSUME NEW k \in Nodes, NEW m \in Nodes, Dials(k, m)
               PROVE  Single(k, m)'
    BY <1>8 DEF SingleInv, Dials
  <1>9. Single(k, m) /\ Forget(m) \in Commands
    BY DEF SingleInv, Forget, Commands, Ops
  <1>10. AtMostOnce(swarm_mpsc'[k], Forget(m))
    BY <1>1, <1>2, <1>9, OncePopped DEF Single
  <1>11. Upgrading(k)' /\ swarm'[k].peer = m => connections[k][m] = None
    BY <1>2, <1>5, <1>9 DEF Single, Upgrading
  <1>12. \A d \in Conns : Lasts(k, m, d)' => Lasts(k, m, d)
    BY <1>6, <1>7 DEF Lasts, Peer
  <1>13. \A d \in Conns : stage[k][d] = "ended" => stage'[k][d] = "ended"
    <2>1. stage[k][c] = "none"
      BY <1>1, <1>2 DEF ConnsOK
    <2> QED
      BY <1>7, <2>1
  <1> QED
    BY <1>2, <1>3, <1>9, <1>10, <1>11, <1>12, <1>13, SingleKept

(* What is accepted comes from a peer that is never dialled. *)
LEMMA SingleAccept ==
    ASSUME OneWay, Shape, SingleInv, NEW n \in Nodes, NEW c \in Conns, Accept(n, c)
    PROVE  SingleInv'
  <1>1. TypeOK /\ ConnsOK /\ Asked
    BY DEF Shape, SingleInv
  <1>2. /\ stage[n][c] = "pending" /\ listener[c] = n
        /\ stage' = [stage EXCEPT ![n][c] = "upgrade"] /\ Busy(n, "upgrade", c, dialer[c])
        /\ UNCHANGED <<swarm_mpsc, connections, dialer, listener, link>>
    BY DEF Accept
  <1>3. \A k \in Nodes, cmd \in Commands : InQueue(k, cmd)' => InQueue(k, cmd)
    BY <1>2 DEF InQueue
  <1>4. dialer[c] \in Nodes /\ Dials(dialer[c], n)
    BY <1>1, <1>2 DEF ConnsOK, Asked
  <1>5. \A k \in Nodes : swarm'[k] = IF k = n THEN [at |-> "upgrade", conn |-> c, peer |-> dialer[c]]
                                    ELSE swarm[k]
    BY <1>1, <1>2 DEF TypeOK, Busy
  <1>6. Asked'
    BY <1>1, <1>2, <1>3, AskedKept
  <1>7. \A k \in Nodes, d \in Conns : stage'[k][d] = IF k = n /\ d = c THEN "upgrade" ELSE stage[k][d]
    BY <1>1, <1>2 DEF TypeOK
  <1> SUFFICES ASSUME NEW k \in Nodes, NEW m \in Nodes, Dials(k, m)
               PROVE  Single(k, m)'
    BY <1>6 DEF SingleInv, Dials
  <1>8. Single(k, m) /\ Forget(m) \in Commands
    BY DEF SingleInv, Forget, Commands, Ops
  <1>9. AtMostOnce(swarm_mpsc'[k], Forget(m))
    BY <1>2, <1>8 DEF Single
  <1>10. ~(k = n /\ m = dialer[c])
    BY <1>4 DEF OneWay
  <1>11. Upgrading(k)' /\ swarm'[k].peer = m => connections[k][m] = None
    BY <1>5, <1>8, <1>10 DEF Single, Upgrading
  <1>12. \A d \in Conns : Lasts(k, m, d)' => Lasts(k, m, d)
    BY <1>2, <1>7 DEF Lasts, Peer
  <1>13. \A d \in Conns : stage[k][d] = "ended" => stage'[k][d] = "ended"
    BY <1>2, <1>7
  <1> QED
    BY <1>2, <1>3, <1>8, <1>9, <1>11, <1>12, <1>13, SingleKept

(* An upgrade ends: its peer had no entry, and so nothing that lasts.       *)
LEMMA SingleFinish ==
    ASSUME Shape, SingleInv, NEW n \in Nodes, FinishUpgrade(n)
    PROVE  SingleInv'
  <1>1. TypeOK /\ ConnsOK /\ UpgradesOK /\ Asked
    BY DEF Shape, SingleInv
  <1> DEFINE c == swarm[n].conn
             p == swarm[n].peer
  <1>2. /\ Upgrading(n) /\ c \in Conns /\ p = Peer(n, c) /\ stage[n][c] = "upgrade"
        /\ stage' = [stage EXCEPT ![n][c] = "running"]
        /\ connections' = [connections EXCEPT ![n][p] = c]
        /\ Loops(n) \/ Busy(n, "stream", None, p)
        /\ UNCHANGED <<swarm_mpsc, dialer, listener, link>>
    BY <1>1 DEF FinishUpgrade, update_peerstore, UpgradesOK, Upgrading
  <1>3. p \in Nodes
    BY <1>1, <1>2 DEF ConnsOK, Peer
  <1>4. \A k \in Nodes, cmd \in Commands : InQueue(k, cmd)' => InQueue(k, cmd)
    BY <1>2 DEF InQueue
  <1>5. \A k \in Nodes : swarm'[k] = swarm[k] \/ (k = n /\ swarm'[k].at \in {"loop", "stream"})
    <2>1. CASE Loops(n)
      BY <1>1, <2>1 DEF TypeOK, Loops, Looping
    <2>2. CASE Busy(n, "stream", None, p)
      BY <1>1, <2>2 DEF TypeOK, Busy
    <2> QED
      BY <1>2, <2>1, <2>2
  <1>6. Asked'
    BY <1>1, <1>2, <1>4, AskedKept
  <1>7. Dials(n, p) => connections[n][p] = None
    BY <1>2, <1>3 DEF SingleInv, Single
  <1> HIDE DEF c, p
  <1>8. \A k \in Nodes, d \in Conns : stage'[k][d] = IF k = n /\ d = c THEN "running" ELSE stage[k][d]
    BY <1>1, <1>2 DEF TypeOK
  <1>9. \A k, l \in Nodes : connections'[k][l] = IF k = n /\ l = p THEN c ELSE connections[k][l]
    BY <1>1, <1>2, <1>3 DEF TypeOK
  <1> SUFFICES ASSUME NEW k \in Nodes, NEW m \in Nodes, Dials(k, m)
               PROVE  Single(k, m)'
    BY <1>6 DEF SingleInv, Dials
  <1>10. Single(k, m) /\ Forget(m) \in Commands
    BY DEF SingleInv, Forget, Commands, Ops
  <1>11. AtMostOnce(swarm_mpsc'[k], Forget(m))
    BY <1>2, <1>10 DEF Single
  <1>12. Upgrading(k)' => k # n /\ Upgrading(k) /\ swarm'[k] = swarm[k]
    <2>1. ~Upgrading(n)'
      <3>1. CASE Loops(n)
        BY <1>1, <3>1 DEF TypeOK, Loops, Looping, Upgrading
      <3>2. CASE Busy(n, "stream", None, p)
        BY <1>1, <3>2 DEF TypeOK, Busy, Upgrading
      <3> QED
        BY <1>2, <3>1, <3>2
    <2> QED
      BY <1>5, <2>1 DEF Upgrading
  <1>13. \A d \in Conns : Lasts(k, m, d)' => Lasts(k, m, d) \/ (k = n /\ m = p /\ d = c)
    BY <1>2, <1>8 DEF Lasts, Peer
  <1>14. \A d \in Conns : stage[k][d] = "ended" => stage'[k][d] = "ended"
    BY <1>2, <1>8
  <1>15. CASE k = n /\ m = p
    <2>1. connections[k][m] = None /\ connections'[k][m] = c
      BY <1>9, <1>15, <1>7
    <2>2. ~InQueue(k, Forget(m))'
      BY <1>4, <1>10, <2>1 DEF Single, Stale
    <2>3. \A d \in Conns : Lasts(k, m, d)' => d = c
      BY <1>10, <1>13, <2>1, SwarmAssumption DEF Single
    <2> QED
      BY <1>11, <1>12, <1>15, <2>1, <2>2, <2>3 DEF Single
  <1>16. CASE ~(k = n /\ m = p)
    <2>1. connections'[k][m] = connections[k][m]
      BY <1>9, <1>16
    <2>2. Upgrading(k)' /\ swarm'[k].peer = m => connections[k][m] = None
      BY <1>10, <1>12 DEF Single
    <2>3. \A d \in Conns : Lasts(k, m, d)' => Lasts(k, m, d)
      BY <1>13, <1>16
    <2> QED
      BY <1>4, <1>10, <1>11, <1>14, <2>1, <2>2, <2>3, SingleKept
  <1> QED
    BY <1>15, <1>16

(* A connection stops running: its entry stays until it reports.            *)
LEMMA SingleConn ==
    ASSUME Shape, SingleInv, NEW n \in Nodes, NEW c \in Conns,
           ConnEnds(n, c) \/ ConnPanics(n, c) \/ LinkLost(c)
    PROVE  SingleInv'
  <1>1. TypeOK /\ Asked
    BY DEF Shape, SingleInv
  <1>2. UNCHANGED <<swarm, swarm_mpsc, connections, dialer, listener>>
    BY DEF ConnEnds, ConnPanics, LinkLost, swarmVars
  <1>3. \A k \in Nodes, d \in Conns :
            \/ stage'[k][d] = stage[k][d]
            \/ stage[k][d] = "running" /\ stage'[k][d] \in {"reporting", "panicked"}
    BY <1>1 DEF TypeOK, ConnEnds, ConnPanics, LinkLost
  <1>4. \A d \in Conns : link'[d] # "unused" => link[d] # "unused"
    BY <1>1 DEF TypeOK, ConnEnds, ConnPanics, LinkLost, Shape, ConnsOK
  <1>5. \A k \in Nodes, cmd \in Commands : InQueue(k, cmd)' => InQueue(k, cmd)
    BY <1>2 DEF InQueue
  <1>6. Asked'
    BY <1>1, <1>2, <1>4, <1>5, AskedKept
  <1> SUFFICES ASSUME NEW k \in Nodes, NEW m \in Nodes, Dials(k, m)
               PROVE  Single(k, m)'
    BY <1>6 DEF SingleInv, Dials
  <1>7. Single(k, m) /\ Forget(m) \in Commands
    BY DEF SingleInv, Forget, Commands, Ops
  <1>8. AtMostOnce(swarm_mpsc'[k], Forget(m))
    BY <1>2, <1>7 DEF Single
  <1>9. Upgrading(k)' /\ swarm'[k].peer = m => connections[k][m] = None
    BY <1>2, <1>7 DEF Single, Upgrading
  <1>10. \A d \in Conns : Lasts(k, m, d)' => Lasts(k, m, d)
    BY <1>2, <1>3 DEF Lasts, Peer
  <1>11. \A d \in Conns : stage[k][d] = "ended" => stage'[k][d] = "ended"
    BY <1>3
  <1> QED
    BY <1>2, <1>5, <1>7, <1>8, <1>9, <1>10, <1>11, SingleKept

(* A connection that reports still has its entry: the report is the first. *)
LEMMA SingleReports ==
    ASSUME Shape, SingleInv, NEW n \in Nodes, NEW c \in Conns, ConnReports(n, c)
    PROVE  SingleInv'
  <1>1. TypeOK /\ ConnsOK /\ Asked
    BY DEF Shape, SingleInv
  <1>2. PICK p \in Nodes : p = Peer(n, c)
    BY <1>1 DEF ConnReports, ConnsOK, Peer
  <1>3. /\ stage[n][c] = "reporting"
        /\ stage' = [stage EXCEPT ![n][c] = "ended"]
        /\ UNCHANGED <<swarm, connections, dialer, listener, link>>
        /\ Queue(n, "disconnect", p) \/ UNCHANGED swarm_mpsc
    BY <1>2 DEF ConnReports, swarmVars
  <1>4. \A k \in Nodes, d \in Conns : stage'[k][d] = IF k = n /\ d = c THEN "ended" ELSE stage[k][d]
    BY <1>1, <1>3 DEF TypeOK
  <1>5. \A k \in Nodes, cmd \in Commands :
            InQueue(k, cmd)' => InQueue(k, cmd) \/ (k = n /\ cmd = Forget(p))
    <2>1. CASE Queue(n, "disconnect", p)
      <3>1. "disconnect" \in Ops /\ Forget(p) = [op |-> "disconnect", peer |-> p]
        BY DEF Ops, Forget
      <3> QED
        BY <1>1, <2>1, <3>1, Queued
    <2>2. CASE UNCHANGED swarm_mpsc
      BY <2>2 DEF InQueue
    <2> QED
      BY <1>3, <2>1, <2>2
  <1>6. Forget(p).op = "disconnect" /\ \A m \in Nodes : Forget(m) = Forget(p) => m = p
    BY DEF Forget
  <1>7. Asked'
    BY <1>1, <1>3, <1>5, <1>6, AskedKept
  <1> SUFFICES ASSUME NEW k \in Nodes, NEW m \in Nodes, Dials(k, m)
               PROVE  Single(k, m)'
    BY <1>7 DEF SingleInv, Dials
  <1>8. Single(k, m) /\ Forget(m) \in Commands
    BY DEF SingleInv, Forget, Commands, Ops
  <1>9. k = n /\ m = p => connections[k][m] = c /\ ~InQueue(n, Forget(m))
    BY <1>2, <1>3, <1>8 DEF Single, Lasts, Stale
  <1>10. AtMostOnce(swarm_mpsc'[k], Forget(m))
    <2>1. CASE Queue(n, "disconnect", p)
      BY <1>1, <1>8, <1>6, <1>9, <2>1, OnceQueued DEF Single, Ops, Forget
    <2>2. CASE UNCHANGED swarm_mpsc
      BY <1>8, <2>2 DEF Single
    <2> QED
      BY <1>3, <2>1, <2>2
  <1>11. Upgrading(k)' /\ swarm'[k].peer = m => connections[k][m] = None
    BY <1>3, <1>8 DEF Single, Upgrading
  <1>12. \A d \in Conns : Lasts(k, m, d)' => Lasts(k, m, d)
    BY <1>3, <1>4 DEF Lasts, Peer
  <1>13. \A d \in Conns : stage[k][d] = "ended" => stage'[k][d] = "ended"
    BY <1>4
  <1>14. CASE k = n /\ m = p
    <2>1. connections'[k][m] = c /\ Stale(k, m)'
      BY <1>3, <1>4, <1>14, <1>9, SwarmAssumption DEF Stale
    <2>2. \A d \in Conns : Lasts(k, m, d)' => connections'[k][m] = d
      BY <1>8, <1>12, <1>14, <1>9, <2>1 DEF Single
    <2>3. (Upgrading(k)' /\ swarm'[k].peer = m) => connections'[k][m] = None
      BY <1>3, <1>11
    <2> QED
      BY <1>10, <2>1, <2>2, <2>3 DEF Single
  <1>15. CASE ~(k = n /\ m = p)
    <2>1. InQueue(k, Forget(m))' => InQueue(k, Forget(m))
      BY <1>5, <1>8, <1>6, <1>15
    <2> QED
      BY <1>3, <1>8, <1>10, <1>11, <1>12, <1>13, <2>1, SingleKept
  <1> QED
    BY <1>14, <1>15

(* An application that does not disconnect adds no report.                  *)
LEMMA SingleCall ==
    ASSUME NeverDisconnects, Shape, SingleInv, NEW call \in Calls,
           Call(call.node, call.op, call.peer)
    PROVE  SingleInv'
  <1>1. TypeOK /\ Asked
    BY DEF Shape, SingleInv
  <1> DEFINE n == call.node
             p == call.peer
             op == call.op
  <1>2. n \in Nodes /\ p \in Nodes /\ op \in Ops /\ op # "disconnect" /\ Dials(n, p)
    BY SwarmAssumption DEF NeverDisconnects, Dials
  <1>3. /\ Queue(n, op, p)
        /\ UNCHANGED <<swarm, connections, dialer, listener, link, stage>>
    BY DEF Call, swarmVars, connVars
  <1> HIDE DEF n, p, op
  <1>4. \A k \in Nodes, cmd \in Commands :
            InQueue(k, cmd)' => InQueue(k, cmd) \/ (k = n /\ cmd = [op |-> op, peer |-> p])
    BY <1>1, <1>2, <1>3, Queued
  <1>5. \A m \in Nodes : Forget(m) # [op |-> op, peer |-> p]
    BY <1>2 DEF Forget
  <1>6. Asked'
    BY <1>1, <1>2, <1>3, <1>4, AskedKept
  <1> SUFFICES ASSUME NEW k \in Nodes, NEW m \in Nodes, Dials(k, m)
               PROVE  Single(k, m)'
    BY <1>6 DEF SingleInv, Dials
  <1>7. Single(k, m) /\ Forget(m) \in Commands
    BY DEF SingleInv, Forget, Commands, Ops
  <1>8. AtMostOnce(swarm_mpsc'[k], Forget(m))
    BY <1>1, <1>2, <1>3, <1>5, <1>7, OnceQueued DEF Single
  <1>9. Upgrading(k)' /\ swarm'[k].peer = m => connections[k][m] = None
    BY <1>3, <1>7 DEF Single, Upgrading
  <1>10. \A d \in Conns : Lasts(k, m, d)' => Lasts(k, m, d)
    BY <1>3 DEF Lasts, Peer
  <1>11. InQueue(k, Forget(m))' => InQueue(k, Forget(m))
    BY <1>4, <1>5, <1>7
  <1> QED
    BY <1>3, <1>7, <1>8, <1>9, <1>10, <1>11, SingleKept

(* Every step keeps the dialer's entries single.                            *)
LEMMA SingleStep ==
    ASSUME OneWay, NeverDisconnects, Shape, SingleInv, [Next]_vars
    PROVE  SingleInv'
  <1>1. ASSUME NEW call \in Calls, Call(call.node, call.op, call.peer) PROVE SingleInv'
    BY <1>1, SingleCall
  <1>2. ASSUME NEW n \in Nodes, SwarmStep(n) PROVE SingleInv'
    <2>1. CASE DialRefused(n) \/ StreamFails(n) \/ DisconnectUnknown(n) \/ UpgradeFails(n)
      BY <2>1, SingleDies DEF DialRefused, StreamFails, DisconnectUnknown, UpgradeFails
    <2>2. CASE SkipConnect(n) \/ StartStream(n) \/ SendStream(n)
      BY <2>2, SingleCommand
    <2>3. ASSUME NEW c \in Conns, Dial(n, c) \/ Accept(n, c) PROVE SingleInv'
      BY <2>3, SingleDial, SingleAccept
    <2>4. CASE OnDisconnect(n) \/ FinishUpgrade(n)
      BY <2>4, SingleForgets, SingleFinish
    <2> QED
      BY <1>2, <2>1, <2>2, <2>3, <2>4 DEF SwarmStep
  <1>3. ASSUME NEW n \in Nodes, NEW c \in Conns, ConnStep(n, c) \/ ConnPanics(n, c)
        PROVE  SingleInv'
    BY <1>3, SingleConn, SingleReports DEF ConnStep
  <1>4. ASSUME NEW c \in Conns, LinkLost(c) PROVE SingleInv'
    <2>1. CASE \E n : n \in Nodes
      BY <1>4, <2>1, SingleConn
    <2>2. CASE ~\E n : n \in Nodes
      <3>1. ~\E call : call \in Calls
        BY <2>2, SwarmAssumption
      <3>2. \A n, m : ~Dials(n, m)
        BY <3>1 DEF Dials
      <3>3. link[c] = "unused"
        BY <3>2 DEF SingleInv, Asked
      <3> QED
        BY <1>4, <3>3 DEF LinkLost
    <2> QED
      BY <2>1, <2>2
  <1>5. CASE UNCHANGED vars
    BY <1>5 DEF vars, SingleInv, Asked, Single, Dials, InQueue, Upgrading, Stale, Lasts, Peer
  <1> QED
    BY <1>1, <1>2, <1>3, <1>4, <1>5 DEF Next

(* At the start nothing has been dialled.                                   *)
LEMMA SingleInit == Init => SingleInv
  <1> SUFFICES ASSUME Init PROVE SingleInv
    OBVIOUS
  <1>1. DOMAIN <<>> = {}
    OBVIOUS
  <1>2. \A n \in Nodes : swarm_mpsc[n] = <<>>
    BY DEF Init
  <1>3. \A n \in Nodes : \A cmd : ~InQueue(n, cmd) /\ AtMostOnce(swarm_mpsc[n], cmd)
    BY <1>1, <1>2 DEF InQueue, Holds, AtMostOnce
  <1>4. Asked
    BY <1>3 DEF Init, Asked
  <1>5. \A n, m \in Nodes, c \in Conns : ~Lasts(n, m, c)
    BY DEF Init, Lasts
  <1>6. \A n \in Nodes : ~Upgrading(n)
    BY DEF Init, Upgrading, Looping
  <1> QED
    BY <1>3, <1>4, <1>5, <1>6 DEF SingleInv, Single

(* Two live connections of the same two nodes were both dialled by the one  *)
(* that dials, whose map has one entry for the other.                       *)
LEMMA SingleLive == Shape /\ SingleInv /\ OneWay => NoDuplicateConnections
  <1> SUFFICES ASSUME Shape, SingleInv, OneWay, NEW c \in Conns, NEW d \in Conns,
                      Live(c), Live(d), Ends(c) = Ends(d)
               PROVE  c = d
    BY DEF NoDuplicateConnections
  <1> DEFINE n == dialer[c]
             m == listener[c]
  <1>1. /\ n \in Nodes /\ m \in Nodes /\ n # m /\ Dials(n, m)
        /\ dialer[d] # listener[d] /\ Dials(dialer[d], listener[d])
    BY DEF Shape, ConnsOK, SingleInv, Asked, Live
  <1>2. dialer[d] = n /\ listener[d] = m
    BY <1>1 DEF Ends, OneWay, Shape, ConnsOK, Live
  <1>3. Lasts(n, m, c) /\ Lasts(n, m, d)
    BY <1>1, <1>2 DEF Lasts, Peer, Live
  <1>4. connections[n][m] = c /\ connections[n][m] = d
    BY <1>1, <1>3 DEF SingleInv, Single
  <1> QED
    BY <1>4

(* Two nodes never hold two live connections to each other (connect and the *)
(* select! of initiate), as long as only one of them asks for connections   *)
(* or streams and no application disconnects a peer: connections may fail   *)
(* and their tasks panic at any time.                                       *)
THEOREM OneConnectionEach ==
    ASSUME OneWay, NeverDisconnects
    PROVE  Spec => []NoDuplicateConnections
  <1>1. Init => Shape /\ SingleInv
    BY ShapeInit, SingleInit
  <1>2. Shape /\ SingleInv /\ [Next]_vars => Shape' /\ SingleInv'
    BY ShapeStep, SingleStep
  <1>3. Shape /\ SingleInv => NoDuplicateConnections
    BY SingleLive
  <1> QED
    BY <1>1, <1>2, <1>3, PTL DEF Spec
=============================================================================
