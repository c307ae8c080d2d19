----------------------------- MODULE UdpProofs -----------------------------
(***************************************************************************)
(* Safety theorems of Udp, for any number of nodes and connections, any    *)
(* calls, any capacity of the channels, and a network that loses what it   *)
(* likes.                                                                   *)
(***************************************************************************)
EXTENDS Udp, SequenceTheorems, TLAPS

-----------------------------------------------------------------------------
(* Functions and queues. *)

(* A value put for a pair of indices.                                       *)
LEMMA PutFacts ==
    ASSUME NEW A, NEW B, NEW S, NEW F \in [A -> [B -> S]], NEW G,
           NEW a \in A, NEW b \in B, NEW v \in S, G = [F EXCEPT ![a][b] = v]
    PROVE  /\ G \in [A -> [B -> S]] /\ G[a][b] = v
           /\ \A y \in B : y # b => G[a][y] = F[a][y]
           /\ \A x \in A : x # a => G[x] = F[x]
<1>1. F[a] \in [B -> S]
    OBVIOUS
<1>2. G = [F EXCEPT ![a] = [F[a] EXCEPT ![b] = v]]
    OBVIOUS
<1>3. G[a] = [F[a] EXCEPT ![b] = v] /\ \A x \in A : x # a => G[x] = F[x]
    BY <1>2
<1>4. G[a] \in [B -> S] /\ G[a][b] = v /\ \A y \in B : y # b => G[a][y] = F[a][y]
    BY <1>1, <1>3
<1> QED BY <1>2, <1>3, <1>4

(* A value put for one index.                                               *)
LEMMA SetFacts ==
    ASSUME NEW A, NEW S, NEW F \in [A -> S], NEW G,
           NEW a \in A, NEW v \in S, G = [F EXCEPT ![a] = v]
    PROVE  G \in [A -> S] /\ G[a] = v /\ \A x \in A : x # a => G[x] = F[x]
OBVIOUS

Holds(q, x) == \E i \in DOMAIN q : q[i] = x

(* A queue with one element more.                                           *)
LEMMA AppendFacts ==
    ASSUME NEW S, NEW q \in Seq(S), NEW v \in S
    PROVE  /\ Append(q, v) \in Seq(S) /\ Len(Append(q, v)) = Len(q) + 1 /\ Len(q) \in Nat
           /\ \A x : Holds(Append(q, v), x) <=> Holds(q, x) \/ x = v
<1> DEFINE r == Append(q, v)
<1>1. /\ Len(q) \in Nat /\ DOMAIN q = 1..Len(q) /\ DOMAIN r = 1..(Len(q) + 1)
      /\ r[Len(q) + 1] = v /\ \A i \in 1..Len(q) : r[i] = q[i]
    OBVIOUS
<1>2. DOMAIN r = DOMAIN q \cup {Len(q) + 1} /\ \A i \in DOMAIN q : r[i] = q[i]
    BY <1>1
<1>3. r \in Seq(S) /\ Len(r) = Len(q) + 1
    OBVIOUS
<1> HIDE DEF r
<1>4. \A x : Holds(r, x) <=> Holds(q, x) \/ x = v
    BY <1>1, <1>2 DEF Holds
<1> QED BY <1>1, <1>3, <1>4 DEF r

(* A queue without its first element.                                       *)
LEMMA TailFacts ==
    ASSUME NEW S, NEW q \in Seq(S), q # <<>>
    PROVE  /\ Head(q) \in S /\ Holds(q, Head(q)) /\ Tail(q) \in Seq(S)
           /\ Len(Tail(q)) \in Nat /\ Len(q) \in Nat /\ Len(Tail(q)) =< Len(q)
           /\ \A x : Holds(Tail(q), x) => Holds(q, x)
<1> DEFINE r == Tail(q)
<1>1. Len(q) \in Nat \ {0} /\ DOMAIN q = 1..Len(q) /\ Head(q) = q[1]
    BY EmptySeq
<1>2. /\ r \in Seq(S) /\ Len(r) = Len(q) - 1 /\ DOMAIN r = 1..(Len(q) - 1)
      /\ \A i \in 1..(Len(q) - 1) : r[i] = q[i + 1]
    BY <1>1
<1>3. \A i \in DOMAIN r : i + 1 \in DOMAIN q /\ r[i] = q[i + 1]
    BY <1>1, <1>2
<1>4. 1 \in DOMAIN q /\ q[1] \in S /\ Len(r) \in Nat /\ Len(r) =< Len(q)
    BY <1>1, <1>2
<1> HIDE DEF r
<1>5. \A x : Holds(r, x) => Holds(q, x)
    BY <1>3 DEF Holds
<1>6. Holds(q, Head(q))
    BY <1>1, <1>4 DEF Holds
<1> QED BY <1>1, <1>2, <1>4, <1>5, <1>6 DEF r

(* An empty queue.                                                          *)
LEMMA EmptyFacts ==
    /\ \A x : ~Holds(<<>>, x)
    /\ \A S : <<>> \in Seq(S)
    /\ Len(<<>>) = 0
<1>1. DOMAIN <<>> = {}
    OBVIOUS
<1> QED BY <1>1 DEF Holds

-----------------------------------------------------------------------------
(* The type invariant, a variable at a time. *)

Ios == [at : IoLabels, from : Nodes \cup {None}, packet : Packets \cup {None}]
Swarms == [at : SwarmLabels, conn : Handles \cup {None}, peer : Nodes \cup {None}]
Conns == [peer : Nodes \cup {None}, dialed : BOOLEAN, at : ConnLabels,
          hand : MuxFrames \cup {None}, check : CheckLabels, answers : 0..QueueCap]
Maps == [Nodes -> [Nodes -> Handles \cup {None}]]

IoT == io \in [Nodes -> Ios]
NetT == net \in [Nodes -> [Nodes -> Seq(Packets)]] /\ \A n, m \in Nodes : Len(net[n][m]) =< NetCap
WriteT == write_req \in [Nodes -> Seq(Frames)] /\ \A n \in Nodes : Len(write_req[n]) =< QueueCap
NewT == new_peer \in [Nodes -> Seq(Nodes)] /\ \A n \in Nodes : Len(new_peer[n]) =< QueueCap
SwarmT == swarm \in [Nodes -> Swarms]
ConnT == conn \in [Nodes -> [Handles -> Conns]]
InboxT == /\ inbox \in [Nodes -> [Handles -> Seq(Payloads)]]
          /\ \A n \in Nodes, k \in Handles : Len(inbox[n][k]) =< QueueCap
MuxT == /\ mux \in [Nodes -> [Handles -> Seq(MuxFrames)]]
        /\ \A n \in Nodes, k \in Handles : Len(mux[n][k]) =< QueueCap
CountT == /\ ping_check \in PingChecks
          /\ calls \in [Nodes -> 0..MaxCalls[ping_check]]
          /\ sends \in [Nodes -> [Handles -> Nat]]
          /\ \A n \in Nodes, k \in Handles : sends[n][k] =< MaxSends[ping_check]
          /\ disturbed \subseteq {"lost", "timeout", "disconnect"}

(* The type invariant is the type of every variable.                        *)
LEMMA TypeParts ==
    TypeOK <=> /\ IoT /\ NetT /\ WriteT /\ NewT /\ SwarmT /\ ConnT /\ InboxT /\ MuxT /\ CountT
               /\ peerstore \in Maps /\ connections \in Maps
BY DEF TypeOK, IoT, NetT, WriteT, NewT, SwarmT, ConnT, InboxT, MuxT, CountT, Maps, Ios,
       Swarms, Conns

(* Where the variables that count or remember stay, so does their type.     *)
LEMMA SameTypes ==
    /\ (IoT /\ UNCHANGED io) => IoT'
    /\ (NetT /\ UNCHANGED net) => NetT'
    /\ (WriteT /\ UNCHANGED write_req) => WriteT'
    /\ (NewT /\ UNCHANGED new_peer) => NewT'
    /\ (SwarmT /\ UNCHANGED swarm) => SwarmT'
    /\ (ConnT /\ UNCHANGED conn) => ConnT'
    /\ (InboxT /\ UNCHANGED inbox) => InboxT'
    /\ (MuxT /\ UNCHANGED mux) => MuxT'
    /\ (CountT /\ UNCHANGED <<ping_check, calls, sends, disturbed>>) => CountT'
BY DEF IoT, NetT, WriteT, NewT, SwarmT, ConnT, InboxT, MuxT, CountT

(* A step keeps the types if each variable stays or gets a value of it.      *)
LEMMA TypeKept ==
    ASSUME TypeOK, IoT' \/ UNCHANGED io, NetT' \/ UNCHANGED net,
           WriteT' \/ UNCHANGED write_req, NewT' \/ UNCHANGED new_peer,
           SwarmT' \/ UNCHANGED swarm, ConnT' \/ UNCHANGED conn,
           InboxT' \/ UNCHANGED inbox, MuxT' \/ UNCHANGED mux,
           CountT' \/ UNCHANGED <<ping_check, calls, sends, disturbed>>,
           peerstore' \in Maps \/ UNCHANGED peerstore,
           connections' \in Maps \/ UNCHANGED connections
    PROVE  TypeOK'
<1>1. IoT' /\ NetT' /\ WriteT' /\ NewT' /\ SwarmT' /\ ConnT' /\ InboxT' /\ MuxT' /\ CountT'
    BY TypeParts, SameTypes
<1>2. peerstore' \in Maps /\ connections' \in Maps
    BY TypeParts
<1> QED BY <1>1, <1>2 DEF TypeOK, IoT, NetT, WriteT, NewT, SwarmT, ConnT, InboxT, MuxT, CountT,
                          Maps, Ios, Swarms, Conns

(* The constants.                                                           *)
LEMMA Constants ==
    /\ None \notin Handles /\ None \notin Nodes
    /\ QueueCap \in Nat /\ NetCap \in Nat
    /\ ping_check \in PingChecks => MaxCalls[ping_check] \in Nat /\ MaxSends[ping_check] \in Nat
<1>1. PingChecks \subseteq BOOLEAN /\ MaxCalls \in [BOOLEAN -> Nat] /\ MaxSends \in [BOOLEAN -> Nat]
    BY UdpAssumption
<1>2. None \notin Handles /\ None \notin Nodes /\ QueueCap \in Nat /\ NetCap \in Nat
    BY UdpAssumption
<1> QED BY <1>1, <1>2

-----------------------------------------------------------------------------
(* What a step does to one variable. *)

Fewer(q, r) == \A x : Holds(q, x) => Holds(r, x)

IoBecomes(n, v) == IoT' /\ io'[n] = v /\ \A x \in Nodes : x # n => io'[x] = io[x]
SwarmBecomes(n, v) == SwarmT' /\ swarm'[n] = v /\ \A x \in Nodes : x # n => swarm'[x] = swarm[x]
ConnBecomes(n, k, c) ==
    /\ ConnT' /\ conn'[n][k] = c
    /\ \A j \in Handles : j # k => conn'[n][j] = conn[n][j]
    /\ \A x \in Nodes : x # n => conn'[x] = conn[x]
StoreBecomes(n, m, v) ==
    /\ peerstore' \in Maps /\ peerstore'[n][m] = v
    /\ \A y \in Nodes : y # m => peerstore'[n][y] = peerstore[n][y]
    /\ \A x \in Nodes : x # n => peerstore'[x] = peerstore[x]

(* The I/O task of a node moves.                                            *)
LEMMA IoSet ==
    ASSUME IoT, NEW n \in Nodes, NEW v \in Ios, io' = [io EXCEPT ![n] = v]
    PROVE  IoBecomes(n, v)
<1>1. io \in [Nodes -> Ios]
    BY DEF IoT
<1> QED BY <1>1, SetFacts DEF IoT, IoBecomes

(* The swarm of a node moves.                                               *)
LEMMA SwarmSet ==
    ASSUME SwarmT, NEW n \in Nodes, NEW v \in Swarms, swarm' = [swarm EXCEPT ![n] = v]
    PROVE  SwarmBecomes(n, v)
<1>1. swarm \in [Nodes -> Swarms]
    BY DEF SwarmT
<1> QED BY <1>1, SetFacts DEF SwarmT, SwarmBecomes

(* A connection moves.                                                      *)
LEMMA ConnSet ==
    ASSUME ConnT, NEW n \in Nodes, NEW k \in Handles, NEW c \in Conns,
           conn' = [conn EXCEPT ![n][k] = c]
    PROVE  ConnBecomes(n, k, c)
<1>1. conn \in [Nodes -> [Handles -> Conns]]
    BY DEF ConnT
<1> QED BY <1>1, PutFacts DEF ConnT, ConnBecomes

(* An entry of the map is set.                                              *)
LEMMA StoreSet ==
    ASSUME peerstore \in Maps, NEW n \in Nodes, NEW m \in Nodes, NEW v \in Handles \cup {None},
           peerstore' = [peerstore EXCEPT ![n][m] = v]
    PROVE  StoreBecomes(n, m, v)
<1>1. peerstore \in [Nodes -> [Nodes -> Handles \cup {None}]]
    BY DEF Maps
<1> QED BY <1>1, PutFacts DEF Maps, StoreBecomes

(* A datagram leaves the network.                                           *)
LEMMA NetTakes ==
    ASSUME NetT, NEW n \in Nodes, NEW m \in Nodes, net[n][m] # <<>>,
           net' = [net EXCEPT ![n][m] = Tail(@)]
    PROVE  /\ NetT' /\ Head(net[n][m]) \in Packets /\ Holds(net[n][m], Head(net[n][m]))
           /\ \A x, y \in Nodes : Fewer(net'[x][y], net[x][y])
<1> DEFINE q == net[n][m]
<1>1. net \in [Nodes -> [Nodes -> Seq(Packets)]] /\ q \in Seq(Packets) /\ Len(q) =< NetCap
    BY DEF NetT
<1>2. /\ Head(q) \in Packets /\ Holds(q, Head(q)) /\ Tail(q) \in Seq(Packets)
      /\ Len(Tail(q)) \in Nat /\ Len(q) \in Nat /\ Len(Tail(q)) =< Len(q) /\ Fewer(Tail(q), q)
    BY <1>1, TailFacts DEF Fewer
<1>3. net' = [net EXCEPT ![n][m] = Tail(q)]
    OBVIOUS
<1>4. /\ net' \in [Nodes -> [Nodes -> Seq(Packets)]] /\ net'[n][m] = Tail(q)
      /\ \A y \in Nodes : y # m => net'[n][y] = net[n][y]
      /\ \A x \in Nodes : x # n => net'[x] = net[x]
  <2> HIDE DEF q
  <2> QED BY <1>1, <1>2, <1>3, PutFacts
<1>5. Len(Tail(q)) =< NetCap
    BY <1>1, <1>2, Constants
<1>6. \A x, y \in Nodes : Len(net'[x][y]) =< NetCap /\ Fewer(net'[x][y], net[x][y])
  <2> TAKE x, y \in Nodes
  <2>1. CASE x = n /\ y = m
      BY <1>2, <1>4, <1>5, <2>1
  <2>2. CASE ~(x = n /\ y = m)
    <3>1. net'[x][y] = net[x][y]
        BY <1>4, <2>2
    <3> QED BY <3>1 DEF NetT, Fewer
  <2> QED BY <2>1, <2>2
<1> QED BY <1>2, <1>4, <1>6 DEF NetT

(* A datagram goes out, and enters the network.                             *)
NetSends(n, m, p) == Len(net[n][m]) < NetCap /\ net' = [net EXCEPT ![n][m] = Append(@, p)]

(* The network has it then, and nothing else new.                           *)
LEMMA NetGets ==
    ASSUME NetT, NEW n \in Nodes, NEW m \in Nodes, NEW p \in Packets, NetSends(n, m, p)
    PROVE  /\ NetT'
           /\ \A x, y \in Nodes : \A r : Holds(net'[x][y], r) =>
                Holds(net[x][y], r) \/ (x = n /\ y = m /\ r = p)
<1> DEFINE q == net[n][m]
<1>1. net \in [Nodes -> [Nodes -> Seq(Packets)]] /\ q \in Seq(Packets)
    BY DEF NetT
<1>2. /\ Append(q, p) \in Seq(Packets) /\ Len(Append(q, p)) = Len(q) + 1 /\ Len(q) \in Nat
      /\ \A r : Holds(Append(q, p), r) <=> Holds(q, r) \/ r = p
    BY <1>1, AppendFacts
<1>3. net' = [net EXCEPT ![n][m] = Append(q, p)]
    BY DEF NetSends
<1>4. /\ net' \in [Nodes -> [Nodes -> Seq(Packets)]] /\ net'[n][m] = Append(q, p)
      /\ \A y \in Nodes : y # m => net'[n][y] = net[n][y]
      /\ \A x \in Nodes : x # n => net'[x] = net[x]
  <2> HIDE DEF q
  <2> QED BY <1>1, <1>2, <1>3, PutFacts
<1>5. Len(Append(q, p)) =< NetCap
    BY <1>2, Constants DEF NetSends
<1>6. ASSUME NEW x \in Nodes, NEW y \in Nodes
      PROVE  /\ Len(net'[x][y]) =< NetCap
             /\ \A r : Holds(net'[x][y], r) => Holds(net[x][y], r) \/ (x = n /\ y = m /\ r = p)
  <2>1. CASE x = n /\ y = m
      BY <1>2, <1>4, <1>5, <2>1
  <2>2. CASE ~(x = n /\ y = m)
    <3>1. net'[x][y] = net[x][y]
        BY <1>4, <2>2
    <3> QED BY <3>1 DEF NetT
  <2> QED BY <2>1, <2>2
<1> QED BY <1>4, <1>6 DEF NetT

(* A frame leaves the queue of the I/O task.                                *)
LEMMA WriteTakes ==
    ASSUME WriteT, NEW n \in Nodes, write_req[n] # <<>>,
           write_req' = [write_req EXCEPT ![n] = Tail(@)]
    PROVE  /\ WriteT' /\ Head(write_req[n]) \in Frames /\ Holds(write_req[n], Head(write_req[n]))
           /\ \A x \in Nodes : Fewer(write_req'[x], write_req[x])
<1> DEFINE q == write_req[n]
<1>1. write_req \in [Nodes -> Seq(Frames)] /\ q \in Seq(Frames) /\ Len(q) =< QueueCap
    BY DEF WriteT
<1>2. /\ Head(q) \in Frames /\ Holds(q, Head(q)) /\ Tail(q) \in Seq(Frames)
      /\ Len(Tail(q)) \in Nat /\ Len(q) \in Nat /\ Len(Tail(q)) =< Len(q) /\ Fewer(Tail(q), q)
    BY <1>1, TailFacts DEF Fewer
<1>3. /\ write_req' \in [Nodes -> Seq(Frames)] /\ write_req'[n] = Tail(q)
      /\ \A x \in Nodes : x # n => write_req'[x] = write_req[x]
    BY <1>1, <1>2
<1>4. Len(Tail(q)) =< QueueCap
    BY <1>1, <1>2, Constants
<1>5. \A x \in Nodes : Len(write_req'[x]) =< QueueCap /\ Fewer(write_req'[x], write_req[x])
    BY <1>2, <1>3, <1>4 DEF WriteT, Fewer
<1> QED BY <1>2, <1>3, <1>5 DEF WriteT

(* A frame joins the queue of the I/O task.                                 *)
LEMMA WriteGets ==
    ASSUME WriteT, NEW n \in Nodes, NEW f \in Frames, Writes(n, f)
    PROVE  /\ WriteT'
           /\ \A x \in Nodes : \A r : Holds(write_req'[x], r) =>
                Holds(write_req[x], r) \/ (x = n /\ r = f)
<1> DEFINE q == write_req[n]
<1>1. write_req \in [Nodes -> Seq(Frames)] /\ q \in Seq(Frames) /\ Len(q) < QueueCap
    BY DEF WriteT, Writes, HasRoom
<1>2. /\ Append(q, f) \in Seq(Frames) /\ Len(Append(q, f)) = Len(q) + 1 /\ Len(q) \in Nat
      /\ \A r : Holds(Append(q, f), r) <=> Holds(q, r) \/ r = f
    BY <1>1, AppendFacts
<1>3. /\ write_req' \in [Nodes -> Seq(Frames)] /\ write_req'[n] = Append(q, f)
      /\ \A x \in Nodes : x # n => write_req'[x] = write_req[x]
    BY <1>1, <1>2 DEF Writes
<1>4. Len(Append(q, f)) =< QueueCap
    BY <1>1, <1>2, Constants
<1>5. ASSUME NEW x \in Nodes
      PROVE  /\ Len(write_req'[x]) =< QueueCap
             /\ \A r : Holds(write_req'[x], r) => Holds(write_req[x], r) \/ (x = n /\ r = f)
  <2>1. CASE x = n
      BY <1>2, <1>3, <1>4, <2>1
  <2>2. CASE x # n
      BY <1>3, <2>2 DEF WriteT
  <2> QED BY <2>1, <2>2
<1> QED BY <1>3, <1>5 DEF WriteT

(* The queue of an I/O task that ends goes with it.                         *)
LEMMA WriteClears ==
    ASSUME WriteT, NEW n \in Nodes, write_req' = [write_req EXCEPT ![n] = <<>>]
    PROVE  WriteT' /\ \A x \in Nodes : Fewer(write_req'[x], write_req[x])
<1>1. write_req \in [Nodes -> Seq(Frames)] /\ <<>> \in Seq(Frames) /\ Len(<<>>) =< QueueCap
    BY Constants, EmptyFacts DEF WriteT
<1>2. /\ write_req' \in [Nodes -> Seq(Frames)] /\ write_req'[n] = <<>>
      /\ \A x \in Nodes : x # n => write_req'[x] = write_req[x]
    BY <1>1
<1>3. \A x \in Nodes : Len(write_req'[x]) =< QueueCap /\ Fewer(write_req'[x], write_req[x])
    BY <1>1, <1>2, EmptyFacts DEF WriteT, Fewer
<1> QED BY <1>2, <1>3 DEF WriteT

(* A Connect joins those that wait to be accepted.                          *)
LEMMA NewGets ==
    ASSUME NewT, NEW n \in Nodes, NEW m \in Nodes, HasRoom(new_peer[n]),
           new_peer' = [new_peer EXCEPT ![n] = Append(@, m)]
    PROVE  /\ NewT'
           /\ \A x \in Nodes : \A r : Holds(new_peer'[x], r) =>
                Holds(new_peer[x], r) \/ (x = n /\ r = m)
<1> DEFINE q == new_peer[n]
<1>1. new_peer \in [Nodes -> Seq(Nodes)] /\ q \in Seq(Nodes) /\ Len(q) < QueueCap
    BY DEF NewT, HasRoom
<1>2. /\ Append(q, m) \in Seq(Nodes) /\ Len(Append(q, m)) = Len(q) + 1 /\ Len(q) \in Nat
      /\ \A r : Holds(Append(q, m), r) <=> Holds(q, r) \/ r = m
    BY <1>1, AppendFacts
<1>3. /\ new_peer' \in [Nodes -> Seq(Nodes)] /\ new_peer'[n] = Append(q, m)
      /\ \A x \in Nodes : x # n => new_peer'[x] = new_peer[x]
    BY <1>1, <1>2
<1>4. Len(Append(q, m)) =< QueueCap
    BY <1>1, <1>2, Constants
<1>5. ASSUME NEW x \in Nodes
      PROVE  /\ Len(new_peer'[x]) =< QueueCap
             /\ \A r : Holds(new_peer'[x], r) => Holds(new_peer[x], r) \/ (x = n /\ r = m)
  <2>1. CASE x = n
      BY <1>2, <1>3, <1>4, <2>1
  <2>2. CASE x # n
      BY <1>3, <2>2 DEF NewT
  <2> QED BY <2>1, <2>2
<1> QED BY <1>3, <1>5 DEF NewT

(* A Connect is accepted.                                                   *)
LEMMA NewTakes ==
    ASSUME NewT, NEW n \in Nodes, new_peer[n] # <<>>,
           new_peer' = [new_peer EXCEPT ![n] = Tail(@)]
    PROVE  /\ NewT' /\ Head(new_peer[n]) \in Nodes /\ Holds(new_peer[n], Head(new_peer[n]))
           /\ \A x \in Nodes : Fewer(new_peer'[x], new_peer[x])
<1> DEFINE q == new_peer[n]
<1>1. new_peer \in [Nodes -> Seq(Nodes)] /\ q \in Seq(Nodes) /\ Len(q) =< QueueCap
    BY DEF NewT
<1>2. /\ Head(q) \in Nodes /\ Holds(q, Head(q)) /\ Tail(q) \in Seq(Nodes)
      /\ Len(Tail(q)) \in Nat /\ Len(q) \in Nat /\ Len(Tail(q)) =< Len(q) /\ Fewer(Tail(q), q)
    BY <1>1, TailFacts DEF Fewer
<1>3. /\ new_peer' \in [Nodes -> Seq(Nodes)] /\ new_peer'[n] = Tail(q)
      /\ \A x \in Nodes : x # n => new_peer'[x] = new_peer[x]
    BY <1>1, <1>2
<1>4. Len(Tail(q)) =< QueueCap
    BY <1>1, <1>2, Constants
<1>5. \A x \in Nodes : Len(new_peer'[x]) =< QueueCap /\ Fewer(new_peer'[x], new_peer[x])
    BY <1>2, <1>3, <1>4 DEF NewT, Fewer
<1> QED BY <1>2, <1>3, <1>5 DEF NewT

(* A payload is routed to a connection.                                     *)
LEMMA InboxGets ==
    ASSUME InboxT, NEW n \in Nodes, NEW k \in Handles, NEW p \in Payloads, HasRoom(inbox[n][k]),
           inbox' = [inbox EXCEPT ![n][k] = Append(@, p)]
    PROVE  /\ InboxT'
           /\ \A x \in Nodes, j \in Handles : ~(x = n /\ j = k) => inbox'[x][j] = inbox[x][j]
<1> DEFINE q == inbox[n][k]
<1>1. /\ inbox \in [Nodes -> [Handles -> Seq(Payloads)]] /\ q \in Seq(Payloads)
      /\ Len(q) < QueueCap
    BY DEF InboxT, HasRoom
<1>2. Append(q, p) \in Seq(Payloads) /\ Len(Append(q, p)) = Len(q) + 1 /\ Len(q) \in Nat
    BY <1>1, AppendFacts
<1>3. inbox' = [inbox EXCEPT ![n][k] = Append(q, p)]
    OBVIOUS
<1>4. /\ inbox' \in [Nodes -> [Handles -> Seq(Payloads)]] /\ inbox'[n][k] = Append(q, p)
      /\ \A y \in Handles : y # k => inbox'[n][y] = inbox[n][y]
      /\ \A x \in Nodes : x # n => inbox'[x] = inbox[x]
  <2> HIDE DEF q
  <2> QED BY <1>1, <1>2, <1>3, PutFacts
<1>5. Len(Append(q, p)) =< QueueCap
    BY <1>1, <1>2, Constants
<1>6. \A x \in Nodes, j \in Handles : Len(inbox'[x][j]) =< QueueCap
    BY <1>4, <1>5 DEF InboxT
<1> QED BY <1>4, <1>6 DEF InboxT

(* A payload is taken.                                                      *)
LEMMA InboxTakes ==
    ASSUME InboxT, NEW n \in Nodes, NEW k \in Handles, inbox[n][k] # <<>>,
           inbox' = [inbox EXCEPT ![n][k] = Tail(@)]
    PROVE  /\ InboxT' /\ Head(inbox[n][k]) \in Payloads
           /\ \A x \in Nodes, j \in Handles : ~(x = n /\ j = k) => inbox'[x][j] = inbox[x][j]
<1> DEFINE q == inbox[n][k]
<1>1. /\ inbox \in [Nodes -> [Handles -> Seq(Payloads)]] /\ q \in Seq(Payloads)
      /\ Len(q) =< QueueCap
    BY DEF InboxT
<1>2. /\ Head(q) \in Payloads /\ Tail(q) \in Seq(Payloads)
      /\ Len(Tail(q)) \in Nat /\ Len(q) \in Nat /\ Len(Tail(q)) =< Len(q)
    BY <1>1, TailFacts
<1>3. inbox' = [inbox EXCEPT ![n][k] = Tail(q)]
    OBVIOUS
<1>4. /\ inbox' \in [Nodes -> [Handles -> Seq(Payloads)]] /\ inbox'[n][k] = Tail(q)
      /\ \A y \in Handles : y # k => inbox'[n][y] = inbox[n][y]
      /\ \A x \in Nodes : x # n => inbox'[x] = inbox[x]
  <2> HIDE DEF q
  <2> QED BY <1>1, <1>2, <1>3, PutFacts
<1>5. Len(Tail(q)) =< QueueCap
    BY <1>1, <1>2, Constants
<1>6. \A x \in Nodes, j \in Handles : Len(inbox'[x][j]) =< QueueCap
    BY <1>4, <1>5 DEF InboxT
<1> QED BY <1>2, <1>4, <1>6 DEF InboxT

(* A frame joins the queue of a connection's task.                          *)
LEMMA MuxGets ==
    ASSUME MuxT, NEW n \in Nodes, NEW k \in Handles, NEW f \in MuxFrames, HasRoom(mux[n][k]),
           mux' = [mux EXCEPT ![n][k] = Append(@, f)]
    PROVE  MuxT'
<1> DEFINE q == mux[n][k]
<1>1. mux \in [Nodes -> [Handles -> Seq(MuxFrames)]] /\ q \in Seq(MuxFrames) /\ Len(q) < QueueCap
    BY DEF MuxT, HasRoom
<1>2. Append(q, f) \in Seq(MuxFrames) /\ Len(Append(q, f)) = Len(q) + 1 /\ Len(q) \in Nat
    BY <1>1, AppendFacts
<1>3. mux' = [mux EXCEPT ![n][k] = Append(q, f)]
    OBVIOUS
<1>4. /\ mux' \in [Nodes -> [Handles -> Seq(MuxFrames)]] /\ mux'[n][k] = Append(q, f)
      /\ \A y \in Handles : y # k => mux'[n][y] = mux[n][y]
      /\ \A x \in Nodes : x # n => mux'[x] = mux[x]
  <2> HIDE DEF q
  <2> QED BY <1>1, <1>2, <1>3, PutFacts
<1>5. Len(Append(q, f)) =< QueueCap
    BY <1>1, <1>2, Constants
<1>6. \A x \in Nodes, j \in Handles : Len(mux'[x][j]) =< QueueCap
    BY <1>4, <1>5 DEF MuxT
<1> QED BY <1>4, <1>6 DEF MuxT

(* A frame is taken by a connection's task.                                 *)
LEMMA MuxTakes ==
    ASSUME MuxT, NEW n \in Nodes, NEW k \in Handles, mux[n][k] # <<>>,
           mux' = [mux EXCEPT ![n][k] = Tail(@)]
    PROVE  MuxT' /\ Head(mux[n][k]) \in MuxFrames
<1> DEFINE q == mux[n][k]
<1>1. mux \in [Nodes -> [Handles -> Seq(MuxFrames)]] /\ q \in Seq(MuxFrames) /\ Len(q) =< QueueCap
    BY DEF MuxT
<1>2. /\ Head(q) \in MuxFrames /\ Tail(q) \in Seq(MuxFrames)
      /\ Len(Tail(q)) \in Nat /\ Len(q) \in Nat /\ Len(Tail(q)) =< Len(q)
    BY <1>1, TailFacts
<1>3. mux' = [mux EXCEPT ![n][k] = Tail(q)]
    OBVIOUS
<1>4. /\ mux' \in [Nodes -> [Handles -> Seq(MuxFrames)]] /\ mux'[n][k] = Tail(q)
      /\ \A y \in Handles : y # k => mux'[n][y] = mux[n][y]
      /\ \A x \in Nodes : x # n => mux'[x] = mux[x]
  <2> HIDE DEF q
  <2> QED BY <1>1, <1>2, <1>3, PutFacts
<1>5. Len(Tail(q)) =< QueueCap
    BY <1>1, <1>2, Constants
<1>6. \A x \in Nodes, j \in Handles : Len(mux'[x][j]) =< QueueCap
    BY <1>4, <1>5 DEF MuxT
<1> QED BY <1>2, <1>4, <1>6 DEF MuxT

-----------------------------------------------------------------------------
(* The shape of a state: what the typing of the next one needs.             *)

Upgrading == {"ackIn", "helloOut", "welcomeIn", "ackOut", "helloIn", "welcomeOut"}
Running == {"select", "write", "answer", "close"}
Over == {"ended", "panicked"}

IoOk(n) == io[n].at # "idle" => io[n].from \in Nodes /\ io[n].packet \in Packets
SwarmOk(n) == LET s == swarm[n] IN
    /\ s.at = "loop" => s.conn = None
    /\ s.at \notin {"loop", "dead"} => s.conn \in Handles /\ s.peer \in Nodes
    /\ s.at \in {"connectOut", "register"} => conn[n][s.conn].at = "none"
    /\ s.at \in Upgrading => conn[n][s.conn].at = "upgrade" /\ conn[n][s.conn].peer = s.peer
ConnOk(n, k) == LET c == conn[n][k] IN
    /\ c.at # "none" => c.peer \in Nodes
    /\ c.at = "none" => inbox[n][k] = <<>>
    /\ c.at = "write" => c.hand \in {"live", "data"}

Shape == \A n \in Nodes : IoOk(n) /\ SwarmOk(n) /\ \A k \in Handles : ConnOk(n, k)
Typed == TypeOK /\ Shape

(* A connection never leaves its peer nor its end.                          *)
Grows == \A n \in Nodes, k \in Handles : conn[n][k].at # "none" =>
    /\ conn'[n][k].peer = conn[n][k].peer /\ conn'[n][k].at # "none"
    /\ conn[n][k].at \in Over => conn'[n][k].at = conn[n][k].at

(* The task of a connection goes to label.                                  *)
Turns(n, k, label) ==
    /\ ConnT'
    /\ conn'[n][k].peer = conn[n][k].peer /\ conn'[n][k].at = label
    /\ label = "write" => conn'[n][k].hand \in {"live", "data"}
    /\ \A x \in Nodes, j \in Handles : ~(x = n /\ j = k) => conn'[x][j] = conn[x][j]

(* The same, from the definition of Moves.                                  *)
LEMMA MovesFacts ==
    ASSUME ConnT, NEW n \in Nodes, NEW k \in Handles, NEW label \in ConnLabels \ {"write"},
           Moves(n, k, label)
    PROVE  Turns(n, k, label)
<1> DEFINE c == [conn[n][k] EXCEPT !.at = label]
<1>1. conn[n][k] \in Conns
    BY DEF ConnT
<1>2. c \in Conns /\ c.peer = conn[n][k].peer /\ c.at = label
    BY <1>1 DEF Conns
<1>3. conn' = [conn EXCEPT ![n][k] = c]
    BY DEF Moves
<1> HIDE DEF c
<1>4. ConnBecomes(n, k, c)
    BY <1>2, <1>3, ConnSet
<1> QED BY <1>2, <1>4 DEF ConnBecomes, Turns

(* The parts of Typed for a given connection.                               *)
LEMMA ShapeFacts ==
    ASSUME Typed, NEW n \in Nodes
    PROVE  /\ TypeOK /\ IoT /\ NetT /\ WriteT /\ NewT /\ SwarmT /\ ConnT /\ InboxT /\ MuxT /\ CountT
           /\ peerstore \in Maps /\ connections \in Maps
           /\ io[n] \in Ios /\ swarm[n] \in Swarms /\ IoOk(n) /\ SwarmOk(n)
           /\ \A k \in Handles : ConnOk(n, k) /\ conn[n][k] \in Conns
<1>1. IoT /\ SwarmT /\ ConnT
    BY TypeParts DEF Typed
<1> QED BY <1>1, TypeParts DEF Typed, Shape, IoT, SwarmT, ConnT

(* Where a connection that has a task goes on, the shape is kept.           *)
LEMMA TurnsShape ==
    ASSUME Typed, TypeOK', NEW n \in Nodes, NEW k \in Handles, NEW label \in Running \cup Over,
           conn[n][k].at \in Running, Turns(n, k, label), UNCHANGED <<io, swarm>>,
           \A x \in Nodes, j \in Handles : ~(x = n /\ j = k) => inbox'[x][j] = inbox[x][j]
    PROVE  Typed' /\ Grows
<1>1. Grows
  <2> SUFFICES ASSUME NEW x \in Nodes, NEW j \in Handles, conn[x][j].at # "none"
               PROVE  /\ conn'[x][j].peer = conn[x][j].peer /\ conn'[x][j].at # "none"
                      /\ conn[x][j].at \in Over => conn'[x][j].at = conn[x][j].at
      BY DEF Grows
  <2>1. CASE x = n /\ j = k
      BY <2>1 DEF Turns, Running, Over
  <2>2. CASE ~(x = n /\ j = k)
      BY <2>2 DEF Turns
  <2> QED BY <2>1, <2>2
<1>2. ASSUME NEW x \in Nodes
      PROVE  SwarmOk(x)'
  <2> DEFINE s == swarm[x]
  <2>1. SwarmOk(x)
      BY ShapeFacts
  <2>2. s.at \in {"connectOut", "register"} \cup Upgrading => conn'[x][s.conn] = conn[x][s.conn]
    <3>1. SUFFICES ASSUME s.at \in {"connectOut", "register"} \cup Upgrading
                   PROVE  conn'[x][s.conn] = conn[x][s.conn]
        OBVIOUS
    <3>2. s.conn \in Handles /\ conn[x][s.conn].at \in {"none", "upgrade"}
        BY <2>1, <3>1 DEF SwarmOk, Upgrading
    <3> QED BY <3>2 DEF Turns, Running
  <2> QED BY <2>1, <2>2 DEF SwarmOk
<1>3. ASSUME NEW x \in Nodes, NEW j \in Handles
      PROVE  ConnOk(x, j)'
  <2>1. ConnOk(x, j) /\ ConnOk(n, k)
      BY ShapeFacts
  <2>2. CASE x = n /\ j = k
      BY <2>1, <2>2 DEF ConnOk, Turns, Running, Over
  <2>3. CASE ~(x = n /\ j = k)
      BY <2>1, <2>3 DEF ConnOk, Turns
  <2> QED BY <2>2, <2>3
<1>4. \A x \in Nodes : IoOk(x)'
    BY ShapeFacts DEF IoOk
<1> QED BY <1>1, <1>2, <1>3, <1>4 DEF Typed, Shape

(* No connection changes task or peer.                                      *)
Still == \A n \in Nodes, k \in Handles : /\ conn'[n][k].peer = conn[n][k].peer
                                         /\ conn'[n][k].at = conn[n][k].at
                                         /\ conn'[n][k].hand = conn[n][k].hand

(* The shape is kept then.                                                  *)
LEMMA StillShape ==
    ASSUME Typed, TypeOK', Still, UNCHANGED swarm, \A n \in Nodes : IoOk(n)',
           \A n \in Nodes, k \in Handles : conn[n][k].at = "none" => inbox'[n][k] = inbox[n][k]
    PROVE  Typed' /\ Grows
<1>1. Grows
    BY DEF Still, Grows
<1>2. ASSUME NEW x \in Nodes
      PROVE  SwarmOk(x)'
  <2>1. SwarmOk(x)
      BY ShapeFacts
  <2> QED BY <2>1 DEF SwarmOk, Still, Upgrading
<1>3. ASSUME NEW x \in Nodes, NEW j \in Handles
      PROVE  ConnOk(x, j)'
  <2>1. ConnOk(x, j)
      BY ShapeFacts
  <2> QED BY <2>1 DEF ConnOk, Still
<1> QED BY <1>1, <1>2, <1>3 DEF Typed, Shape

-----------------------------------------------------------------------------
(* Routes: an entry of the map is of a connection to that peer, and an      *)
(* entry is missing only once a connection to the peer has closed.          *)

Ended(n, m) == \E j \in Handles : conn[n][j].peer = m /\ conn[n][j].at = "ended"

Mapped(n) == \A m \in Nodes : LET k == peerstore[n][m] IN
    k # None => conn[n][k].peer = m /\ conn[n][k].at # "none"
Closing(n) == \A f \in Frames : Holds(write_req[n], f) /\ f.internal => Ended(n, f.to)
Routed(n) == \A k \in Handles : conn[n][k].at # "none" =>
    peerstore[n][conn[n][k].peer] # None \/ Ended(n, conn[n][k].peer)
Routes == \A n \in Nodes : Mapped(n) /\ Closing(n) /\ Routed(n)

(* The same of the next state. *)
EndedNext(n, m) == \E j \in Handles : conn'[n][j].peer = m /\ conn'[n][j].at = "ended"
FellNext(n, m) == \E j \in Handles : conn'[n][j].peer = m /\ conn'[n][j].at \in Over

(* A connection that ended has for good.                                    *)
LEMMA EndedKept ==
    ASSUME Grows
    PROVE  \A n \in Nodes : \A m : /\ Ended(n, m) => EndedNext(n, m)
                                   /\ Fell(n, m) => FellNext(n, m)
BY DEF Grows, Ended, Fell, Over, EndedNext, FellNext

(* Where the map stays and no connection starts, the routes are kept, if an *)
(* internal frame is of a connection that ended.                            *)
LEMMA RoutesKept ==
    ASSUME Typed, Routes, Grows, NEW n \in Nodes, UNCHANGED peerstore,
           \A k \in Handles : conn[n][k].at = "none" => conn'[n][k].at = "none",
           \A f \in Frames : Holds(write_req'[n], f) =>
             Holds(write_req[n], f) \/ ~f.internal \/ EndedNext(n, f.to)
    PROVE  Mapped(n)' /\ Closing(n)' /\ Routed(n)'
<1>1. Mapped(n) /\ Closing(n) /\ Routed(n)
    BY DEF Routes
<1>2. peerstore \in Maps
    BY ShapeFacts
<1>3. Mapped(n)'
  <2> SUFFICES ASSUME NEW m \in Nodes, peerstore[n][m] # None
               PROVE  LET k == peerstore[n][m] IN conn'[n][k].peer = m /\ conn'[n][k].at # "none"
      BY DEF Mapped
  <2>1. peerstore[n][m] \in Handles
      BY <1>2 DEF Maps
  <2> QED BY <1>1, <2>1 DEF Mapped, Grows
<1>4. Closing(n)'
  <2> SUFFICES ASSUME NEW f \in Frames, Holds(write_req'[n], f), f.internal
               PROVE  EndedNext(n, f.to)
      BY DEF Closing, Ended, EndedNext
  <2> QED BY <1>1, EndedKept DEF Closing
<1>5. Routed(n)'
  <2> SUFFICES ASSUME NEW k \in Handles, conn'[n][k].at # "none"
               PROVE  peerstore[n][conn'[n][k].peer] # None \/ EndedNext(n, conn'[n][k].peer)
      BY DEF Routed, Ended, EndedNext
  <2>1. conn[n][k].at # "none" /\ conn'[n][k].peer = conn[n][k].peer
      BY DEF Grows
  <2>2. peerstore[n][conn[n][k].peer] # None \/ Ended(n, conn[n][k].peer)
      BY <1>1, <2>1 DEF Routed
  <2> QED BY <2>1, <2>2, EndedKept
<1> QED BY <1>3, <1>4, <1>5

-----------------------------------------------------------------------------
(* Known: a node that a datagram of a connection is on its way to has had a *)
(* connection to the sender, or is about to register it.                    *)

Known(n, m) == \/ \E k \in Handles : conn[n][k].peer = m /\ conn[n][k].at # "none"
               \/ swarm[n].at = "register" /\ swarm[n].peer = m
Meets(n, m, p) == Known(m, n) /\ (p # "connect" => Known(n, m))
KnownNext(n, m) == \/ \E k \in Handles : conn'[n][k].peer = m /\ conn'[n][k].at # "none"
                   \/ swarm'[n].at = "register" /\ swarm'[n].peer = m
MeetsNext(n, m, p) == KnownNext(m, n) /\ (p # "connect" => KnownNext(n, m))

NetKnown == \A n, m \in Nodes, p \in Packets : Holds(net[n][m], p) => Meets(n, m, p)
WritesKnown == \A n \in Nodes, f \in Frames :
    Holds(write_req[n], f) /\ ~f.internal => Meets(f.to, n, f.packet)
IoKnown == \A n \in Nodes : io[n].at # "idle" => Meets(n, io[n].from, io[n].packet)
PeersKnown == \A n, m \in Nodes : Holds(new_peer[n], m) => Known(m, n)
ConnsKnown == \A n \in Nodes, k \in Handles :
    inbox[n][k] # <<>> \/ conn[n][k].at \in Running => Known(conn[n][k].peer, n)
SwarmKnown == \A n \in Nodes :
    swarm[n].at \in Upgrading \ {"ackIn"} => Known(swarm[n].peer, n)
Underway == NetKnown /\ WritesKnown /\ IoKnown /\ PeersKnown /\ ConnsKnown /\ SwarmKnown

(* Causes: an I/O task that is gone fell with a connection, or with a dial  *)
(* that nothing can reach any more.                                         *)
Stuck(n) == /\ swarm[n].peer = io[n].from
            /\ \/ swarm[n].at = "register"
               \/ swarm[n].at = "ackIn" /\ inbox[n][swarm[n].conn] = <<>>
Causes == \A n \in Nodes : ~Up(n) => Fell(n, io[n].from) \/ Stuck(n)

(* A swarm about to register a connection does.                             *)
Registers == \A n \in Nodes : swarm[n].at = "register" =>
    \/ swarm'[n] = swarm[n]
    \/ \E k \in Handles : conn'[n][k].peer = swarm[n].peer /\ conn'[n][k].at # "none"

(* The invariants of the next state, in these words.                        *)
LEMMA NextFacts ==
    /\ NetKnown' <=> \A n, m \in Nodes, p \in Packets : Holds(net'[n][m], p) => MeetsNext(n, m, p)
    /\ WritesKnown' <=> \A n \in Nodes, f \in Frames :
         Holds(write_req'[n], f) /\ ~f.internal => MeetsNext(f.to, n, f.packet)
    /\ IoKnown' <=> \A n \in Nodes :
         io'[n].at # "idle" => MeetsNext(n, io'[n].from, io'[n].packet)
    /\ PeersKnown' <=> \A n, m \in Nodes : Holds(new_peer'[n], m) => KnownNext(m, n)
    /\ ConnsKnown' <=> \A n \in Nodes, k \in Handles :
         inbox'[n][k] # <<>> \/ conn'[n][k].at \in Running => KnownNext(conn'[n][k].peer, n)
    /\ SwarmKnown' <=> \A n \in Nodes :
         swarm'[n].at \in Upgrading \ {"ackIn"} => KnownNext(swarm'[n].peer, n)
    /\ Causes' <=> \A n \in Nodes : Up(n)' \/ FellNext(n, io'[n].from) \/ Stuck(n)'
BY DEF NetKnown, WritesKnown, IoKnown, PeersKnown, ConnsKnown, SwarmKnown, Causes, Meets, Known,
       MeetsNext, KnownNext, Fell, FellNext, Over

(* A node that knows another does for good.                                 *)
LEMMA KnownKept ==
    ASSUME Grows, Registers
    PROVE  \A n \in Nodes : \A m : Known(n, m) => KnownNext(n, m)
<1> SUFFICES ASSUME NEW n \in Nodes, NEW m, Known(n, m)
             PROVE  KnownNext(n, m)
    OBVIOUS
<1>1. CASE \E k \in Handles : conn[n][k].peer = m /\ conn[n][k].at # "none"
    BY <1>1 DEF Grows, KnownNext
<1>2. CASE swarm[n].at = "register" /\ swarm[n].peer = m
    BY <1>2 DEF Registers, KnownNext
<1> QED BY <1>1, <1>2 DEF Known

(* So a datagram meets whom it met before.                                  *)
LEMMA MeetsKept ==
    ASSUME Grows, Registers
    PROVE  \A n, m \in Nodes : \A p : Meets(n, m, p) => MeetsNext(n, m, p)
BY KnownKept DEF Meets, MeetsNext

(* What is not new on the way is known as before.                           *)
LEMMA NetKnownKept ==
    ASSUME NetKnown, Grows, Registers, \A n, m \in Nodes : Fewer(net'[n][m], net[n][m])
    PROVE  NetKnown'
<1> SUFFICES ASSUME NEW n \in Nodes, NEW m \in Nodes, NEW p \in Packets, Holds(net'[n][m], p)
             PROVE  MeetsNext(n, m, p)
    BY NextFacts DEF NetKnown
<1> QED BY MeetsKept DEF NetKnown, Fewer

(* What waits to go out is to a node that is met, as before.                *)
LEMMA WritesKnownKept ==
    ASSUME WritesKnown, Grows, Registers,
           \A n \in Nodes, f \in Frames : Holds(write_req'[n], f) =>
             Holds(write_req[n], f) \/ f.internal \/ Meets(f.to, n, f.packet)
    PROVE  WritesKnown'
<1> SUFFICES ASSUME NEW n \in Nodes, NEW f \in Frames, Holds(write_req'[n], f), ~f.internal
             PROVE  MeetsNext(f.to, n, f.packet)
    BY NextFacts DEF WritesKnown
<1>1. f.to \in Nodes
    BY DEF Frames
<1>2. Meets(f.to, n, f.packet)
    BY DEF WritesKnown
<1> QED BY <1>1, <1>2, MeetsKept

(* What the I/O task holds is known while it holds it.                      *)
LEMMA IoKnownKept ==
    ASSUME Typed, IoKnown, Grows, Registers, UNCHANGED io
    PROVE  IoKnown'
<1> SUFFICES ASSUME NEW n \in Nodes, io[n].at # "idle"
             PROVE  MeetsNext(n, io[n].from, io[n].packet)
    BY NextFacts DEF IoKnown
<1>1. io[n].from \in Nodes /\ Meets(n, io[n].from, io[n].packet)
    BY ShapeFacts DEF IoKnown, IoOk
<1> QED BY <1>1, MeetsKept

(* Who waits to be accepted still knows this node.                          *)
LEMMA PeersKnownKept ==
    ASSUME PeersKnown, Grows, Registers, \A n \in Nodes : Fewer(new_peer'[n], new_peer[n])
    PROVE  PeersKnown'
<1> SUFFICES ASSUME NEW n \in Nodes, NEW m \in Nodes, Holds(new_peer'[n], m)
             PROVE  KnownNext(m, n)
    BY NextFacts DEF PeersKnown
<1> QED BY KnownKept DEF PeersKnown, Fewer

(* The peer of an upgrade still knows this node.                            *)
LEMMA SwarmKnownKept ==
    ASSUME Typed, SwarmKnown, Grows, Registers, UNCHANGED swarm
    PROVE  SwarmKnown'
<1> SUFFICES ASSUME NEW n \in Nodes, swarm[n].at \in Upgrading \ {"ackIn"}
             PROVE  KnownNext(swarm[n].peer, n)
    BY NextFacts DEF SwarmKnown
<1>1. swarm[n].peer \in Nodes /\ Known(swarm[n].peer, n)
    BY ShapeFacts DEF SwarmKnown, SwarmOk, Upgrading
<1> QED BY <1>1, KnownKept

(* A connection that was running, or had heard something, is known.         *)
LEMMA ConnsKnownKept ==
    ASSUME Typed, ConnsKnown, Grows, Registers, NEW n \in Nodes, NEW k \in Handles,
           conn[n][k].at # "none",
           conn'[n][k].at \in Running => conn[n][k].at \in Running,
           inbox'[n][k] # <<>> => inbox[n][k] # <<>> \/ conn[n][k].at \in Running
    PROVE  inbox'[n][k] # <<>> \/ conn'[n][k].at \in Running => KnownNext(conn'[n][k].peer, n)
<1> SUFFICES ASSUME inbox'[n][k] # <<>> \/ conn'[n][k].at \in Running
             PROVE  KnownNext(conn'[n][k].peer, n)
    OBVIOUS
<1>1. inbox[n][k] # <<>> \/ conn[n][k].at \in Running
    OBVIOUS
<1>2. Known(conn[n][k].peer, n)
    BY <1>1 DEF ConnsKnown
<1>3. conn[n][k].peer \in Nodes /\ conn'[n][k].peer = conn[n][k].peer
    BY ShapeFacts DEF ConnOk, Grows
<1> QED BY <1>2, <1>3, KnownKept

(* Where the I/O task and the swarm stay, the cause stays.                  *)
LEMMA CausesKept ==
    ASSUME Causes, Grows, NEW n \in Nodes, UNCHANGED <<io, swarm>>,
           ~Up(n) /\ Stuck(n) => inbox'[n][swarm[n].conn] = inbox[n][swarm[n].conn]
    PROVE  Up(n)' \/ FellNext(n, io'[n].from) \/ Stuck(n)'
<1> SUFFICES ASSUME ~Up(n)
             PROVE  FellNext(n, io[n].from) \/ Stuck(n)'
    BY DEF Up
<1>1. CASE Fell(n, io[n].from)
    BY <1>1, EndedKept
<1>2. CASE Stuck(n)
    BY <1>2 DEF Stuck
<1> QED BY <1>1, <1>2 DEF Causes

Inv == Typed /\ Routes /\ Underway /\ Causes

-----------------------------------------------------------------------------
(* Steps that touch no queue of the invariant.                              *)

Quiet == /\ Still /\ UNCHANGED <<io, net, write_req, peerstore, new_peer, swarm, inbox>>

(* They keep all of it.                                                     *)
LEMMA QuietKeeps ==
    ASSUME Inv, TypeOK', Quiet
    PROVE  Inv'
<1>1. Typed /\ Routes /\ Underway /\ Causes
    BY DEF Inv
<1>2. /\ Still /\ UNCHANGED io /\ UNCHANGED net /\ UNCHANGED write_req /\ UNCHANGED peerstore
      /\ UNCHANGED new_peer /\ UNCHANGED swarm /\ UNCHANGED inbox
    BY DEF Quiet
<1>3. Typed' /\ Grows
  <2>1. \A n \in Nodes : IoOk(n)'
      BY <1>1, <1>2, ShapeFacts DEF IoOk
  <2> QED BY <1>1, <1>2, <2>1, StillShape
<1>4. Registers
    BY <1>2 DEF Registers
<1>5. Routes'
  <2>1. \A n \in Nodes, k \in Handles : conn[n][k].at = "none" => conn'[n][k].at = "none"
      BY <1>2 DEF Still
  <2>2. ASSUME NEW n \in Nodes
        PROVE  Mapped(n)' /\ Closing(n)' /\ Routed(n)'
      BY <1>1, <1>2, <1>3, <2>1, RoutesKept
  <2> QED BY <2>2 DEF Routes
<1>6. Underway'
  <2>1. NetKnown'
      BY <1>1, <1>2, <1>3, <1>4, NetKnownKept DEF Underway, Fewer
  <2>2. WritesKnown'
      BY <1>1, <1>2, <1>3, <1>4, WritesKnownKept DEF Underway
  <2>3. IoKnown'
      BY <1>1, <1>2, <1>3, <1>4, IoKnownKept DEF Underway
  <2>4. PeersKnown'
      BY <1>1, <1>2, <1>3, <1>4, PeersKnownKept DEF Underway, Fewer
  <2>5. SwarmKnown'
      BY <1>1, <1>2, <1>3, <1>4, SwarmKnownKept DEF Underway
  <2>6. ASSUME NEW n \in Nodes, NEW k \in Handles
        PROVE  inbox'[n][k] # <<>> \/ conn'[n][k].at \in Running => KnownNext(conn'[n][k].peer, n)
    <3>1. conn'[n][k].at = conn[n][k].at /\ inbox'[n][k] = inbox[n][k]
        BY <1>2 DEF Still
    <3>2. CASE conn[n][k].at # "none"
        BY <1>1, <1>3, <1>4, <3>1, <3>2, ConnsKnownKept DEF Underway
    <3>3. CASE conn[n][k].at = "none"
        BY <1>1, <3>1, <3>3, ShapeFacts DEF ConnOk, Running
    <3> QED BY <3>2, <3>3
  <2> QED BY <2>1, <2>2, <2>3, <2>4, <2>5, <2>6, NextFacts DEF Underway
<1>7. Causes'
  <2>1. \A n \in Nodes : Up(n)' \/ FellNext(n, io'[n].from) \/ Stuck(n)'
      BY <1>1, <1>2, <1>3, CausesKept
  <2> QED BY <2>1, NextFacts
<1> QED BY <1>3, <1>5, <1>6, <1>7 DEF Inv

(* A change of the liveliness check alone.                                  *)
LEMMA CheckSet ==
    ASSUME Typed, NEW n \in Nodes, NEW k \in Handles, NEW label \in CheckLabels,
           NEW a \in 0..QueueCap,
           conn' = [conn EXCEPT ![n][k].check = label, ![n][k].answers = a]
    PROVE  ConnT' /\ Still
<1> DEFINE c == [conn[n][k] EXCEPT !.check = label, !.answers = a]
<1>1. conn[n][k] \in Conns /\ ConnT
    BY ShapeFacts
<1>2. /\ c \in Conns /\ c.peer = conn[n][k].peer /\ c.at = conn[n][k].at
      /\ c.hand = conn[n][k].hand
    BY <1>1 DEF Conns
<1>3. conn' = [conn EXCEPT ![n][k] = c]
    BY <1>1 DEF ConnT
<1> HIDE DEF c
<1>4. ConnBecomes(n, k, c)
    BY <1>1, <1>2, <1>3, ConnSet
<1>5. Still
  <2> SUFFICES ASSUME NEW x \in Nodes, NEW j \in Handles
               PROVE  /\ conn'[x][j].peer = conn[x][j].peer /\ conn'[x][j].at = conn[x][j].at
                      /\ conn'[x][j].hand = conn[x][j].hand
      BY DEF Still
  <2>1. CASE x = n /\ j = k
      BY <1>2, <1>4, <2>1 DEF ConnBecomes
  <2>2. CASE ~(x = n /\ j = k)
      BY <1>4, <2>2 DEF ConnBecomes
  <2> QED BY <2>1, <2>2
<1> QED BY <1>4, <1>5 DEF ConnBecomes

(* The same where the answers stay.                                         *)
LEMMA ChecksFacts ==
    ASSUME Typed, NEW n \in Nodes, NEW k \in Handles, NEW label \in CheckLabels,
           Checks(n, k, label)
    PROVE  ConnT' /\ Still
<1>1. conn[n][k] \in Conns /\ ConnT
    BY ShapeFacts
<1>2. conn[n][k].answers \in 0..QueueCap
    BY <1>1 DEF Conns
<1>3. conn' = [conn EXCEPT ![n][k].check = label, ![n][k].answers = conn[n][k].answers]
  <2>1. conn' = [conn EXCEPT ![n][k] = [conn[n][k] EXCEPT !.check = label]]
      BY DEF Checks
  <2>2. [conn[n][k] EXCEPT !.check = label]
           = [conn[n][k] EXCEPT !.check = label, !.answers = conn[n][k].answers]
      BY <1>1 DEF Conns
  <2> QED BY <2>1, <2>2, <1>1 DEF ConnT
<1> QED BY <1>2, <1>3, CheckSet

(* The steps of the liveliness check are such.                              *)
LEMMA CheckStepKeeps ==
    ASSUME Inv, NEW n \in Nodes, NEW k \in Handles, CheckStep(n, k)
    PROVE  Inv'
<1>1. Typed /\ MuxT /\ ConnT /\ conn[n][k] \in Conns
    BY ShapeFacts DEF Inv
<1>2. /\ UNCHANGED <<ping_check, io, net, write_req, peerstore, new_peer, swarm, connections>>
      /\ UNCHANGED <<inbox, calls, sends>> /\ disturbed' \in {disturbed, disturbed \cup {"timeout"}}
    BY DEF CheckStep, Wakes, CheckSends, CheckHears, TimesOut, CheckReports, CheckFails, checkOnly
<1>3. MuxT'
  <2>1. \/ UNCHANGED mux
        \/ \E f \in {"live", "disconnected"} : /\ HasRoom(mux[n][k])
                                               /\ mux' = [mux EXCEPT ![n][k] = Append(@, f)]
      BY DEF CheckStep, Wakes, CheckSends, CheckHears, TimesOut, CheckReports, CheckFails
  <2>2. {"live", "disconnected"} \subseteq MuxFrames
      BY DEF MuxFrames
  <2> QED BY <1>1, <2>1, <2>2, MuxGets, SameTypes
<1>4. ConnT' /\ Still
  <2>1. CASE Wakes(n, k)
      BY <1>1, <2>1, ChecksFacts DEF Wakes, CheckLabels
  <2>2. CASE CheckSends(n, k)
      BY <1>1, <2>2, ChecksFacts DEF CheckSends, CheckLabels
  <2>3. CASE CheckHears(n, k)
    <3> DEFINE a == conn[n][k].answers - 1
               label == IF conn[n][k].dialed THEN "sleep" ELSE "send"
    <3>1. conn[n][k].answers \in 0..QueueCap /\ conn[n][k].answers > 0 /\ QueueCap \in Nat
        BY <1>1, <2>3, Constants DEF Conns, CheckHears
    <3>2. a \in 0..QueueCap /\ label \in CheckLabels
        BY <3>1 DEF CheckLabels
    <3>3. conn' = [conn EXCEPT ![n][k].check = label, ![n][k].answers = a]
      <4>1. conn' = [conn EXCEPT ![n][k] = [conn[n][k] EXCEPT !.answers = a, !.check = label]]
          BY <1>1, <2>3 DEF CheckHears, ConnT
      <4>2. [conn[n][k] EXCEPT !.answers = a, !.check = label]
               = [conn[n][k] EXCEPT !.check = label, !.answers = a]
          BY <1>1 DEF Conns
      <4> QED BY <4>1, <4>2, <1>1 DEF ConnT
    <3> HIDE DEF a, label
    <3> QED BY <1>1, <3>2, <3>3, CheckSet
  <2>4. CASE TimesOut(n, k)
      BY <1>1, <2>4, ChecksFacts DEF TimesOut, CheckLabels
  <2>5. CASE CheckReports(n, k)
      BY <1>1, <2>5, ChecksFacts DEF CheckReports, CheckLabels
  <2>6. CASE CheckFails(n, k)
      BY <1>1, <2>6, ChecksFacts DEF CheckFails, CheckLabels
  <2> QED BY <2>1, <2>2, <2>3, <2>4, <2>5, <2>6 DEF CheckStep
<1>5. TypeOK'
  <2>1. CountT'
      BY <1>1, <1>2, ShapeFacts DEF CountT
  <2> QED BY <1>1, <1>2, <1>3, <1>4, <2>1, TypeKept DEF Typed
<1> QED BY <1>2, <1>4, <1>5, QuietKeeps DEF Quiet

(* So is a write of a stream.                                               *)
LEMMA StreamWritesKeeps ==
    ASSUME Inv, NEW n \in Nodes, NEW k \in Handles, StreamWrites(n, k)
    PROVE  Inv'
<1>1. Typed /\ MuxT /\ CountT
    BY ShapeFacts DEF Inv
<1>2. /\ UNCHANGED <<ping_check, io, net, write_req, peerstore, new_peer, swarm, connections, conn>>
      /\ UNCHANGED <<inbox, calls, disturbed>>
    BY DEF StreamWrites
<1>3. MuxT'
    BY <1>1, MuxGets DEF StreamWrites, MuxFrames
<1>4. CountT'
  <2> DEFINE v == sends[n][k] + 1
  <2>1. /\ sends \in [Nodes -> [Handles -> Nat]] /\ sends[n][k] \in Nat
        /\ sends[n][k] < MaxSends[ping_check] /\ MaxSends[ping_check] \in Nat
      BY <1>1, Constants DEF CountT, StreamWrites
  <2>2. v \in Nat /\ v =< MaxSends[ping_check]
      BY <2>1
  <2>3. sends' = [sends EXCEPT ![n][k] = v]
      BY DEF StreamWrites
  <2> HIDE DEF v
  <2>4. /\ sends' \in [Nodes -> [Handles -> Nat]] /\ sends'[n][k] = v
        /\ \A y \in Handles : y # k => sends'[n][y] = sends[n][y]
        /\ \A x \in Nodes : x # n => sends'[x] = sends[x]
      BY <2>1, <2>2, <2>3, PutFacts
  <2>5. \A x \in Nodes, j \in Handles : sends'[x][j] =< MaxSends[ping_check]
      BY <1>1, <2>2, <2>4 DEF CountT
  <2> QED BY <1>1, <1>2, <2>4, <2>5 DEF CountT
<1>5. TypeOK'
    BY <1>1, <1>2, <1>3, <1>4, TypeKept DEF Typed
<1>6. Still
    BY <1>2 DEF Still
<1> QED BY <1>2, <1>5, <1>6, QuietKeeps DEF Quiet

-----------------------------------------------------------------------------
(* The task of a connection. *)

(* A task that goes on keeps everything: it writes to its own peer, and an  *)
(* internal frame only as it ends.                                          *)
LEMMA RunsKeeps ==
    ASSUME Inv, TypeOK', NEW n \in Nodes, NEW k \in Handles, NEW label \in Running \cup Over,
           conn[n][k].at \in Running, Turns(n, k, label),
           UNCHANGED <<io, net, peerstore, new_peer, swarm>>,
           \A x \in Nodes, j \in Handles : ~(x = n /\ j = k) => inbox'[x][j] = inbox[x][j],
           \A x \in Nodes : \A f : Holds(write_req'[x], f) =>
             \/ Holds(write_req[x], f)
             \/ x = n /\ f.to = conn[n][k].peer /\ (f.internal => label = "ended")
    PROVE  Inv'
<1>1. Typed /\ Routes /\ Underway /\ Causes
    BY DEF Inv
<1>2. /\ UNCHANGED io /\ UNCHANGED net /\ UNCHANGED peerstore /\ UNCHANGED new_peer
      /\ UNCHANGED swarm /\ UNCHANGED <<io, swarm>>
    OBVIOUS
<1>3. Typed' /\ Grows
    BY <1>1, <1>2, TurnsShape
<1>4. Registers
    BY <1>2 DEF Registers
<1>5. conn[n][k].peer \in Nodes /\ conn[n][k].at # "none" /\ conn'[n][k].at # "none"
    BY <1>1, ShapeFacts DEF ConnOk, Running, Over, Turns
<1>6. Routes'
  <2>1. \A x \in Nodes, j \in Handles : conn[x][j].at = "none" => conn'[x][j].at = "none"
      BY <1>5 DEF Turns
  <2>2. ASSUME NEW x \in Nodes
        PROVE  Mapped(x)' /\ Closing(x)' /\ Routed(x)'
    <3>1. ASSUME NEW f \in Frames, Holds(write_req'[x], f)
          PROVE  Holds(write_req[x], f) \/ ~f.internal \/ EndedNext(x, f.to)
      <4>1. CASE x = n /\ f.to = conn[n][k].peer /\ label = "ended"
          BY <4>1 DEF EndedNext, Turns
      <4>2. CASE Holds(write_req[x], f) \/ ~f.internal
          BY <4>2
      <4> QED BY <3>1, <4>1, <4>2
    <3> QED BY <1>1, <1>2, <1>3, <2>1, <3>1, RoutesKept
  <2> QED BY <2>2 DEF Routes
<1>7. Underway'
  <2>1. NetKnown'
      BY <1>1, <1>2, <1>3, <1>4, NetKnownKept DEF Underway, Fewer
  <2>2. Meets(conn[n][k].peer, n, "data") /\ Meets(conn[n][k].peer, n, "connect")
    <3>1. Known(n, conn[n][k].peer)
        BY <1>5 DEF Known
    <3>2. Known(conn[n][k].peer, n)
        BY <1>1 DEF Underway, ConnsKnown
    <3> QED BY <3>1, <3>2 DEF Meets
  <2>3. \A x \in Nodes, f \in Frames : Holds(write_req'[x], f) =>
             Holds(write_req[x], f) \/ f.internal \/ Meets(f.to, x, f.packet)
      BY <2>2 DEF Meets
  <2>4. WritesKnown'
      BY <1>1, <1>3, <1>4, <2>3, WritesKnownKept DEF Underway
  <2>5. IoKnown'
      BY <1>1, <1>2, <1>3, <1>4, IoKnownKept DEF Underway
  <2>6. PeersKnown'
      BY <1>1, <1>2, <1>3, <1>4, PeersKnownKept DEF Underway, Fewer
  <2>7. SwarmKnown'
      BY <1>1, <1>2, <1>3, <1>4, SwarmKnownKept DEF Underway
  <2>8. ASSUME NEW x \in Nodes, NEW j \in Handles
        PROVE  inbox'[x][j] # <<>> \/ conn'[x][j].at \in Running => KnownNext(conn'[x][j].peer, x)
    <3>1. CASE x = n /\ j = k
        BY <1>1, <1>3, <1>4, <1>5, <3>1, ConnsKnownKept DEF Underway
    <3>2. CASE ~(x = n /\ j = k) /\ conn[x][j].at # "none"
      <4>1. conn'[x][j] = conn[x][j] /\ inbox'[x][j] = inbox[x][j]
          BY <3>2 DEF Turns
      <4> QED BY <1>1, <1>3, <1>4, <3>2, <4>1, ConnsKnownKept DEF Underway
    <3>3. CASE ~(x = n /\ j = k) /\ conn[x][j].at = "none"
      <4>1. conn'[x][j] = conn[x][j] /\ inbox'[x][j] = inbox[x][j]
          BY <3>3 DEF Turns
      <4> QED BY <1>1, <3>3, <4>1, ShapeFacts DEF ConnOk, Running
    <3> QED BY <3>1, <3>2, <3>3
  <2> QED BY <2>1, <2>4, <2>5, <2>6, <2>7, <2>8, NextFacts DEF Underway
<1>8. Causes'
  <2>1. ASSUME NEW x \in Nodes, Stuck(x)
        PROVE  inbox'[x][swarm[x].conn] = inbox[x][swarm[x].conn]
    <3>1. swarm[x].conn \in Handles /\ conn[x][swarm[x].conn].at \notin Running
        BY <1>1, <2>1, ShapeFacts DEF Stuck, SwarmOk, Upgrading, Running
    <3> QED BY <3>1
  <2>2. \A x \in Nodes : Up(x)' \/ FellNext(x, io'[x].from) \/ Stuck(x)'
      BY <1>1, <1>2, <1>3, <2>1, CausesKept
  <2> QED BY <2>2, NextFacts
<1> QED BY <1>3, <1>6, <1>7, <1>8 DEF Inv

(* The steps of the task are such.                                          *)
LEMMA ConnTakesKeeps ==
    ASSUME Inv, NEW n \in Nodes, NEW k \in Handles, ConnTakes(n, k)
    PROVE  Inv'
<1> DEFINE f == Head(mux[n][k])
           label == IF f = "disconnected" THEN "close" ELSE "write"
           c == [conn[n][k] EXCEPT !.at = label, !.hand = f]
<1>1. /\ Typed /\ TypeOK /\ MuxT /\ ConnT /\ conn[n][k] \in Conns
    BY ShapeFacts DEF Inv
<1>2. /\ UNCHANGED <<ping_check, io, net, write_req, peerstore, new_peer, swarm, connections>>
      /\ UNCHANGED <<inbox, calls, sends, disturbed>>
      /\ conn[n][k].at = "select"
    BY DEF ConnTakes, connOnly
<1>3. MuxT' /\ f \in MuxFrames
    BY <1>1, MuxTakes DEF ConnTakes
<1>4. c \in Conns /\ c.peer = conn[n][k].peer /\ c.at = label /\ c.hand = f
    BY <1>1, <1>3 DEF Conns, ConnLabels
<1>5. conn' = [conn EXCEPT ![n][k] = c]
  <2>1. conn' = [conn EXCEPT ![n] = [conn[n] EXCEPT ![k] = c]]
      BY <1>1 DEF ConnTakes, ConnT
  <2> QED BY <2>1
<1>6. label \in Running /\ (label = "write" => f \in {"live", "data"})
    BY <1>3 DEF Running, MuxFrames
<1> HIDE DEF c, f, label
<1>7. ConnBecomes(n, k, c)
    BY <1>1, <1>4, <1>5, ConnSet
<1>8. Turns(n, k, label)
    BY <1>4, <1>6, <1>7 DEF Turns, ConnBecomes
<1>9. TypeOK'
    BY <1>1, <1>2, <1>3, <1>8, TypeKept DEF Turns
<1>10. conn[n][k].at \in Running
    BY <1>2 DEF Running
<1> QED BY <1>2, <1>6, <1>8, <1>9, <1>10, RunsKeeps

(* It writes to its own peer, or finds the I/O task gone.                   *)
LEMMA ConnWritesKeeps ==
    ASSUME Inv, NEW n \in Nodes, NEW k \in Handles, ConnWrites(n, k)
    PROVE  Inv'
<1> DEFINE f == [to |-> conn[n][k].peer, packet |-> conn[n][k].hand, internal |-> FALSE]
<1>1. Typed /\ TypeOK /\ WriteT /\ ConnT /\ ConnOk(n, k)
    BY ShapeFacts DEF Inv
<1>2. /\ UNCHANGED <<ping_check, io, net, peerstore, new_peer, swarm, connections, inbox, mux>>
      /\ UNCHANGED <<calls, sends, disturbed>>
      /\ conn[n][k].at = "write" /\ conn[n][k].at \in Running
    BY DEF ConnWrites, connOnly, Running
<1>3. f \in Frames
    BY <1>1, <1>2 DEF ConnOk, Frames, Packets, Payloads
<1>4. CASE Up(n)
  <2>1. Moves(n, k, "select") /\ Writes(n, f)
      BY <1>4 DEF ConnWrites
  <2>2. Turns(n, k, "select")
      BY <1>1, <2>1, MovesFacts DEF ConnLabels
  <2>3. /\ WriteT'
        /\ \A x \in Nodes : \A r : Holds(write_req'[x], r) =>
             Holds(write_req[x], r) \/ (x = n /\ r = f)
      BY <1>1, <1>3, <2>1, WriteGets
  <2>4. TypeOK'
      BY <1>1, <1>2, <2>2, <2>3, TypeKept DEF Turns
  <2> QED BY <1>2, <2>2, <2>3, <2>4, RunsKeeps DEF Running
<1>5. CASE ~Up(n)
  <2>1. Moves(n, k, "panicked") /\ UNCHANGED write_req
      BY <1>5 DEF ConnWrites
  <2>2. Turns(n, k, "panicked")
      BY <1>1, <2>1, MovesFacts DEF ConnLabels
  <2>3. TypeOK'
      BY <1>1, <1>2, <2>1, <2>2, TypeKept DEF Turns
  <2> QED BY <1>2, <2>1, <2>2, <2>3, RunsKeeps DEF Over
<1> QED BY <1>4, <1>5

(* It closes: its last frame is internal, and names its own peer.           *)
LEMMA ConnClosesKeeps ==
    ASSUME Inv, NEW n \in Nodes, NEW k \in Handles, ConnCloses(n, k)
    PROVE  Inv'
<1> DEFINE f == [to |-> conn[n][k].peer, packet |-> None, internal |-> TRUE]
<1>1. Typed /\ TypeOK /\ WriteT /\ ConnT /\ ConnOk(n, k)
    BY ShapeFacts DEF Inv
<1>2. /\ UNCHANGED <<ping_check, io, net, peerstore, new_peer, swarm, connections, inbox, mux>>
      /\ UNCHANGED <<calls, sends, disturbed>>
      /\ conn[n][k].at = "close" /\ conn[n][k].at \in Running
    BY DEF ConnCloses, connOnly, Running
<1>3. f \in Frames
    BY <1>1, <1>2 DEF ConnOk, Frames
<1>4. CASE Up(n)
  <2>1. Moves(n, k, "ended") /\ Writes(n, f)
      BY <1>4 DEF ConnCloses
  <2>2. Turns(n, k, "ended")
      BY <1>1, <2>1, MovesFacts DEF ConnLabels
  <2>3. /\ WriteT'
        /\ \A x \in Nodes : \A r : Holds(write_req'[x], r) =>
             Holds(write_req[x], r) \/ (x = n /\ r = f)
      BY <1>1, <1>3, <2>1, WriteGets
  <2>4. TypeOK'
      BY <1>1, <1>2, <2>2, <2>3, TypeKept DEF Turns
  <2> QED BY <1>2, <2>2, <2>3, <2>4, RunsKeeps DEF Over
<1>5. CASE ~Up(n)
  <2>1. Moves(n, k, "panicked") /\ UNCHANGED write_req
      BY <1>5 DEF ConnCloses
  <2>2. Turns(n, k, "panicked")
      BY <1>1, <2>1, MovesFacts DEF ConnLabels
  <2>3. TypeOK'
      BY <1>1, <1>2, <2>1, <2>2, TypeKept DEF Turns
  <2> QED BY <1>2, <2>1, <2>2, <2>3, RunsKeeps DEF Over
<1> QED BY <1>4, <1>5

(* It reads a payload.                                                      *)
LEMMA ConnReadsKeeps ==
    ASSUME Inv, NEW n \in Nodes, NEW k \in Handles, ConnReads(n, k)
    PROVE  Inv'
<1>1. Typed /\ TypeOK /\ InboxT /\ ConnT
    BY ShapeFacts DEF Inv
<1>2. /\ UNCHANGED <<ping_check, io, net, write_req, peerstore, new_peer, swarm, connections, mux>>
      /\ UNCHANGED <<calls, sends, disturbed>>
      /\ conn[n][k].at \in Running
    BY DEF ConnReads, connOnly, Running
<1>3. /\ InboxT'
      /\ \A x \in Nodes, j \in Handles : ~(x = n /\ j = k) => inbox'[x][j] = inbox[x][j]
    BY <1>1, InboxTakes DEF ConnReads
<1>4. PICK label \in {"answer", "select", "panicked"} : Moves(n, k, label)
    BY DEF ConnReads
<1>5. Turns(n, k, label)
    BY <1>1, <1>4, MovesFacts DEF ConnLabels
<1>6. TypeOK'
    BY <1>1, <1>2, <1>3, <1>5, TypeKept DEF Turns
<1> QED BY <1>2, <1>3, <1>5, <1>6, RunsKeeps DEF Running, Over

(* It hands an answer to the liveliness check.                              *)
LEMMA ConnAnswersKeeps ==
    ASSUME Inv, NEW n \in Nodes, NEW k \in Handles, ConnAnswers(n, k)
    PROVE  Inv'
<1>1. Typed /\ TypeOK /\ ConnT /\ conn[n][k] \in Conns /\ QueueCap \in Nat
    BY ShapeFacts, Constants DEF Inv
<1>2. /\ UNCHANGED <<ping_check, io, net, write_req, peerstore, new_peer, swarm, connections, mux>>
      /\ UNCHANGED <<inbox, calls, sends, disturbed>>
      /\ conn[n][k].at \in Running
    BY DEF ConnAnswers, connOnly, Running
<1>3. PICK label \in {"select", "panicked"} : Turns(n, k, label)
  <2>1. CASE conn[n][k].check \in {"off", "over"}
      BY <1>1, <2>1, MovesFacts DEF ConnAnswers, ConnLabels
  <2>2. CASE conn[n][k].check \notin {"off", "over"}
    <3> DEFINE a == conn[n][k].answers + 1
               c == [conn[n][k] EXCEPT !.at = "select", !.answers = a]
    <3>1. conn[n][k].answers \in 0..QueueCap /\ conn[n][k].answers < QueueCap
        BY <1>1, <2>2 DEF ConnAnswers, Conns
    <3>2. a \in 0..QueueCap
        BY <1>1, <3>1
    <3>3. c \in Conns /\ c.peer = conn[n][k].peer /\ c.at = "select"
        BY <1>1, <3>2 DEF Conns, ConnLabels
    <3>4. conn' = [conn EXCEPT ![n][k] = c]
        BY <1>1, <2>2 DEF ConnAnswers, ConnT
    <3> HIDE DEF c
    <3>5. ConnBecomes(n, k, c)
        BY <1>1, <3>3, <3>4, ConnSet
    <3> QED BY <3>3, <3>5 DEF ConnBecomes, Turns
  <2> QED BY <2>1, <2>2
<1>4. TypeOK'
    BY <1>1, <1>2, <1>3, TypeKept DEF Turns
<1> QED BY <1>2, <1>3, <1>4, RunsKeeps DEF Running, Over

(* It finds its channel closed.                                             *)
LEMMA ConnStarvedKeeps ==
    ASSUME Inv, NEW n \in Nodes, NEW k \in Handles, ConnStarved(n, k)
    PROVE  Inv'
<1>1. Typed /\ TypeOK /\ ConnT
    BY ShapeFacts DEF Inv
<1>2. /\ UNCHANGED <<ping_check, io, net, write_req, peerstore, new_peer, swarm, connections, mux>>
      /\ UNCHANGED <<inbox, calls, sends, disturbed>>
      /\ conn[n][k].at \in Running /\ Moves(n, k, "panicked")
    BY DEF ConnStarved, connOnly, Running
<1>3. Turns(n, k, "panicked")
    BY <1>1, <1>2, MovesFacts DEF ConnLabels
<1>4. TypeOK'
    BY <1>1, <1>2, <1>3, TypeKept DEF Turns
<1> QED BY <1>2, <1>3, <1>4, RunsKeeps DEF Over

-----------------------------------------------------------------------------
(* The I/O task and the network. *)

(* While the swarms and the connections stand, everything is known as       *)
(* before, and what was heard before is.                                    *)
LEMMA Stands ==
    ASSUME Inv, TypeOK', UNCHANGED conn, UNCHANGED swarm, \A n \in Nodes : IoOk(n)',
           \A n \in Nodes, k \in Handles : conn[n][k].at = "none" => inbox'[n][k] = inbox[n][k]
    PROVE  /\ Typed' /\ Grows /\ Registers /\ SwarmKnown'
           /\ \A n, m \in Nodes : \A p : Meets(n, m, p) => MeetsNext(n, m, p)
           /\ \A n, m \in Nodes : Known(n, m) => KnownNext(n, m)
           /\ \A n \in Nodes, k \in Handles : inbox'[n][k] = inbox[n][k] =>
                (inbox'[n][k] # <<>> \/ conn'[n][k].at \in Running =>
                   KnownNext(conn'[n][k].peer, n))
<1>1. Typed /\ Underway
    BY DEF Inv
<1>2. Typed' /\ Grows
  <2>1. Still
      BY DEF Still
  <2> QED BY <1>1, <2>1, StillShape
<1>3. Registers
    BY DEF Registers
<1>4. SwarmKnown'
    BY <1>1, <1>2, <1>3, SwarmKnownKept DEF Underway
<1>5. ASSUME NEW n \in Nodes, NEW k \in Handles, inbox'[n][k] = inbox[n][k]
      PROVE  inbox'[n][k] # <<>> \/ conn'[n][k].at \in Running => KnownNext(conn'[n][k].peer, n)
  <2>1. CASE conn[n][k].at # "none"
      BY <1>1, <1>2, <1>3, <1>5, <2>1, ConnsKnownKept DEF Underway
  <2>2. CASE conn[n][k].at = "none"
      BY <1>1, <1>5, <2>2, ShapeFacts DEF ConnOk, Running
  <2> QED BY <2>1, <2>2
<1> QED BY <1>2, <1>3, <1>4, <1>5, KnownKept, MeetsKept

(* A datagram in the hands of the I/O task is known as on the way.          *)
LEMMA ReceiveKeeps ==
    ASSUME Inv, NEW n \in Nodes, NEW m \in Nodes, Receive(n, m)
    PROVE  Inv'
<1> DEFINE p == Head(net[n][m])
           v == [at |-> "holds", from |-> m, packet |-> p]
<1>1. Typed /\ TypeOK /\ IoT /\ NetT /\ Routes /\ Underway /\ Causes
    BY ShapeFacts DEF Inv
<1>2. /\ UNCHANGED <<ping_check, write_req, peerstore, new_peer, swarm, connections, conn, inbox>>
      /\ UNCHANGED <<mux, calls, sends, disturbed>>
    BY DEF Receive
<1>3. /\ NetT' /\ p \in Packets /\ Holds(net[n][m], p)
      /\ \A x, y \in Nodes : Fewer(net'[x][y], net[x][y])
    BY <1>1, NetTakes DEF Receive
<1>4. v \in Ios
    BY <1>3 DEF Ios, IoLabels
<1>5. IoBecomes(n, v)
    BY <1>1, <1>4, IoSet DEF Receive
<1>6. TypeOK'
    BY <1>1, <1>2, <1>3, <1>5, TypeKept DEF IoBecomes
<1>7. \A x \in Nodes : IoOk(x)'
    BY <1>1, <1>3, <1>5, ShapeFacts DEF IoBecomes, IoOk
<1>8. /\ Typed' /\ Grows /\ Registers /\ SwarmKnown'
      /\ \A x, y \in Nodes : \A r : Meets(x, y, r) => MeetsNext(x, y, r)
      /\ \A x \in Nodes, k \in Handles :
           inbox'[x][k] # <<>> \/ conn'[x][k].at \in Running => KnownNext(conn'[x][k].peer, x)
    BY <1>2, <1>6, <1>7, Stands
<1>9. Routes'
    BY <1>1, <1>2, <1>8, RoutesKept DEF Routes
<1>10. Underway'
  <2>1. NetKnown'
      BY <1>1, <1>3, <1>8, NetKnownKept DEF Underway
  <2>2. WritesKnown'
      BY <1>1, <1>2, <1>8, WritesKnownKept DEF Underway
  <2>3. IoKnown'
    <3> SUFFICES ASSUME NEW x \in Nodes, io'[x].at # "idle"
                 PROVE  MeetsNext(x, io'[x].from, io'[x].packet)
        BY NextFacts
    <3>1. CASE x = n
      <4>1. Meets(n, m, p)
          BY <1>1, <1>3 DEF Underway, NetKnown
      <4> QED BY <1>5, <1>8, <3>1, <4>1 DEF IoBecomes
    <3>2. CASE x # n
      <4>1. io'[x] = io[x] /\ io[x].from \in Nodes /\ Meets(x, io[x].from, io[x].packet)
          BY <1>1, <1>5, <3>2, ShapeFacts DEF IoBecomes, IoOk, Underway, IoKnown
      <4> QED BY <1>8, <4>1
    <3> QED BY <3>1, <3>2
  <2>4. PeersKnown'
      BY <1>1, <1>2, <1>8, PeersKnownKept DEF Underway, Fewer
  <2> QED BY <1>8, <2>1, <2>2, <2>3, <2>4, NextFacts DEF Underway
<1>11. Causes'
  <2> SUFFICES ASSUME NEW x \in Nodes
               PROVE  Up(x)' \/ FellNext(x, io'[x].from) \/ Stuck(x)'
      BY NextFacts
  <2>1. CASE x = n
      BY <1>5, <2>1 DEF IoBecomes, Up
  <2>2. CASE x # n
    <3>1. io'[x] = io[x]
        BY <1>5, <2>2 DEF IoBecomes
    <3>2. Up(x) \/ Fell(x, io[x].from) \/ Stuck(x)
        BY <1>1 DEF Causes
    <3> QED BY <1>2, <1>8, <3>1, <3>2, EndedKept DEF Up, Stuck
  <2> QED BY <2>1, <2>2
<1> QED BY <1>8, <1>9, <1>10, <1>11 DEF Inv

(* An I/O task that becomes idle holds nothing.                             *)
LEMMA IdleFacts ==
    ASSUME Typed, NEW n \in Nodes, io' = [io EXCEPT ![n] = Idle], io[n].at # "dead"
    PROVE  /\ IoBecomes(n, Idle) /\ \A x \in Nodes : IoOk(x)'
           /\ \A x \in Nodes : Up(x)' \/ (io'[x] = io[x] /\ ~Up(x))
<1>1. IoT
    BY ShapeFacts
<1>2. Idle \in Ios /\ Idle.at = "idle"
    BY DEF Ios, IoLabels, Idle
<1>3. IoBecomes(n, Idle)
    BY <1>1, <1>2, IoSet
<1>4. \A x \in Nodes : IoOk(x)'
    BY <1>2, <1>3, ShapeFacts DEF IoBecomes, IoOk
<1> QED BY <1>2, <1>3, <1>4 DEF IoBecomes, Up

(* What an idle I/O task keeps known.                                       *)
LEMMA IdleKnown ==
    ASSUME Inv, NEW n \in Nodes, IoBecomes(n, Idle),
           \A x, y \in Nodes : \A r : Meets(x, y, r) => MeetsNext(x, y, r)
    PROVE  IoKnown'
<1> SUFFICES ASSUME NEW x \in Nodes, io'[x].at # "idle"
             PROVE  MeetsNext(x, io'[x].from, io'[x].packet)
    BY NextFacts
<1>1. x # n
    BY DEF IoBecomes, Idle
<1>2. io'[x] = io[x] /\ io[x].from \in Nodes /\ Meets(x, io[x].from, io[x].packet)
    BY <1>1, ShapeFacts DEF IoBecomes, IoOk, Inv, Underway, IoKnown
<1> QED BY <1>2

(* A Connect that waits to be accepted came from a node that dials.         *)
LEMMA NotifyKeeps ==
    ASSUME Inv, NEW n \in Nodes, Notify(n)
    PROVE  Inv'
<1> DEFINE m == io[n].from
<1>1. Typed /\ TypeOK /\ NewT /\ Routes /\ Underway /\ Causes
    BY ShapeFacts DEF Inv
<1>2. /\ UNCHANGED <<ping_check, net, write_req, peerstore, swarm, connections, conn, inbox>>
      /\ UNCHANGED <<mux, calls, sends, disturbed>>
      /\ io[n].at = "holds" /\ io[n].packet = "connect"
    BY DEF Notify
<1>3. m \in Nodes /\ Known(m, n)
    BY <1>1, <1>2, ShapeFacts DEF IoOk, Underway, IoKnown, Meets
<1>4. /\ NewT'
      /\ \A x \in Nodes : \A r : Holds(new_peer'[x], r) =>
           Holds(new_peer[x], r) \/ (x = n /\ r = m)
    BY <1>1, <1>3, NewGets DEF Notify
<1>5. /\ IoBecomes(n, Idle) /\ \A x \in Nodes : IoOk(x)'
      /\ \A x \in Nodes : Up(x)' \/ (io'[x] = io[x] /\ ~Up(x))
    BY <1>1, <1>2, IdleFacts DEF Notify
<1>6. TypeOK'
    BY <1>1, <1>2, <1>4, <1>5, TypeKept DEF IoBecomes
<1>7. /\ Typed' /\ Grows /\ Registers /\ SwarmKnown'
      /\ \A x, y \in Nodes : \A r : Meets(x, y, r) => MeetsNext(x, y, r)
      /\ \A x, y \in Nodes : Known(x, y) => KnownNext(x, y)
      /\ \A x \in Nodes, k \in Handles :
           inbox'[x][k] # <<>> \/ conn'[x][k].at \in Running => KnownNext(conn'[x][k].peer, x)
    BY <1>2, <1>5, <1>6, Stands
<1>8. Routes'
    BY <1>1, <1>2, <1>7, RoutesKept DEF Routes
<1>9. Underway'
  <2>1. NetKnown'
      BY <1>1, <1>2, <1>7, NetKnownKept DEF Underway, Fewer
  <2>2. WritesKnown'
      BY <1>1, <1>2, <1>7, WritesKnownKept DEF Underway
  <2>3. IoKnown'
      BY <1>5, <1>7, IdleKnown
  <2>4. PeersKnown'
    <3> SUFFICES ASSUME NEW x \in Nodes, NEW y \in Nodes, Holds(new_peer'[x], y)
                 PROVE  KnownNext(y, x)
        BY NextFacts
    <3> QED BY <1>1, <1>3, <1>4, <1>7 DEF Underway, PeersKnown
  <2> QED BY <1>7, <2>1, <2>2, <2>3, <2>4, NextFacts DEF Underway
<1>10. Causes'
  <2> SUFFICES ASSUME NEW x \in Nodes
               PROVE  Up(x)' \/ FellNext(x, io'[x].from) \/ Stuck(x)'
      BY NextFacts
  <2>1. CASE io'[x] = io[x] /\ ~Up(x)
      BY <1>1, <1>2, <1>7, <2>1, EndedKept DEF Causes, Stuck
  <2> QED BY <1>5, <2>1
<1> QED BY <1>7, <1>8, <1>9, <1>10 DEF Inv

(* A payload goes to a connection with the peer it came from, which knows   *)
(* this node.                                                               *)
LEMMA RouteKeeps ==
    ASSUME Inv, NEW n \in Nodes, Route(n)
    PROVE  Inv'
<1> DEFINE m == io[n].from
           k == peerstore[n][m]
<1>1. Typed /\ TypeOK /\ InboxT /\ Routes /\ Underway /\ Causes /\ peerstore \in Maps
    BY ShapeFacts DEF Inv
<1>2. /\ UNCHANGED <<ping_check, net, write_req, peerstore, new_peer, swarm, connections, conn>>
      /\ UNCHANGED <<mux, calls, sends, disturbed>>
      /\ io[n].at = "holds" /\ io[n].packet # "connect" /\ Open(n, k)
    BY DEF Route, Target
<1>3. m \in Nodes /\ io[n].packet \in Payloads /\ Known(m, n)
    BY <1>1, <1>2, ShapeFacts DEF IoOk, Packets, Underway, IoKnown, Meets
<1>4. k \in Handles /\ conn[n][k].peer = m /\ conn[n][k].at # "none"
    BY <1>1, <1>2, <1>3 DEF Maps, Open, Routes, Mapped
<1>5. /\ InboxT'
      /\ \A x \in Nodes, j \in Handles : ~(x = n /\ j = k) => inbox'[x][j] = inbox[x][j]
  <2> HIDE DEF m
  <2> QED BY <1>1, <1>3, <1>4, InboxGets DEF Route, Target, m
<1>6. /\ IoBecomes(n, Idle) /\ \A x \in Nodes : IoOk(x)'
      /\ \A x \in Nodes : Up(x)' \/ (io'[x] = io[x] /\ ~Up(x))
    BY <1>1, <1>2, IdleFacts DEF Route
<1> HIDE DEF m, k
<1>7. TypeOK'
    BY <1>1, <1>2, <1>5, <1>6, TypeKept DEF IoBecomes
<1>8. /\ Typed' /\ Grows /\ Registers /\ SwarmKnown'
      /\ \A x, y \in Nodes : \A r : Meets(x, y, r) => MeetsNext(x, y, r)
      /\ \A x, y \in Nodes : Known(x, y) => KnownNext(x, y)
      /\ \A x \in Nodes, j \in Handles : inbox'[x][j] = inbox[x][j] =>
           (inbox'[x][j] # <<>> \/ conn'[x][j].at \in Running => KnownNext(conn'[x][j].peer, x))
  <2>1. \A x \in Nodes, j \in Handles : conn[x][j].at = "none" => inbox'[x][j] = inbox[x][j]
      BY <1>4, <1>5
  <2> QED BY <1>2, <1>6, <1>7, <2>1, Stands
<1>9. Routes'
    BY <1>1, <1>2, <1>8, RoutesKept DEF Routes
<1>10. Underway'
  <2>1. NetKnown'
      BY <1>1, <1>2, <1>8, NetKnownKept DEF Underway, Fewer
  <2>2. WritesKnown'
      BY <1>1, <1>2, <1>8, WritesKnownKept DEF Underway
  <2>3. IoKnown'
      BY <1>6, <1>8, IdleKnown
  <2>4. PeersKnown'
      BY <1>1, <1>2, <1>8, PeersKnownKept DEF Underway, Fewer
  <2>5. \A x \in Nodes, j \in Handles :
          inbox'[x][j] # <<>> \/ conn'[x][j].at \in Running => KnownNext(conn'[x][j].peer, x)
      BY <1>2, <1>3, <1>4, <1>5, <1>8
  <2> QED BY <1>8, <2>1, <2>2, <2>3, <2>4, <2>5, NextFacts DEF Underway
<1>11. Causes'
  <2> SUFFICES ASSUME NEW x \in Nodes
               PROVE  Up(x)' \/ FellNext(x, io'[x].from) \/ Stuck(x)'
      BY NextFacts
  <2>1. CASE io'[x] = io[x] /\ ~Up(x)
    <3>1. x # n
        BY <1>2, <2>1 DEF Up
    <3>2. CASE Fell(x, io[x].from)
        BY <1>8, <2>1, <3>2, EndedKept
    <3>3. CASE Stuck(x)
      <4>1. swarm[x].conn \in Handles
          BY <1>1, <3>3, ShapeFacts DEF Stuck, SwarmOk
      <4> QED BY <1>2, <1>5, <2>1, <3>1, <3>3, <4>1 DEF Stuck
    <3> QED BY <1>1, <2>1, <3>2, <3>3 DEF Causes
  <2> QED BY <1>6, <2>1
<1> QED BY <1>8, <1>9, <1>10, <1>11 DEF Inv

(* A payload that finds no open connection comes from a peer a connection   *)
(* fell with, or one that is about to be registered.                        *)
LEMMA RoutePanicKeeps ==
    ASSUME Inv, NEW n \in Nodes, RoutePanic(n)
    PROVE  Inv'
<1> DEFINE m == io[n].from
           k == peerstore[n][m]
           v == [io[n] EXCEPT !.at = "dead"]
<1>1. /\ Typed /\ TypeOK /\ IoT /\ WriteT /\ Routes /\ Underway /\ Causes /\ peerstore \in Maps
      /\ io[n] \in Ios
    BY ShapeFacts DEF Inv
<1>2. /\ UNCHANGED <<ping_check, net, peerstore, new_peer, swarm, connections, conn, inbox>>
      /\ UNCHANGED <<mux, calls, sends, disturbed>>
      /\ io[n].at = "holds" /\ io[n].packet # "connect" /\ ~Open(n, k)
    BY DEF RoutePanic, Target
<1>3. m \in Nodes /\ Known(n, m)
    BY <1>1, <1>2, ShapeFacts DEF IoOk, Underway, IoKnown, Meets
<1>4. v \in Ios /\ v.at = "dead" /\ v.from = m /\ v.packet = io[n].packet
    BY <1>1 DEF Ios, IoLabels
<1>5. IoBecomes(n, v)
  <2>1. io' = [io EXCEPT ![n] = v]
      BY DEF RoutePanic
  <2> HIDE DEF v
  <2> QED BY <1>1, <1>4, <2>1, IoSet
<1> HIDE DEF v
<1>6. WriteT' /\ \A x \in Nodes : Fewer(write_req'[x], write_req[x])
    BY <1>1, WriteClears DEF RoutePanic
<1>7. TypeOK'
    BY <1>1, <1>2, <1>5, <1>6, TypeKept DEF IoBecomes
<1>8. \A x \in Nodes : IoOk(x)'
    BY <1>1, <1>2, <1>4, <1>5, ShapeFacts DEF IoBecomes, IoOk
<1>9. /\ Typed' /\ Grows /\ Registers /\ SwarmKnown'
      /\ \A x, y \in Nodes : \A r : Meets(x, y, r) => MeetsNext(x, y, r)
      /\ \A x, y \in Nodes : Known(x, y) => KnownNext(x, y)
      /\ \A x \in Nodes, j \in Handles :
           inbox'[x][j] # <<>> \/ conn'[x][j].at \in Running => KnownNext(conn'[x][j].peer, x)
    BY <1>2, <1>7, <1>8, Stands
<1>10. Routes'
    BY <1>1, <1>2, <1>6, <1>9, RoutesKept DEF Routes, Fewer
<1>11. Underway'
  <2>1. NetKnown'
      BY <1>1, <1>2, <1>9, NetKnownKept DEF Underway, Fewer
  <2>2. WritesKnown'
      BY <1>1, <1>6, <1>9, WritesKnownKept DEF Underway, Fewer
  <2>3. IoKnown'
    <3> SUFFICES ASSUME NEW x \in Nodes, io'[x].at # "idle"
                 PROVE  MeetsNext(x, io'[x].from, io'[x].packet)
        BY NextFacts
    <3>1. io[x].at # "idle" /\ io'[x].from = io[x].from /\ io'[x].packet = io[x].packet
        BY <1>2, <1>4, <1>5 DEF IoBecomes
    <3>2. io[x].from \in Nodes /\ Meets(x, io[x].from, io[x].packet)
        BY <1>1, <3>1, ShapeFacts DEF IoOk, Underway, IoKnown
    <3> QED BY <1>9, <3>1, <3>2
  <2>4. PeersKnown'
      BY <1>1, <1>2, <1>9, PeersKnownKept DEF Underway, Fewer
  <2> QED BY <1>9, <2>1, <2>2, <2>3, <2>4, NextFacts DEF Underway
<1>12. Fell(n, m) \/ (swarm[n].at = "register" /\ swarm[n].peer = m)
  <2>1. CASE k # None
    <3>1. k \in Handles /\ conn[n][k].peer = m /\ conn[n][k].at # "none"
        BY <1>1, <1>3, <2>1 DEF Maps, Routes, Mapped
    <3> QED BY <1>2, <2>1, <3>1 DEF Open, Fell
  <2>2. ASSUME k = None, NEW j \in Handles, conn[n][j].peer = m, conn[n][j].at # "none"
        PROVE  Fell(n, m)
    <3>1. Ended(n, m)
        BY <1>1, <2>2 DEF Routes, Routed, k
    <3> QED BY <3>1 DEF Ended, Fell
  <2> QED BY <1>3, <2>1, <2>2 DEF Known
<1>13. Causes'
  <2> SUFFICES ASSUME NEW x \in Nodes
               PROVE  Up(x)' \/ FellNext(x, io'[x].from) \/ Stuck(x)'
      BY NextFacts
  <2>1. CASE x = n
      BY <1>2, <1>4, <1>5, <1>9, <1>12, <2>1, EndedKept DEF IoBecomes, Stuck
  <2>2. CASE x # n
    <3>1. io'[x] = io[x]
        BY <1>5, <2>2 DEF IoBecomes
    <3>2. Up(x) \/ Fell(x, io[x].from) \/ Stuck(x)
        BY <1>1 DEF Causes
    <3> QED BY <1>2, <1>9, <3>1, <3>2, EndedKept DEF Up, Stuck
  <2> QED BY <2>1, <2>2
<1> QED BY <1>9, <1>10, <1>11, <1>13 DEF Inv

(* A datagram of a full network is lost.                                    *)
LEMMA LoseKeeps ==
    ASSUME Inv, NEW n \in Nodes, NEW m \in Nodes, Lose(n, m)
    PROVE  Inv'
<1>1. Typed /\ TypeOK /\ NetT /\ CountT /\ Routes /\ Underway /\ Causes
    BY ShapeFacts DEF Inv
<1>2. /\ UNCHANGED <<ping_check, io, write_req, peerstore, new_peer, swarm, connections, conn>>
      /\ UNCHANGED <<inbox, mux, calls, sends>> /\ disturbed' = disturbed \cup {"lost"}
    BY DEF Lose
<1>3. NetT' /\ \A x, y \in Nodes : Fewer(net'[x][y], net[x][y])
    BY <1>1, NetTakes DEF Lose
<1>4. CountT'
    BY <1>1, <1>2 DEF CountT
<1>5. TypeOK'
    BY <1>1, <1>2, <1>3, <1>4, TypeKept
<1>6. \A x \in Nodes : IoOk(x)'
    BY <1>1, <1>2, ShapeFacts DEF IoOk
<1>7. /\ Typed' /\ Grows /\ Registers /\ SwarmKnown'
      /\ \A x \in Nodes, j \in Handles :
           inbox'[x][j] # <<>> \/ conn'[x][j].at \in Running => KnownNext(conn'[x][j].peer, x)
    BY <1>2, <1>5, <1>6, Stands
<1>8. Routes'
    BY <1>1, <1>2, <1>7, RoutesKept DEF Routes
<1>9. Underway'
  <2>1. NetKnown'
      BY <1>1, <1>3, <1>7, NetKnownKept DEF Underway
  <2>2. WritesKnown'
      BY <1>1, <1>2, <1>7, WritesKnownKept DEF Underway
  <2>3. IoKnown'
      BY <1>1, <1>2, <1>7, IoKnownKept DEF Underway
  <2>4. PeersKnown'
      BY <1>1, <1>2, <1>7, PeersKnownKept DEF Underway, Fewer
  <2> QED BY <1>7, <2>1, <2>2, <2>3, <2>4, NextFacts DEF Underway
<1>10. Causes'
    BY <1>1, <1>2, <1>7, CausesKept, NextFacts
<1> QED BY <1>7, <1>8, <1>9, <1>10 DEF Inv

(* A frame goes out to the peer it met, or empties the entry of a peer a    *)
(* connection to which has closed.                                          *)
LEMMA FlushKeeps ==
    ASSUME Inv, NEW n \in Nodes, Flush(n)
    PROVE  Inv'
<1> DEFINE f == Head(write_req[n])
<1>1. /\ Typed /\ TypeOK /\ NetT /\ WriteT /\ CountT /\ Routes /\ Underway /\ Causes
      /\ peerstore \in Maps
    BY ShapeFacts DEF Inv
<1>2. /\ UNCHANGED <<ping_check, io, new_peer, swarm, connections, conn, inbox, mux, calls, sends>>
      /\ write_req[n] # <<>> /\ write_req' = [write_req EXCEPT ![n] = Tail(@)]
    BY DEF Flush
<1>3. /\ WriteT' /\ f \in Frames /\ Holds(write_req[n], f)
      /\ \A x \in Nodes : Fewer(write_req'[x], write_req[x])
    BY <1>1, <1>2, WriteTakes
<1>4. f.to \in Nodes /\ (~f.internal => f.packet \in Packets)
    BY <1>3 DEF Frames
<1>5. \/ /\ f.internal /\ peerstore' = [peerstore EXCEPT ![n][f.to] = None]
         /\ UNCHANGED <<net, disturbed>>
      \/ /\ ~f.internal /\ Len(net[f.to][n]) < NetCap
         /\ net' = [net EXCEPT ![f.to][n] = Append(@, f.packet)]
         /\ UNCHANGED <<disturbed, peerstore>>
      \/ ~f.internal /\ disturbed' = disturbed \cup {"lost"} /\ UNCHANGED <<net, peerstore>>
    BY DEF Flush
<1> HIDE DEF f
<1>6. /\ NetT'
      /\ \A x, y \in Nodes : \A r : Holds(net'[x][y], r) =>
           Holds(net[x][y], r) \/ (x = f.to /\ y = n /\ r = f.packet /\ ~f.internal)
  <2>1. CASE UNCHANGED net
      BY <1>1, <2>1, SameTypes
  <2>2. CASE /\ ~f.internal /\ Len(net[f.to][n]) < NetCap
             /\ net' = [net EXCEPT ![f.to][n] = Append(@, f.packet)]
    <3>1. PICK to \in Nodes : to = f.to
        BY <1>4
    <3>2. PICK p \in Packets : p = f.packet
        BY <1>4, <2>2
    <3>3. NetSends(to, n, p)
        BY <2>2, <3>1, <3>2 DEF NetSends
    <3>4. /\ NetT'
          /\ \A x, y \in Nodes : \A r : Holds(net'[x][y], r) =>
               Holds(net[x][y], r) \/ (x = to /\ y = n /\ r = p)
        BY <1>1, <3>3, NetGets
    <3> QED BY <2>2, <3>1, <3>2, <3>4
  <2> QED BY <1>5, <2>1, <2>2
<1>7. UNCHANGED peerstore \/ (f.internal /\ StoreBecomes(n, f.to, None))
    BY <1>1, <1>4, <1>5, StoreSet
<1>8. CountT'
  <2>1. UNCHANGED disturbed \/ disturbed' = disturbed \cup {"lost"}
      BY <1>5
  <2> QED BY <1>1, <1>2, <2>1 DEF CountT
<1>9. TypeOK'
  <2>1. peerstore' \in Maps
      BY <1>1, <1>7 DEF StoreBecomes
  <2> QED BY <1>1, <1>2, <1>3, <1>6, <1>8, <2>1, TypeKept
<1>10. \A x \in Nodes : IoOk(x)'
    BY <1>1, <1>2, ShapeFacts DEF IoOk
<1>11. /\ Typed' /\ Grows /\ Registers /\ SwarmKnown'
       /\ \A x, y \in Nodes : \A r : Meets(x, y, r) => MeetsNext(x, y, r)
       /\ \A x \in Nodes, j \in Handles :
            inbox'[x][j] # <<>> \/ conn'[x][j].at \in Running => KnownNext(conn'[x][j].peer, x)
    BY <1>2, <1>9, <1>10, Stands
<1>12. Routes'
  <2>1. CASE UNCHANGED peerstore
      BY <1>1, <1>2, <1>3, <1>11, <2>1, RoutesKept DEF Routes, Fewer
  <2>2. CASE f.internal /\ StoreBecomes(n, f.to, None)
    <3> SUFFICES ASSUME NEW x \in Nodes
                 PROVE  Mapped(x)' /\ Closing(x)' /\ Routed(x)'
        BY DEF Routes
    <3>1. Mapped(x) /\ Closing(x) /\ Routed(x) /\ Closing(n)
        BY <1>1 DEF Routes
    <3>2. \A m \in Nodes : \/ peerstore'[x][m] = peerstore[x][m]
                           \/ peerstore'[x][m] = None /\ m = f.to /\ x = n
        BY <2>2 DEF StoreBecomes
    <3>3. Mapped(x)'
        BY <1>2, <3>1, <3>2 DEF Mapped
    <3>4. Closing(x)'
        BY <1>2, <1>3, <3>1 DEF Closing, Ended, Fewer
    <3>5. Ended(n, f.to)
        BY <1>3, <2>2, <3>1 DEF Closing
    <3>6. Routed(x)'
      <4>1. \A j \in Handles : conn[x][j].at # "none" => conn[x][j].peer \in Nodes
          BY <1>1, ShapeFacts DEF ConnOk
      <4> QED BY <1>2, <3>1, <3>2, <3>5, <4>1 DEF Routed, Ended
    <3> QED BY <3>3, <3>4, <3>6
  <2> QED BY <1>7, <2>1, <2>2
<1>13. Underway'
  <2>1. NetKnown'
    <3> SUFFICES ASSUME NEW x \in Nodes, NEW y \in Nodes, NEW p \in Packets, Holds(net'[x][y], p)
                 PROVE  MeetsNext(x, y, p)
        BY NextFacts
    <3>1. CASE Holds(net[x][y], p)
        BY <1>1, <1>11, <3>1 DEF Underway, NetKnown
    <3>2. CASE x = f.to /\ y = n /\ p = f.packet /\ ~f.internal
        BY <1>1, <1>3, <1>11, <3>2 DEF Underway, WritesKnown
    <3> QED BY <1>6, <3>1, <3>2
  <2>2. WritesKnown'
      BY <1>1, <1>3, <1>11, WritesKnownKept DEF Underway, Fewer
  <2>3. IoKnown'
      BY <1>1, <1>2, <1>11, IoKnownKept DEF Underway
  <2>4. PeersKnown'
      BY <1>1, <1>2, <1>11, PeersKnownKept DEF Underway, Fewer
  <2> QED BY <1>11, <2>1, <2>2, <2>3, <2>4, NextFacts DEF Underway
<1>14. Causes'
    BY <1>1, <1>2, <1>11, CausesKept, NextFacts
<1> QED BY <1>11, <1>12, <1>13, <1>14 DEF Inv


-----------------------------------------------------------------------------
(* The swarm. *)

(* A step of a swarm leaves the other nodes alone; of its own node it has   *)
(* to keep the shape, the map and what is known.                            *)
LEMMA SwarmStepKeeps ==
    ASSUME Inv, TypeOK', NEW n \in Nodes, UNCHANGED <<io, net>>, Grows, Registers,
           \A x \in Nodes : x # n => /\ swarm'[x] = swarm[x] /\ conn'[x] = conn[x]
                                     /\ peerstore'[x] = peerstore[x] /\ inbox'[x] = inbox[x],
           SwarmOk(n)', \A j \in Handles : ConnOk(n, j)',
           Mapped(n)', Routed(n)',
           \A x \in Nodes : Fewer(new_peer'[x], new_peer[x]),
           \A x \in Nodes, f \in Frames : Holds(write_req'[x], f) =>
             Holds(write_req[x], f) \/ (~f.internal /\ MeetsNext(f.to, x, f.packet)),
           swarm'[n].at \in Upgrading \ {"ackIn"} => KnownNext(swarm'[n].peer, n),
           \A j \in Handles : inbox'[n][j] # <<>> \/ conn'[n][j].at \in Running =>
             KnownNext(conn'[n][j].peer, n),
           ~Up(n) => FellNext(n, io[n].from) \/ Stuck(n)'
    PROVE  Inv'
<1>1. Typed /\ Routes /\ Underway /\ Causes
    BY DEF Inv
<1>2. UNCHANGED io /\ UNCHANGED net
    OBVIOUS
<1>3. ASSUME NEW x \in Nodes
      PROVE  IoOk(x)' /\ SwarmOk(x)' /\ \A j \in Handles : ConnOk(x, j)'
  <2>1. IoOk(x) /\ SwarmOk(x) /\ \A j \in Handles : ConnOk(x, j)
      BY <1>1, ShapeFacts
  <2>2. IoOk(x)'
      BY <1>2, <2>1 DEF IoOk
  <2>3. CASE x = n
      BY <2>2, <2>3
  <2>4. CASE x # n
    <3>1. SwarmOk(x)'
        BY <2>1, <2>4 DEF SwarmOk
    <3>2. \A j \in Handles : ConnOk(x, j)'
        BY <2>1, <2>4 DEF ConnOk
    <3> QED BY <2>2, <3>1, <3>2
  <2> QED BY <2>3, <2>4
<1>4. Typed'
    BY <1>3 DEF Typed, Shape
<1>5. Routes'
  <2> SUFFICES ASSUME NEW x \in Nodes
               PROVE  Mapped(x)' /\ Closing(x)' /\ Routed(x)'
      BY DEF Routes
  <2>1. Mapped(x) /\ Closing(x) /\ Routed(x)
      BY <1>1 DEF Routes
  <2>2. Closing(x)'
    <3> SUFFICES ASSUME NEW f \in Frames, Holds(write_req'[x], f), f.internal
                 PROVE  EndedNext(x, f.to)
        BY DEF Closing, Ended, EndedNext
    <3> QED BY <2>1, EndedKept DEF Closing
  <2>3. CASE x = n
      BY <2>2, <2>3
  <2>4. CASE x # n
      BY <2>1, <2>2, <2>4 DEF Mapped, Routed, Ended
  <2> QED BY <2>3, <2>4
<1>6. Underway'
  <2>1. NetKnown'
      BY <1>1, <1>2, NetKnownKept DEF Underway, Fewer
  <2>2. WritesKnown'
    <3> SUFFICES ASSUME NEW x \in Nodes, NEW f \in Frames, Holds(write_req'[x], f), ~f.internal
                 PROVE  MeetsNext(f.to, x, f.packet)
        BY NextFacts
    <3>1. CASE Holds(write_req[x], f)
      <4>1. f.to \in Nodes /\ Meets(f.to, x, f.packet)
          BY <1>1, <3>1 DEF Underway, WritesKnown, Frames
      <4> QED BY <4>1, MeetsKept
    <3> QED BY <3>1
  <2>3. IoKnown'
      BY <1>1, <1>2, IoKnownKept DEF Underway
  <2>4. PeersKnown'
      BY <1>1, PeersKnownKept DEF Underway
  <2>5. SwarmKnown'
    <3> SUFFICES ASSUME NEW x \in Nodes, swarm'[x].at \in Upgrading \ {"ackIn"}, x # n
                 PROVE  KnownNext(swarm'[x].peer, x)
        BY NextFacts
    <3>1. swarm[x].peer \in Nodes /\ Known(swarm[x].peer, x)
        BY <1>1, ShapeFacts DEF Underway, SwarmKnown, SwarmOk, Upgrading
    <3> QED BY <3>1, KnownKept
  <2>6. ConnsKnown'
    <3> SUFFICES ASSUME NEW x \in Nodes, NEW j \in Handles, x # n
                 PROVE  inbox'[x][j] # <<>> \/ conn'[x][j].at \in Running =>
                          KnownNext(conn'[x][j].peer, x)
        BY NextFacts
    <3>1. CASE conn[x][j].at # "none"
        BY <1>1, <3>1, ConnsKnownKept DEF Underway
    <3>2. CASE conn[x][j].at = "none"
        BY <1>1, <3>2, ShapeFacts DEF ConnOk, Running
    <3> QED BY <3>1, <3>2
  <2> QED BY <2>1, <2>2, <2>3, <2>4, <2>5, <2>6 DEF Underway
<1>7. Causes'
  <2> SUFFICES ASSUME NEW x \in Nodes, ~Up(x)
               PROVE  FellNext(x, io[x].from) \/ Stuck(x)'
      BY <1>2, NextFacts DEF Up
  <2>1. CASE x = n
      BY <2>1
  <2>2. CASE x # n
    <3>1. Fell(x, io[x].from) \/ Stuck(x)
        BY <1>1 DEF Causes
    <3> QED BY <1>2, <2>2, <3>1, EndedKept DEF Stuck
  <2> QED BY <2>1, <2>2
<1> QED BY <1>4, <1>5, <1>6, <1>7 DEF Inv

(* A connection that was upgraded, or dropped, in the step of its swarm.    *)
Swerves(n, j) ==
    \/ conn'[n][j] = conn[n][j]
    \/ /\ conn[n][j].at # "none" /\ conn[n][j].at \notin Over
       /\ conn'[n][j].peer = conn[n][j].peer /\ conn'[n][j].at = "panicked"

(* A swarm that panics.                                                     *)
LEMMA DiesFacts ==
    ASSUME Inv, NEW n \in Nodes, Dies(n), swarm[n].at # "dead"
    PROVE  /\ SwarmT' /\ swarm'[n].at = "dead" /\ \A x \in Nodes : x # n => swarm'[x] = swarm[x]
           /\ ConnT' /\ \A x \in Nodes : x # n => conn'[x] = conn[x]
           /\ \A j \in Handles : Swerves(n, j)
           /\ swarm[n].at \in Upgrading => FellNext(n, swarm[n].peer)
<1> DEFINE k == swarm[n].conn
           s == [swarm[n] EXCEPT !.at = "dead"]
           c == [conn[n][k] EXCEPT !.at = "panicked"]
<1>1. /\ Typed /\ SwarmT /\ ConnT /\ swarm[n] \in Swarms /\ SwarmOk(n)
      /\ \A j \in Handles : conn[n][j] \in Conns
    BY ShapeFacts DEF Inv
<1>2. k \in Handles \cup {None}
    BY <1>1 DEF Swarms
<1>3. SwarmT' /\ swarm'[n].at = "dead" /\ \A x \in Nodes : x # n => swarm'[x] = swarm[x]
  <2>1. s \in Swarms /\ s.at = "dead" /\ swarm' = [swarm EXCEPT ![n] = s]
      BY <1>1 DEF Swarms, SwarmLabels, Dies
  <2> HIDE DEF s
  <2>2. SwarmBecomes(n, s)
      BY <1>1, <2>1, SwarmSet
  <2> QED BY <2>1, <2>2 DEF SwarmBecomes
<1>4. CASE ~Open(n, k)
  <2>1. UNCHANGED conn
      BY <1>4 DEF Dies
  <2>2. swarm[n].at \notin Upgrading
      BY <1>1, <1>4, Constants DEF SwarmOk, Upgrading, Open
  <2>3. ConnT'
      BY <1>1, <2>1, SameTypes
  <2> QED BY <1>3, <2>1, <2>2, <2>3 DEF Swerves
<1>5. CASE Open(n, k)
  <2>1. k \in Handles /\ conn[n][k].at # "none" /\ conn[n][k].at \notin Over
      BY <1>2, <1>5 DEF Open, Over
  <2>2. c \in Conns /\ c.at = "panicked" /\ c.peer = conn[n][k].peer
      BY <1>1, <2>1 DEF Conns, ConnLabels
  <2>3. conn' = [conn EXCEPT ![n][k] = c]
      BY <1>1, <1>5 DEF Dies, ConnT
  <2> HIDE DEF c
  <2>4. ConnBecomes(n, k, c)
      BY <1>1, <2>1, <2>2, <2>3, ConnSet
  <2>5. \A j \in Handles : Swerves(n, j)
      BY <2>1, <2>2, <2>4 DEF ConnBecomes, Swerves
  <2>6. swarm[n].at \in Upgrading => FellNext(n, swarm[n].peer)
      BY <1>1, <2>1, <2>2, <2>4 DEF SwarmOk, ConnBecomes, FellNext, Over
  <2> QED BY <1>3, <2>4, <2>5, <2>6 DEF ConnBecomes
<1> QED BY <1>4, <1>5

(* It takes its connection with it, and leaves the rest as it was.          *)
LEMMA DiesKeeps ==
    ASSUME Inv, TypeOK', NEW n \in Nodes, Dies(n), swarm[n].at \notin {"dead", "register"},
           UNCHANGED <<io, net, write_req, peerstore, new_peer>>,
           \A x \in Nodes : x # n => inbox'[x] = inbox[x],
           \A j \in Handles : inbox'[n][j] = inbox[n][j]
                              \/ (conn[n][j].at # "none" /\ inbox[n][j] # <<>>)
    PROVE  Inv'
<1>1. Typed /\ Routes /\ Underway /\ Causes
    BY DEF Inv
<1>2. /\ SwarmT' /\ swarm'[n].at = "dead" /\ \A x \in Nodes : x # n => swarm'[x] = swarm[x]
      /\ ConnT' /\ \A x \in Nodes : x # n => conn'[x] = conn[x]
      /\ \A j \in Handles : Swerves(n, j)
      /\ swarm[n].at \in Upgrading => FellNext(n, swarm[n].peer)
    BY DiesFacts
<1>3. Grows
  <2> SUFFICES ASSUME NEW x \in Nodes, NEW j \in Handles, conn[x][j].at # "none"
               PROVE  /\ conn'[x][j].peer = conn[x][j].peer /\ conn'[x][j].at # "none"
                      /\ conn[x][j].at \in Over => conn'[x][j].at = conn[x][j].at
      BY DEF Grows
  <2> QED BY <1>2 DEF Swerves
<1>4. Registers
    BY <1>2 DEF Registers
<1>5. SwarmOk(n)'
    BY <1>2 DEF SwarmOk, Upgrading
<1>6. ASSUME NEW j \in Handles
      PROVE  ConnOk(n, j)'
  <2>1. ConnOk(n, j) /\ Swerves(n, j)
      BY <1>1, <1>2, ShapeFacts
  <2> QED BY <2>1 DEF ConnOk, Swerves
<1>7. Mapped(n)' /\ Closing(n)' /\ Routed(n)'
  <2>1. \A j \in Handles : conn[n][j].at = "none" => conn'[n][j].at = "none"
      BY <1>2 DEF Swerves
  <2> QED BY <1>1, <1>3, <2>1, RoutesKept
<1>8. ASSUME NEW j \in Handles
      PROVE  inbox'[n][j] # <<>> \/ conn'[n][j].at \in Running => KnownNext(conn'[n][j].peer, n)
  <2>1. ConnOk(n, j) /\ Swerves(n, j)
      BY <1>1, <1>2, ShapeFacts
  <2>2. CASE conn[n][j].at # "none"
    <3>1. conn'[n][j].at \in Running => conn[n][j].at \in Running
        BY <2>1 DEF Swerves, Running
    <3> QED BY <1>1, <1>3, <1>4, <2>2, <3>1, ConnsKnownKept DEF Underway
  <2>3. CASE conn[n][j].at = "none"
      BY <2>1, <2>3 DEF Swerves, ConnOk, Running
  <2> QED BY <2>2, <2>3
<1>9. ~Up(n) => FellNext(n, io[n].from) \/ Stuck(n)'
  <2>1. CASE Fell(n, io[n].from)
      BY <1>3, <2>1, EndedKept
  <2>2. CASE Stuck(n)
      BY <1>2, <2>2 DEF Stuck, Upgrading
  <2> QED BY <1>1, <2>1, <2>2 DEF Causes
<1>10. /\ \A x \in Nodes : Fewer(new_peer'[x], new_peer[x])
       /\ \A x \in Nodes, f \in Frames : Holds(write_req'[x], f) => Holds(write_req[x], f)
    BY DEF Fewer
<1>11. swarm'[n].at \notin Upgrading
    BY <1>2 DEF Upgrading
<1> QED BY <1>2, <1>3, <1>4, <1>5, <1>6, <1>7, <1>8, <1>9, <1>10, <1>11, SwarmStepKeeps

(* A swarm that goes on.                                                    *)
LEMMA AdvanceFacts ==
    ASSUME Inv, NEW n \in Nodes, Advance(n), swarm[n].at \in Upgrading \cup {"connectOut"}
    PROVE  /\ SwarmT' /\ \A x \in Nodes : x # n => swarm'[x] = swarm[x]
           /\ swarm[n].conn \in Handles /\ swarm[n].peer \in Nodes
           /\ \/ /\ UNCHANGED <<conn, connections>>
                 /\ swarm'[n].conn = swarm[n].conn /\ swarm'[n].peer = swarm[n].peer
                 /\ swarm[n].at = "connectOut" => swarm'[n].at = "register"
                 /\ swarm[n].at \in Upgrading => swarm'[n].at \in Upgrading \ {"ackIn"}
              \/ /\ swarm'[n] = Looping /\ connections' \in Maps
                 /\ swarm[n].at \in Upgrading \ {"ackIn"}
                 /\ Turns(n, swarm[n].conn, "select")
<1> DEFINE k == swarm[n].conn
           m == swarm[n].peer
           next == After[swarm[n].at]
           check == IF ping_check THEN "sleep" ELSE "off"
           s == [swarm[n] EXCEPT !.at = next]
           c == [conn[n][k] EXCEPT !.at = "select", !.check = check]
<1>1. /\ Typed /\ SwarmT /\ ConnT /\ connections \in Maps /\ swarm[n] \in Swarms
      /\ k \in Handles /\ m \in Nodes
      /\ \A j \in Handles : conn[n][j] \in Conns
    BY ShapeFacts DEF Inv, SwarmOk, Upgrading
<1>2. CASE next = "loop"
  <2>1. swarm[n].at \in {"welcomeIn", "welcomeOut"}
      BY <1>2 DEF After, Upgrading
  <2>2. Looping \in Swarms /\ swarm' = [swarm EXCEPT ![n] = Looping]
      BY <1>2 DEF Swarms, SwarmLabels, Looping, Advance
  <2>3. SwarmBecomes(n, Looping)
      BY <1>1, <2>2, SwarmSet
  <2>4. check \in CheckLabels /\ conn' = [conn EXCEPT ![n][k].at = "select", ![n][k].check = check]
      BY <1>2 DEF CheckLabels, Advance
  <2> HIDE DEF check
  <2>5. /\ c \in Conns /\ c.peer = conn[n][k].peer /\ c.at = "select"
        /\ conn' = [conn EXCEPT ![n][k] = c]
    <3>1. conn[n][k] \in Conns
        BY <1>1
    <3>2. c \in Conns /\ c.peer = conn[n][k].peer /\ c.at = "select"
        BY <2>4, <3>1 DEF Conns, ConnLabels
    <3>3. conn' = [conn EXCEPT ![n][k] = c]
        BY <1>1, <2>4 DEF ConnT
    <3> QED BY <3>2, <3>3
  <2> HIDE DEF c
  <2>6. ConnBecomes(n, k, c)
      BY <1>1, <2>5, ConnSet
  <2>7. Turns(n, k, "select")
      BY <2>5, <2>6 DEF Turns, ConnBecomes
  <2>8. connections' \in Maps
    <3>1. connections' = [connections EXCEPT ![n][m] = k]
        BY <1>2 DEF Advance
    <3> HIDE DEF k, m
    <3> QED BY <1>1, <3>1 DEF Maps
  <2> QED BY <1>1, <2>1, <2>3, <2>7, <2>8 DEF SwarmBecomes, Upgrading
<1>3. CASE next # "loop"
  <2>1. UNCHANGED <<conn, connections>> /\ swarm' = [swarm EXCEPT ![n] = s]
      BY <1>1, <1>3 DEF Advance, SwarmT
  <2>2. /\ swarm[n].at = "connectOut" => next = "register"
        /\ swarm[n].at \in Upgrading => next \in Upgrading \ {"ackIn"}
      BY <1>3 DEF After, Upgrading
  <2>3. s \in Swarms /\ s.at = next /\ s.conn = k /\ s.peer = m
      BY <1>1, <2>2 DEF Swarms, SwarmLabels, Upgrading
  <2> HIDE DEF s
  <2>4. SwarmBecomes(n, s)
      BY <1>1, <2>1, <2>3, SwarmSet
  <2> QED BY <1>1, <2>1, <2>2, <2>3, <2>4 DEF SwarmBecomes
<1> QED BY <1>2, <1>3

(* It writes to the peer of its connection only, and what it has heard came *)
(* from a peer that knows this node.                                        *)
LEMMA AdvanceKeeps ==
    ASSUME Inv, TypeOK', NEW n \in Nodes, Advance(n),
           swarm[n].at \in Upgrading \cup {"connectOut"},
           swarm[n].at = "ackIn" => inbox[n][swarm[n].conn] # <<>>,
           UNCHANGED <<io, net, peerstore, new_peer>>,
           \A x \in Nodes : x # n => inbox'[x] = inbox[x],
           \A j \in Handles : inbox'[n][j] = inbox[n][j]
                              \/ (conn[n][j].at # "none" /\ inbox[n][j] # <<>>),
           \A x \in Nodes, f \in Frames : Holds(write_req'[x], f) =>
             \/ Holds(write_req[x], f)
             \/ /\ x = n /\ f.to = swarm[n].peer /\ ~f.internal
                /\ f.packet = "connect" \/ swarm[n].at \in Upgrading \ {"ackIn"}
    PROVE  Inv'
<1> DEFINE k == swarm[n].conn
           m == swarm[n].peer
<1>1. Typed /\ Routes /\ Underway /\ Causes /\ SwarmOk(n)
    BY ShapeFacts DEF Inv
<1>2. /\ SwarmT' /\ \A x \in Nodes : x # n => swarm'[x] = swarm[x]
      /\ k \in Handles /\ m \in Nodes
      /\ \/ /\ UNCHANGED <<conn, connections>> /\ swarm'[n].conn = k /\ swarm'[n].peer = m
            /\ swarm[n].at = "connectOut" => swarm'[n].at = "register"
            /\ swarm[n].at \in Upgrading => swarm'[n].at \in Upgrading \ {"ackIn"}
         \/ /\ swarm'[n] = Looping /\ connections' \in Maps
            /\ swarm[n].at \in Upgrading \ {"ackIn"}
            /\ Turns(n, k, "select")
    BY AdvanceFacts
<1>3. /\ swarm[n].at = "connectOut" => conn[n][k].at = "none"
      /\ swarm[n].at \in Upgrading => conn[n][k].at = "upgrade" /\ conn[n][k].peer = m
    BY <1>1 DEF SwarmOk
<1>4. swarm[n].at \in Upgrading => Known(m, n)
  <2>1. CASE swarm[n].at = "ackIn"
    <3>1. conn[n][k].peer = m /\ inbox[n][k] # <<>>
        BY <1>3, <2>1 DEF Upgrading
    <3> QED BY <1>1, <1>2, <3>1 DEF Underway, ConnsKnown
  <2>2. CASE swarm[n].at # "ackIn"
      BY <1>1, <2>2 DEF Underway, SwarmKnown
  <2> QED BY <2>1, <2>2
<1> HIDE DEF k, m
<1>5. \A x \in Nodes, j \in Handles : conn'[x][j] = conn[x][j] \/
        (x = n /\ j = k /\ conn[x][j].at = "upgrade" /\ Turns(n, k, "select"))
    BY <1>2, <1>3 DEF Turns
<1>6. Grows
  <2> SUFFICES ASSUME NEW x \in Nodes, NEW j \in Handles, conn[x][j].at # "none"
               PROVE  /\ conn'[x][j].peer = conn[x][j].peer /\ conn'[x][j].at # "none"
                      /\ conn[x][j].at \in Over => conn'[x][j].at = conn[x][j].at
      BY DEF Grows
  <2>1. CASE conn'[x][j] = conn[x][j]
      BY <2>1
  <2>2. CASE x = n /\ j = k /\ conn[x][j].at = "upgrade" /\ Turns(n, k, "select")
      BY <2>2 DEF Turns, Over
  <2> QED BY <1>5, <2>1, <2>2
<1>7. Registers
    BY <1>2 DEF Registers, Upgrading
<1>8. SwarmOk(n)'
  <2>1. CASE swarm'[n] = Looping
      BY <2>1 DEF SwarmOk, Looping, Upgrading
  <2>2. CASE UNCHANGED conn /\ swarm'[n].conn = k /\ swarm'[n].peer = m
             /\ (swarm[n].at = "connectOut" => swarm'[n].at = "register")
             /\ (swarm[n].at \in Upgrading => swarm'[n].at \in Upgrading \ {"ackIn"})
    <3>1. CASE swarm[n].at = "connectOut"
        BY <1>2, <1>3, <2>2, <3>1 DEF SwarmOk, Upgrading
    <3>2. CASE swarm[n].at \in Upgrading
        BY <1>2, <1>3, <2>2, <3>2 DEF SwarmOk, Upgrading
    <3> QED BY <3>1, <3>2
  <2> QED BY <1>2, <2>1, <2>2
<1>9. ASSUME NEW j \in Handles
      PROVE  ConnOk(n, j)'
  <2>1. ConnOk(n, j)
      BY <1>1, ShapeFacts
  <2>2. CASE conn'[n][j] = conn[n][j]
      BY <2>1, <2>2 DEF ConnOk
  <2>3. CASE j = k /\ conn[n][j].at = "upgrade" /\ Turns(n, k, "select")
      BY <2>1, <2>3 DEF ConnOk, Turns
  <2> QED BY <1>5, <2>2, <2>3
<1>10. Mapped(n)' /\ Routed(n)'
  <2>1. \A j \in Handles : conn[n][j].at = "none" => conn'[n][j].at = "none"
      BY <1>5
  <2>2. \A f \in Frames : Holds(write_req'[n], f) => Holds(write_req[n], f) \/ ~f.internal
      OBVIOUS
  <2> QED BY <1>1, <1>6, <2>1, <2>2, RoutesKept
<1>11. ASSUME NEW x \in Nodes, NEW f \in Frames, Holds(write_req'[x], f), ~Holds(write_req[x], f)
       PROVE  ~f.internal /\ MeetsNext(f.to, x, f.packet)
  <2>1. x = n /\ f.to = m /\ ~f.internal
        /\ (f.packet = "connect" \/ swarm[n].at \in Upgrading \ {"ackIn"})
      BY <1>11 DEF m
  <2>2. KnownNext(n, m)
    <3>1. CASE swarm[n].at = "connectOut"
        BY <1>2, <3>1 DEF KnownNext, Upgrading
    <3>2. CASE swarm[n].at \in Upgrading
      <4>1. conn'[n][k].peer = m /\ conn'[n][k].at # "none"
          BY <1>2, <1>3, <1>6, <3>2 DEF Grows
      <4> QED BY <1>2, <4>1 DEF KnownNext
    <3> QED BY <3>1, <3>2
  <2>3. f.packet # "connect" => KnownNext(m, n)
      BY <1>2, <1>4, <1>6, <1>7, <2>1, KnownKept
  <2> QED BY <2>1, <2>2, <2>3 DEF MeetsNext
<1>12. swarm'[n].at \in Upgrading \ {"ackIn"} => KnownNext(swarm'[n].peer, n)
  <2>1. CASE swarm[n].at = "connectOut" \/ swarm'[n] = Looping
      BY <1>2, <2>1 DEF Looping, Upgrading
  <2>2. CASE swarm[n].at \in Upgrading /\ swarm'[n].peer = m
      BY <1>2, <1>4, <1>6, <1>7, <2>2, KnownKept
  <2> QED BY <1>2, <2>1, <2>2
<1>13. ASSUME NEW j \in Handles
       PROVE  inbox'[n][j] # <<>> \/ conn'[n][j].at \in Running => KnownNext(conn'[n][j].peer, n)
  <2>1. CASE conn'[n][j] = conn[n][j] /\ conn[n][j].at # "none"
      BY <1>1, <1>6, <1>7, <2>1, ConnsKnownKept DEF Underway
  <2>2. CASE conn'[n][j] = conn[n][j] /\ conn[n][j].at = "none"
      BY <1>1, <2>2, ShapeFacts DEF ConnOk, Running
  <2>3. CASE j = k /\ conn[n][j].at = "upgrade" /\ Turns(n, k, "select")
    <3>1. swarm[n].at \in Upgrading
        BY <1>3, <2>3
    <3>2. conn'[n][j].peer = m /\ KnownNext(m, n)
        BY <1>2, <1>3, <1>4, <1>6, <1>7, <2>3, <3>1, KnownKept DEF Turns
    <3> QED BY <3>2
  <2> QED BY <1>5, <2>1, <2>2, <2>3
<1>14. ~Up(n) => FellNext(n, io[n].from)
  <2>1. ~Stuck(n)
      BY DEF Stuck, Upgrading
  <2> QED BY <1>1, <1>6, <2>1, EndedKept DEF Causes
<1>15. \A x \in Nodes : Fewer(new_peer'[x], new_peer[x])
    BY DEF Fewer
<1>16. \A x \in Nodes : x # n => conn'[x] = conn[x]
  <2>1. CASE UNCHANGED conn
      BY <2>1
  <2>2. CASE Turns(n, k, "select")
    <3> SUFFICES ASSUME NEW x \in Nodes, x # n
                 PROVE  conn'[x] = conn[x]
        OBVIOUS
    <3>1. \A j \in Handles : conn'[x][j] = conn[x][j]
        BY <2>2 DEF Turns
    <3>2. conn'[x] \in [Handles -> Conns] /\ conn[x] \in [Handles -> Conns]
        BY <1>1, <2>2, ShapeFacts DEF Turns, ConnT
    <3> QED BY <3>1, <3>2
  <2> QED BY <1>2, <2>1, <2>2
<1> QED BY <1>2, <1>6, <1>7, <1>8, <1>9, <1>10, <1>11, <1>12, <1>13, <1>14, <1>15, <1>16,
           SwarmStepKeeps

(* What a new connection is, dialed or accepted.                            *)
Called(m) == [NoConn EXCEPT !.peer = m, !.dialed = TRUE, !.at = "upgrade"]
Heard(m) == [NoConn EXCEPT !.peer = m, !.at = "upgrade"]

(* Either is of its peer, and yet to be upgraded.                           *)
LEMMA FreshFacts ==
    ASSUME NEW m \in Nodes
    PROVE  /\ Called(m) \in Conns /\ Called(m).peer = m /\ Called(m).at = "upgrade"
           /\ Heard(m) \in Conns /\ Heard(m).peer = m /\ Heard(m).at = "upgrade"
<1>1. 0 \in 0..QueueCap
    BY Constants
<1>2. NoConn \in Conns
    BY <1>1 DEF Conns, NoConn, ConnLabels, CheckLabels
<1>3. Called(m) \in Conns /\ Called(m).peer = m /\ Called(m).at = "upgrade"
    BY <1>2 DEF Called, Conns, ConnLabels
<1>4. Heard(m) \in Conns /\ Heard(m).peer = m /\ Heard(m).at = "upgrade"
    BY <1>2 DEF Heard, Conns, ConnLabels
<1> QED BY <1>3, <1>4

(* A connection is registered for a peer: its entry replaces any other.     *)
Starts(n, k, m) == /\ conn[n][k].at = "none" /\ StoreBecomes(n, m, k)
                   /\ ConnT' /\ conn'[n][k].peer = m /\ conn'[n][k].at = "upgrade"
                   /\ \A j \in Handles : j # k => conn'[n][j] = conn[n][j]
                   /\ \A x \in Nodes : x # n => conn'[x] = conn[x]

(* The map stays one of connections to the peer of the entry.               *)
LEMMA StartsFacts ==
    ASSUME Inv, NEW n \in Nodes, NEW k \in Handles, NEW m \in Nodes, Starts(n, k, m),
           UNCHANGED inbox
    PROVE  /\ Grows /\ Mapped(n)' /\ Routed(n)'
           /\ \A j \in Handles : ConnOk(n, j)'
<1>1. /\ Typed /\ Routes /\ Mapped(n) /\ Routed(n) /\ peerstore \in Maps
      /\ \A j \in Handles : ConnOk(n, j)
    BY ShapeFacts DEF Inv, Routes
<1>2. Grows
  <2> SUFFICES ASSUME NEW x \in Nodes, NEW j \in Handles, conn[x][j].at # "none"
               PROVE  conn'[x][j] = conn[x][j]
      BY DEF Grows
  <2>1. ~(x = n /\ j = k)
      BY DEF Starts
  <2> QED BY <2>1 DEF Starts
<1>3. Mapped(n)'
  <2> SUFFICES ASSUME NEW y \in Nodes, peerstore'[n][y] # None
               PROVE  conn'[n][peerstore'[n][y]].peer = y /\ conn'[n][peerstore'[n][y]].at # "none"
      BY DEF Mapped
  <2>1. CASE y = m
      BY <2>1 DEF Starts, StoreBecomes
  <2>2. CASE y # m
    <3>1. peerstore'[n][y] = peerstore[n][y]
        BY <2>2 DEF Starts, StoreBecomes
    <3>2. /\ peerstore[n][y] \in Handles
          /\ conn[n][peerstore[n][y]].peer = y /\ conn[n][peerstore[n][y]].at # "none"
        BY <1>1, <3>1 DEF Maps, Mapped
    <3> QED BY <3>1, <3>2 DEF Starts
  <2> QED BY <2>1, <2>2
<1>4. Routed(n)'
  <2> SUFFICES ASSUME NEW j \in Handles, conn'[n][j].at # "none"
               PROVE  peerstore'[n][conn'[n][j].peer] # None \/ EndedNext(n, conn'[n][j].peer)
      BY DEF Routed, Ended, EndedNext
  <2>1. CASE conn'[n][j].peer = m
      BY <2>1, Constants DEF Starts, StoreBecomes
  <2>2. CASE conn'[n][j].peer # m
    <3>1. j # k
        BY <2>2 DEF Starts
    <3>2. conn'[n][j] = conn[n][j] /\ conn[n][j].peer \in Nodes
        BY <1>1, <3>1 DEF Starts, ConnOk
    <3>3. peerstore'[n][conn[n][j].peer] = peerstore[n][conn[n][j].peer]
        BY <2>2, <3>2 DEF Starts, StoreBecomes
    <3> QED BY <1>1, <1>2, <3>2, <3>3, EndedKept DEF Routed
  <2> QED BY <2>1, <2>2
<1>5. ASSUME NEW j \in Handles
      PROVE  ConnOk(n, j)'
  <2>1. CASE j = k
      BY <1>1, <2>1 DEF Starts, ConnOk
  <2>2. CASE j # k
      BY <1>1, <2>2 DEF Starts, ConnOk
  <2> QED BY <2>1, <2>2
<1> QED BY <1>2, <1>3, <1>4, <1>5

(* What a swarm that starts a connection keeps.                             *)
LEMMA StartsKeeps ==
    ASSUME Inv, TypeOK', NEW n \in Nodes, NEW k \in Handles, NEW m \in Nodes, Starts(n, k, m),
           UNCHANGED <<io, net, write_req, inbox>>, NEW label \in {"ackIn", "ackOut"},
           SwarmBecomes(n, [at |-> label, conn |-> k, peer |-> m]),
           \A x \in Nodes : Fewer(new_peer'[x], new_peer[x]),
           label = "ackIn" => swarm[n].at = "register" /\ swarm[n].peer = m,
           label = "ackOut" => swarm[n].at = "loop" /\ Known(m, n)
    PROVE  Inv'
<1>1. Typed /\ Underway /\ Causes
    BY DEF Inv
<1>2. Grows /\ Mapped(n)' /\ Routed(n)' /\ \A j \in Handles : ConnOk(n, j)'
    BY StartsFacts
<1>3. Registers
    BY DEF Registers, SwarmBecomes, Starts
<1>4. /\ \A x \in Nodes : x # n => /\ swarm'[x] = swarm[x] /\ conn'[x] = conn[x]
                                   /\ peerstore'[x] = peerstore[x] /\ inbox'[x] = inbox[x]
    BY DEF Starts, StoreBecomes, SwarmBecomes
<1>5. SwarmOk(n)'
    BY DEF SwarmOk, SwarmBecomes, Starts, Upgrading
<1>6. swarm'[n].at \in Upgrading \ {"ackIn"} => KnownNext(swarm'[n].peer, n)
    BY <1>2, <1>3, KnownKept DEF SwarmBecomes
<1>7. ASSUME NEW j \in Handles
      PROVE  inbox'[n][j] # <<>> \/ conn'[n][j].at \in Running => KnownNext(conn'[n][j].peer, n)
  <2>1. CASE j = k
      BY <1>1, <2>1, ShapeFacts DEF Starts, ConnOk, Running
  <2>2. CASE j # k /\ conn[n][j].at # "none"
      BY <1>1, <1>2, <1>3, <2>2, ConnsKnownKept DEF Underway, Starts
  <2>3. CASE j # k /\ conn[n][j].at = "none"
      BY <1>1, <2>3, ShapeFacts DEF Starts, ConnOk, Running
  <2> QED BY <2>1, <2>2, <2>3
<1>8. ~Up(n) => FellNext(n, io[n].from) \/ Stuck(n)'
  <2>1. CASE Fell(n, io[n].from)
      BY <1>2, <2>1, EndedKept
  <2>2. CASE Stuck(n)
    <3>1. label = "ackIn" /\ m = io[n].from
        BY <2>2 DEF Stuck
    <3>2. inbox[n][k] = <<>>
        BY <1>1, ShapeFacts DEF Starts, ConnOk
    <3> QED BY <3>1, <3>2 DEF Stuck, SwarmBecomes
  <2> QED BY <1>1, <2>1, <2>2 DEF Causes
<1>9. \A x \in Nodes, f \in Frames : Holds(write_req'[x], f) => Holds(write_req[x], f)
    OBVIOUS
<1> QED BY <1>2, <1>3, <1>4, <1>5, <1>6, <1>7, <1>8, <1>9, SwarmStepKeeps

(* The dialer registers the connection its Connect went out for.            *)
LEMMA RegisterKeeps ==
    ASSUME Inv, NEW n \in Nodes, Register(n)
    PROVE  Inv'
<1> DEFINE k == swarm[n].conn
           m == swarm[n].peer
           s == [swarm[n] EXCEPT !.at = "ackIn"]
           c == Called(m)
<1>1. /\ Typed /\ TypeOK /\ SwarmT /\ ConnT /\ peerstore \in Maps /\ swarm[n] \in Swarms
      /\ SwarmOk(n)
    BY ShapeFacts DEF Inv
<1>2. /\ UNCHANGED <<ping_check, io, net, write_req, new_peer, connections, inbox, mux>>
      /\ UNCHANGED <<calls, sends, disturbed>>
      /\ swarm[n].at = "register" /\ peerstore' = [peerstore EXCEPT ![n][m] = k]
      /\ swarm' = [swarm EXCEPT ![n] = s] /\ conn' = [conn EXCEPT ![n][k] = c]
    BY <1>1 DEF Register, SwarmT, Called
<1>3. k \in Handles /\ m \in Nodes /\ conn[n][k].at = "none"
    BY <1>1, <1>2 DEF SwarmOk
<1>4. s = [at |-> "ackIn", conn |-> k, peer |-> m] /\ s \in Swarms
    BY <1>1 DEF Swarms, SwarmLabels
<1>5. c \in Conns /\ c.peer = m /\ c.at = "upgrade"
    BY <1>3, FreshFacts
<1> HIDE DEF s, c, k, m
<1>6. SwarmBecomes(n, s) /\ ConnBecomes(n, k, c) /\ StoreBecomes(n, m, k)
    BY <1>1, <1>2, <1>3, <1>4, <1>5, SwarmSet, ConnSet, StoreSet
<1>7. Starts(n, k, m)
    BY <1>3, <1>5, <1>6 DEF Starts, ConnBecomes
<1>8. TypeOK'
    BY <1>1, <1>2, <1>6, TypeKept DEF SwarmBecomes, ConnBecomes, StoreBecomes
<1> QED BY <1>2, <1>3, <1>4, <1>6, <1>7, <1>8, StartsKeeps DEF Fewer, m

(* The listener accepts a peer that dials, or has.                          *)
LEMMA AcceptKeeps ==
    ASSUME Inv, NEW n \in Nodes, NEW k \in Handles, Accept(n, k)
    PROVE  Inv'
<1> DEFINE m == Head(new_peer[n])
           s == [at |-> "ackOut", conn |-> k, peer |-> m]
           c == Heard(m)
<1>1. /\ Typed /\ TypeOK /\ SwarmT /\ ConnT /\ NewT /\ peerstore \in Maps /\ Underway
    BY ShapeFacts DEF Inv
<1>2. /\ UNCHANGED <<ping_check, io, net, write_req, connections, inbox, mux>>
      /\ UNCHANGED <<calls, sends, disturbed>>
      /\ swarm[n].at = "loop" /\ peerstore' = [peerstore EXCEPT ![n][m] = k]
      /\ conn[n][k].at = "none"
      /\ swarm' = [swarm EXCEPT ![n] = s] /\ conn' = [conn EXCEPT ![n][k] = c]
    BY DEF Accept, Free, Heard
<1>3. /\ NewT' /\ m \in Nodes /\ Holds(new_peer[n], m)
      /\ \A x \in Nodes : Fewer(new_peer'[x], new_peer[x])
    BY <1>1, NewTakes DEF Accept
<1> HIDE DEF m
<1>4. s \in Swarms
    BY <1>3 DEF Swarms, SwarmLabels
<1>5. c \in Conns /\ c.peer = m /\ c.at = "upgrade"
    BY <1>3, FreshFacts
<1>6. Known(m, n)
    BY <1>1, <1>3 DEF Underway, PeersKnown
<1> HIDE DEF c
<1>7. SwarmBecomes(n, s) /\ ConnBecomes(n, k, c) /\ StoreBecomes(n, m, k)
  <2> HIDE DEF s
  <2> QED BY <1>1, <1>2, <1>3, <1>4, <1>5, SwarmSet, ConnSet, StoreSet
<1>8. Starts(n, k, m)
    BY <1>2, <1>5, <1>7 DEF Starts, ConnBecomes
<1>9. TypeOK'
    BY <1>1, <1>2, <1>3, <1>7, TypeKept DEF SwarmBecomes, ConnBecomes, StoreBecomes
<1> QED BY <1>2, <1>3, <1>6, <1>7, <1>8, <1>9, StartsKeeps

(* A dial changes nothing yet but what the swarm is doing.                  *)
LEMMA DialKeeps ==
    ASSUME Inv, NEW n \in Nodes, NEW m \in Nodes, NEW k \in Handles, Dial(n, m, k)
    PROVE  Inv'
<1> DEFINE s == [at |-> "connectOut", conn |-> k, peer |-> m]
<1>1. /\ Typed /\ TypeOK /\ SwarmT /\ CountT /\ Routes /\ Underway /\ Causes
      /\ \A j \in Handles : ConnOk(n, j)
    BY ShapeFacts DEF Inv
<1>2. /\ UNCHANGED <<io, net, write_req, peerstore, new_peer, connections, conn, inbox, mux>>
      /\ UNCHANGED <<ping_check, sends, disturbed>>
      /\ swarm[n].at = "loop" /\ conn[n][k].at = "none"
      /\ swarm' = [swarm EXCEPT ![n] = s]
    BY DEF Dial, Calling, Free
<1>3. CountT'
  <2>1. calls \in [Nodes -> 0..MaxCalls[ping_check]] /\ MaxCalls[ping_check] \in Nat
      BY <1>1, Constants DEF CountT
  <2>2. calls[n] < MaxCalls[ping_check] /\ calls' = [calls EXCEPT ![n] = @ + 1]
      BY DEF Dial, Calling
  <2>3. calls' \in [Nodes -> 0..MaxCalls[ping_check]]
      BY <2>1, <2>2
  <2> QED BY <1>1, <1>2, <2>3 DEF CountT
<1>4. s \in Swarms
    BY DEF Swarms, SwarmLabels
<1>5. SwarmBecomes(n, s)
    BY <1>1, <1>2, <1>4, SwarmSet
<1>6. TypeOK'
    BY <1>1, <1>2, <1>3, <1>5, TypeKept DEF SwarmBecomes
<1>7. Grows /\ Registers
    BY <1>2, <1>5 DEF Grows, Registers, SwarmBecomes
<1>8. Mapped(n)' /\ Closing(n)' /\ Routed(n)'
    BY <1>1, <1>2, <1>7, RoutesKept
<1>9. SwarmOk(n)'
    BY <1>2, <1>5 DEF SwarmBecomes, SwarmOk, Upgrading
<1>10. \A j \in Handles : ConnOk(n, j)'
    BY <1>1, <1>2 DEF ConnOk
<1>11. ASSUME NEW j \in Handles
       PROVE  inbox'[n][j] # <<>> \/ conn'[n][j].at \in Running => KnownNext(conn'[n][j].peer, n)
  <2>1. CASE conn[n][j].at # "none"
      BY <1>1, <1>2, <1>7, <2>1, ConnsKnownKept DEF Underway
  <2>2. CASE conn[n][j].at = "none"
      BY <1>1, <1>2, <2>2 DEF ConnOk, Running
  <2> QED BY <2>1, <2>2
<1>12. ~Up(n) => FellNext(n, io[n].from)
  <2>1. ~Stuck(n)
      BY <1>2 DEF Stuck
  <2> QED BY <1>1, <1>7, <2>1, EndedKept DEF Causes
<1>13. \A x \in Nodes : x # n => /\ swarm'[x] = swarm[x] /\ conn'[x] = conn[x]
                                 /\ peerstore'[x] = peerstore[x] /\ inbox'[x] = inbox[x]
    BY <1>2, <1>5 DEF SwarmBecomes
<1>14. /\ \A x \in Nodes : Fewer(new_peer'[x], new_peer[x])
       /\ \A x \in Nodes, f \in Frames : Holds(write_req'[x], f) => Holds(write_req[x], f)
       /\ swarm'[n].at \notin Upgrading /\ UNCHANGED <<io, net>>
    BY <1>2, <1>5 DEF Fewer, SwarmBecomes, Upgrading
<1> QED BY <1>6, <1>7, <1>8, <1>9, <1>10, <1>11, <1>12, <1>13, <1>14, SwarmStepKeeps

(* The swarm sends for a dial or an upgrade, or finds its I/O task gone.    *)
LEMMA SwarmSendsKeeps ==
    ASSUME Inv, NEW n \in Nodes, SwarmSends(n)
    PROVE  Inv'
<1> DEFINE m == swarm[n].peer
           f == [to |-> m, packet |-> Out[swarm[n].at], internal |-> FALSE]
<1>1. Typed /\ TypeOK /\ WriteT /\ ConnT /\ SwarmOk(n)
    BY ShapeFacts DEF Inv
<1>2. /\ UNCHANGED <<io, net, peerstore, new_peer, inbox, mux, ping_check, calls, sends, disturbed>>
      /\ swarm[n].at \in {"connectOut", "ackOut", "helloOut", "welcomeOut"}
    BY DEF SwarmSends, Out
<1>3. CASE Up(n)
  <2>1. Writes(n, f) /\ Advance(n)
      BY <1>3 DEF SwarmSends
  <2>2. m \in Nodes /\ Out[swarm[n].at] \in Packets
      BY <1>1, <1>2 DEF SwarmOk, Out, Packets, Payloads
  <2>3. f \in Frames
      BY <2>2 DEF Frames
  <2>4. /\ WriteT'
        /\ \A x \in Nodes : \A r : Holds(write_req'[x], r) =>
             Holds(write_req[x], r) \/ (x = n /\ r = f)
    <3> HIDE DEF f
    <3> QED BY <1>1, <2>1, <2>3, WriteGets
  <2>5. /\ swarm[n].at \in Upgrading \cup {"connectOut"} /\ swarm[n].at # "ackIn"
        /\ f.packet = "connect" \/ swarm[n].at \in Upgrading \ {"ackIn"}
      BY <1>2 DEF Upgrading, Out
  <2>6. SwarmT' /\ (connections' \in Maps \/ UNCHANGED connections) /\ (ConnT' \/ UNCHANGED conn)
      BY <2>1, <2>5, AdvanceFacts DEF Turns
  <2>7. TypeOK'
      BY <1>1, <1>2, <2>4, <2>6, TypeKept
  <2>8. f.to = m /\ ~f.internal
      OBVIOUS
  <2>9. \A x \in Nodes, r \in Frames : Holds(write_req'[x], r) =>
             \/ Holds(write_req[x], r)
             \/ /\ x = n /\ r.to = swarm[n].peer /\ ~r.internal
                /\ r.packet = "connect" \/ swarm[n].at \in Upgrading \ {"ackIn"}
    <3> HIDE DEF f
    <3> QED BY <2>4, <2>5, <2>8
  <2> QED BY <1>2, <2>1, <2>5, <2>7, <2>9, AdvanceKeeps
<1>4. CASE ~Up(n)
  <2>1. Dies(n) /\ UNCHANGED <<write_req, connections>>
      BY <1>4 DEF SwarmSends
  <2>2. TypeOK'
      BY <1>1, <1>2, <2>1, DiesFacts, TypeKept
  <2> QED BY <1>2, <2>1, <2>2, DiesKeeps
<1> QED BY <1>3, <1>4

(* The swarm hears the answer it waits for, or one it does not.             *)
LEMMA SwarmReceivesKeeps ==
    ASSUME Inv, NEW n \in Nodes, SwarmReceives(n)
    PROVE  Inv'
<1> DEFINE k == swarm[n].conn
<1>1. Typed /\ TypeOK /\ InboxT /\ SwarmOk(n)
    BY ShapeFacts DEF Inv
<1>2. /\ UNCHANGED <<io, net, write_req, peerstore, new_peer, mux, ping_check, calls, sends>>
      /\ UNCHANGED disturbed
      /\ swarm[n].at \in {"ackIn", "helloIn", "welcomeIn"} /\ swarm[n].at \in Upgrading
      /\ inbox[n][k] # <<>>
    BY DEF SwarmReceives, In, Upgrading
<1>3. k \in Handles /\ conn[n][k].at # "none"
    BY <1>1, <1>2 DEF SwarmOk
<1>4. /\ InboxT'
      /\ \A x \in Nodes, j \in Handles : ~(x = n /\ j = k) => inbox'[x][j] = inbox[x][j]
    BY <1>1, <1>2, <1>3, InboxTakes DEF SwarmReceives
<1>5. /\ \A x \in Nodes : x # n => inbox'[x] = inbox[x]
      /\ \A j \in Handles : inbox'[n][j] = inbox[n][j]
                            \/ (conn[n][j].at # "none" /\ inbox[n][j] # <<>>)
    BY <1>2, <1>3, <1>4 DEF SwarmReceives
<1>6. CASE Advance(n)
  <2>1. SwarmT' /\ (connections' \in Maps \/ UNCHANGED connections) /\ (ConnT' \/ UNCHANGED conn)
      BY <1>2, <1>6, AdvanceFacts DEF Turns
  <2>2. TypeOK'
      BY <1>1, <1>2, <1>4, <2>1, TypeKept
  <2> QED BY <1>2, <1>5, <1>6, <2>2, AdvanceKeeps
<1>7. CASE Dies(n) /\ UNCHANGED connections
  <2>1. TypeOK'
      BY <1>1, <1>2, <1>4, <1>7, DiesFacts, TypeKept
  <2> QED BY <1>2, <1>5, <1>7, <2>1, DiesKeeps
<1> QED BY <1>6, <1>7 DEF SwarmReceives

(* The swarm finds the channel of its connection closed.                    *)
LEMMA SwarmStarvedKeeps ==
    ASSUME Inv, NEW n \in Nodes, SwarmStarved(n)
    PROVE  Inv'
<1>1. Typed /\ TypeOK
    BY ShapeFacts DEF Inv
<1>2. /\ UNCHANGED <<io, net, write_req, peerstore, new_peer, connections, inbox, mux>>
      /\ UNCHANGED <<ping_check, calls, sends, disturbed>>
      /\ swarm[n].at \in {"ackIn", "helloIn", "welcomeIn"} /\ Dies(n)
    BY DEF SwarmStarved, In
<1>3. TypeOK'
    BY <1>1, <1>2, DiesFacts, TypeKept
<1> QED BY <1>2, <1>3, DiesKeeps

(* A disconnect tells the task of the connection, or ends the swarm.        *)
LEMMA DisconnectKeeps ==
    ASSUME Inv, NEW n \in Nodes, NEW m \in Nodes, Disconnect(n, m)
    PROVE  Inv'
<1> DEFINE k == connections[n][m]
<1>1. Typed /\ TypeOK /\ MuxT /\ CountT /\ connections \in Maps
    BY ShapeFacts DEF Inv
<1>2. /\ UNCHANGED <<ping_check, io, net, write_req, peerstore, new_peer, inbox, sends>>
      /\ swarm[n].at = "loop" /\ disturbed' = disturbed \cup {"disconnect"}
    BY DEF Disconnect, Calling
<1>3. CountT'
  <2>1. calls \in [Nodes -> 0..MaxCalls[ping_check]] /\ MaxCalls[ping_check] \in Nat
      BY <1>1, Constants DEF CountT
  <2>2. calls[n] < MaxCalls[ping_check] /\ calls' = [calls EXCEPT ![n] = @ + 1]
      BY DEF Disconnect, Calling
  <2>3. calls' \in [Nodes -> 0..MaxCalls[ping_check]]
      BY <2>1, <2>2
  <2> QED BY <1>1, <1>2, <2>3 DEF CountT
<1>4. CASE Open(n, k)
  <2>1. k \in Handles
      BY <1>1, <1>4 DEF Open, Maps
  <2>2. /\ HasRoom(mux[n][k]) /\ mux' = [mux EXCEPT ![n][k] = Append(@, "disconnected")]
        /\ connections' = [connections EXCEPT ![n][m] = None] /\ UNCHANGED <<swarm, conn>>
      BY <1>4 DEF Disconnect
  <2> HIDE DEF k
  <2>3. MuxT'
      BY <1>1, <2>1, <2>2, MuxGets DEF MuxFrames
  <2>4. connections' \in Maps
      BY <1>1, <2>2 DEF Maps
  <2>5. TypeOK'
      BY <1>1, <1>2, <1>3, <2>2, <2>3, <2>4, TypeKept
  <2>6. Quiet
      BY <1>2, <2>2 DEF Quiet, Still
  <2> QED BY <2>5, <2>6, QuietKeeps
<1>5. CASE ~Open(n, k)
  <2>1. Dies(n) /\ UNCHANGED <<mux, connections>>
      BY <1>5 DEF Disconnect
  <2>2. TypeOK'
      BY <1>1, <1>2, <1>3, <2>1, DiesFacts, TypeKept
  <2> QED BY <1>2, <2>1, <2>2, DiesKeeps
<1> QED BY <1>4, <1>5

-----------------------------------------------------------------------------
(* What follows for the types, the map and the I/O tasks. *)

(* Initially nobody has met anybody.                                        *)
LEMMA InitInv == Init => Inv
<1> SUFFICES ASSUME Init
             PROVE  Inv
    OBVIOUS
<1>1. /\ io = [n \in Nodes |-> Idle] /\ net = [n \in Nodes |-> [m \in Nodes |-> <<>>]]
      /\ write_req = [n \in Nodes |-> <<>>] /\ new_peer = [n \in Nodes |-> <<>>]
      /\ swarm = [n \in Nodes |-> Looping]
      /\ conn = [n \in Nodes |-> [k \in Handles |-> NoConn]]
      /\ inbox = [n \in Nodes |-> [k \in Handles |-> <<>>]]
      /\ mux = [n \in Nodes |-> [k \in Handles |-> <<>>]]
      /\ peerstore = [n \in Nodes |-> [m \in Nodes |-> None]]
      /\ connections = [n \in Nodes |-> [m \in Nodes |-> None]]
    BY DEF Init
<1>2. TypeOK
  <2>1. IoT /\ SwarmT
      BY <1>1 DEF IoT, Ios, IoLabels, Idle, SwarmT, Swarms, SwarmLabels, Looping
  <2>2. NetT /\ InboxT /\ MuxT
      BY <1>1, Constants, EmptyFacts DEF NetT, InboxT, MuxT
  <2>3. WriteT /\ NewT
      BY <1>1, Constants, EmptyFacts DEF WriteT, NewT
  <2>4. ConnT
    <3>1. 0 \in 0..QueueCap
        BY Constants
    <3>2. NoConn \in Conns
        BY <3>1 DEF Conns, NoConn, ConnLabels, CheckLabels
    <3> QED BY <1>1, <3>2 DEF ConnT
  <2>5. CountT
    <3>1. /\ ping_check \in PingChecks /\ calls = [n \in Nodes |-> 0]
          /\ sends = [n \in Nodes |-> [k \in Handles |-> 0]] /\ disturbed = {}
        BY DEF Init
    <3>2. MaxCalls[ping_check] \in Nat /\ MaxSends[ping_check] \in Nat
        BY <3>1, Constants
    <3> QED BY <3>1, <3>2 DEF CountT
  <2>6. peerstore \in Maps /\ connections \in Maps
      BY <1>1 DEF Maps
  <2> QED BY <2>1, <2>2, <2>3, <2>4, <2>5, <2>6, TypeParts
<1>3. /\ \A n \in Nodes : io[n].at = "idle" /\ swarm[n] = Looping
      /\ \A n \in Nodes, k \in Handles : conn[n][k].at = "none" /\ inbox[n][k] = <<>>
      /\ \A n, m \in Nodes : peerstore[n][m] = None /\ net[n][m] = <<>>
      /\ \A n \in Nodes : write_req[n] = <<>> /\ new_peer[n] = <<>>
    BY <1>1 DEF Idle, NoConn
<1>4. Looping.at = "loop" /\ Looping.conn = None
    BY DEF Looping
<1>5. Shape
  <2>1. ASSUME NEW n \in Nodes
        PROVE  IoOk(n) /\ SwarmOk(n) /\ \A k \in Handles : ConnOk(n, k)
    <3>1. IoOk(n)
        BY <1>3 DEF IoOk
    <3>2. SwarmOk(n)
        BY <1>3, <1>4 DEF SwarmOk, Upgrading
    <3>3. \A k \in Handles : ConnOk(n, k)
        BY <1>3 DEF ConnOk
    <3> QED BY <3>1, <3>2, <3>3
  <2> QED BY <2>1 DEF Shape
<1>6. Routes
  <2>1. ASSUME NEW n \in Nodes
        PROVE  Mapped(n) /\ Closing(n) /\ Routed(n)
    <3>1. Mapped(n)
        BY <1>3 DEF Mapped
    <3>2. Closing(n)
        BY <1>3, EmptyFacts DEF Closing
    <3>3. Routed(n)
        BY <1>3 DEF Routed
    <3> QED BY <3>1, <3>2, <3>3
  <2> QED BY <2>1 DEF Routes
<1>7. Underway
    BY <1>3, <1>4, EmptyFacts DEF Underway, NetKnown, WritesKnown, IoKnown, PeersKnown, ConnsKnown,
                                  SwarmKnown, Running, Upgrading
<1>8. Causes
    BY <1>3 DEF Causes, Up
<1> QED BY <1>2, <1>5, <1>6, <1>7, <1>8 DEF Inv, Typed

(* A step that changes nothing.                                             *)
LEMMA StutterKeeps ==
    ASSUME Inv, UNCHANGED vars
    PROVE  Inv'
<1>1. Typed /\ TypeOK
    BY DEF Inv, Typed
<1>2. /\ UNCHANGED <<io, net, write_req, peerstore, new_peer, swarm, connections, conn, inbox, mux>>
      /\ UNCHANGED <<ping_check, calls, sends, disturbed>>
    BY DEF vars
<1>3. TypeOK'
    BY <1>1, <1>2, TypeKept
<1>4. Quiet
    BY <1>2 DEF Quiet, Still
<1> QED BY <1>3, <1>4, QuietKeeps

(* A step of the I/O task.                                                  *)
LEMMA IoStepKeeps ==
    ASSUME Inv, NEW n \in Nodes, IoStep(n)
    PROVE  Inv'
<1>1. ASSUME NEW m \in Nodes, Receive(n, m)
      PROVE  Inv'
    BY <1>1, ReceiveKeeps
<1> QED BY <1>1, NotifyKeeps, RouteKeeps, RoutePanicKeeps, FlushKeeps DEF IoStep

(* A step of the swarm.                                                     *)
LEMMA SwarmStepsKeep ==
    ASSUME Inv, NEW n \in Nodes, SwarmStep(n)
    PROVE  Inv'
<1>1. ASSUME NEW k \in Handles, Accept(n, k)
      PROVE  Inv'
    BY <1>1, AcceptKeeps
<1> QED BY <1>1, RegisterKeeps, SwarmSendsKeeps, SwarmReceivesKeeps, SwarmStarvedKeeps DEF SwarmStep

(* A step of the task of a connection.                                      *)
LEMMA ConnStepKeeps ==
    ASSUME Inv, NEW n \in Nodes, NEW k \in Handles, ConnStep(n, k)
    PROVE  Inv'
BY ConnTakesKeeps, ConnWritesKeeps, ConnClosesKeeps, ConnReadsKeeps, ConnAnswersKeeps,
   ConnStarvedKeeps DEF ConnStep

(* Every step keeps the invariant.                                          *)
LEMMA NextKeeps == Inv /\ [Next]_vars => Inv'
<1> SUFFICES ASSUME Inv, [Next]_vars
             PROVE  Inv'
    OBVIOUS
<1>1. ASSUME NEW n \in Nodes, IoStep(n) \/ SwarmStep(n)
      PROVE  Inv'
    BY <1>1, IoStepKeeps, SwarmStepsKeep
<1>2. ASSUME NEW n \in Nodes, NEW m \in Nodes, Lose(n, m) \/ Disconnect(n, m)
      PROVE  Inv'
    BY <1>2, LoseKeeps, DisconnectKeeps
<1>3. ASSUME NEW n \in Nodes, NEW m \in Nodes, NEW k \in Handles, Dial(n, m, k)
      PROVE  Inv'
    BY <1>3, DialKeeps
<1>4. ASSUME NEW n \in Nodes, NEW k \in Handles,
             ConnStep(n, k) \/ CheckStep(n, k) \/ StreamWrites(n, k)
      PROVE  Inv'
    BY <1>4, ConnStepKeeps, CheckStepKeeps, StreamWritesKeeps
<1>5. CASE UNCHANGED vars
    BY <1>5, StutterKeeps
<1> QED BY <1>1, <1>2, <1>3, <1>4, <1>5 DEF Next

(* The invariant holds in every state.                                      *)
LEMMA Invariance == Spec => []Inv
BY InitInv, NextKeeps, PTL DEF Spec

(* Every variable has its type: no queue exceeds its capacity, whatever the *)
(* network loses and whoever disconnects.                                   *)
THEOREM TypeCorrect == Spec => []TypeOK
<1>1. Inv => TypeOK
    BY DEF Inv, Typed
<1> QED BY <1>1, Invariance, PTL

(* An open connection whose peer has no entry in the map of the I/O task    *)
(* has lost it to an earlier connection with that peer, whose internal      *)
(* Disconnect names the peer only (close, handle_incoming).                 *)
THEOREM RoutesAreLostToClosing == Spec => []RoutesLostToClosing
<1>1. Inv => RoutesLostToClosing
  <2> SUFFICES ASSUME Inv, NEW n \in Nodes, NEW k \in Handles, Open(n, k),
                      peerstore[n][conn[n][k].peer] = None
               PROVE  \E j \in Handles : /\ j # k /\ conn[n][j].peer = conn[n][k].peer
                                         /\ conn[n][j].at = "ended"
      BY DEF RoutesLostToClosing
  <2>1. Ended(n, conn[n][k].peer)
      BY DEF Inv, Routes, Routed, Open
  <2> QED BY <2>1 DEF Ended, Open
<1> QED BY <1>1, Invariance, PTL

(* An I/O task that is gone was ended by a payload of a peer with which a   *)
(* connection had ended, or by one that came between the Connect of a dial  *)
(* and the entry of the map; loss alone never ends it (the unwrap()s of     *)
(* handle_incoming).                                                        *)
THEOREM DeathHasACause == Spec => []IoDiesForACause
<1>1. Inv => IoDiesForACause
    BY DEF Inv, Causes, IoDiesForACause, Stuck, Unregistered
<1> QED BY <1>1, Invariance, PTL

-----------------------------------------------------------------------------
(* Undisturbed: what is under way between two nodes, where either stands,   *)
(* and why neither can panic.  The places of what is under way from x to y  *)
(* are 1 the queue of the connection it goes to, 2 the hands of the I/O     *)
(* task of y, 3 the network, 4 the queue of the I/O task of x.              *)

Inbox(x, y) == IF peerstore[y][x] = None THEN <<>> ELSE inbox[y][peerstore[y][x]]

Among(q, R) == \A i \in 1..Len(q) : q[i] \in R
Begins(q, p, R) == Len(q) > 0 /\ q[1] = p /\ \A i \in 2..Len(q) : q[i] \in R
AmongTo(q, y, R) == \A i \in 1..Len(q) : q[i].to = y => q[i].packet \in R
BeginsTo(q, y, p, R) == \E i \in 1..Len(q) :
    /\ q[i].to = y /\ q[i].packet = p
    /\ \A j \in 1..Len(q) : j # i /\ q[j].to = y => j > i /\ q[j].packet \in R

(* A queue with one element more.                                           *)
LEMMA LaterFacts ==
    ASSUME NEW S, NEW q \in Seq(S), NEW v \in S, NEW R
    PROVE  /\ Among(q, R) /\ v \in R => Among(Append(q, v), R)
           /\ \A p : Begins(q, p, R) /\ v \in R => Begins(Append(q, v), p, R)
           /\ Among(q, {}) => Begins(Append(q, v), v, R)
<1> DEFINE r == Append(q, v)
           n == Len(q)
<1>1. /\ n \in Nat /\ Len(r) = n + 1 /\ r[n + 1] = v
      /\ \A i \in 1..n : r[i] = q[i]
    OBVIOUS
<1>2. \A i \in 1..Len(r) : i \in 1..n \/ i = n + 1
    BY <1>1
<1> HIDE DEF r, n
<1>3. (\A i \in 1..n : q[i] \in R) /\ v \in R => \A i \in 1..Len(r) : r[i] \in R
    BY <1>1, <1>2
<1>4. ASSUME NEW p, n > 0, q[1] = p, \A i \in 2..n : q[i] \in R, v \in R
      PROVE  Len(r) > 0 /\ r[1] = p /\ \A i \in 2..Len(r) : r[i] \in R
  <2>1. 1 \in 1..n /\ Len(r) > 0 /\ r[1] = p
      BY <1>1, <1>4
  <2>2. \A i \in 2..Len(r) : r[i] \in R
    <3> TAKE i \in 2..Len(r)
    <3>1. CASE i \in 2..n
      <4>1. i \in 1..n
          BY <1>1, <3>1
      <4> QED BY <1>1, <1>4, <3>1, <4>1
    <3>2. CASE i = n + 1
        BY <1>1, <1>4, <3>2
    <3> QED BY <1>1, <3>1, <3>2
  <2> QED BY <2>1, <2>2
<1>5. (\A i \in 1..n : q[i] \in {}) => Len(r) > 0 /\ r[1] = v /\ \A i \in 2..Len(r) : r[i] \in R
  <2> SUFFICES ASSUME \A i \in 1..n : q[i] \in {}
               PROVE  Len(r) > 0 /\ r[1] = v /\ \A i \in 2..Len(r) : r[i] \in R
      OBVIOUS
  <2>1. n = 0
      BY <1>1
  <2> QED BY <1>1, <2>1
<1>6. /\ Among(q, R) /\ v \in R => Among(r, R)
      /\ Among(q, {}) => Begins(r, v, R)
    BY <1>3, <1>5 DEF Among, Begins, n
<1>7. \A p : Begins(q, p, R) /\ v \in R => Begins(r, p, R)
    BY <1>4 DEF Begins, n
<1> QED BY <1>6, <1>7 DEF r

(* A queue without its first element.                                       *)
LEMMA EarlierFacts ==
    ASSUME NEW S, NEW q \in Seq(S), q # <<>>, NEW R
    PROVE  /\ Among(q, R) => Head(q) \in R /\ Among(Tail(q), R)
           /\ \A p : Begins(q, p, R) => p = Head(q) /\ Among(Tail(q), R)
<1> DEFINE r == Tail(q)
           n == Len(q)
<1>1. n \in Nat \ {0} /\ Head(q) = q[1]
    BY EmptySeq
<1>2. Len(r) = n - 1 /\ \A i \in 1..(n - 1) : r[i] = q[i + 1]
    BY <1>1
<1>3. \A i \in 1..Len(r) : i + 1 \in 1..n /\ i + 1 \in 2..n /\ r[i] = q[i + 1]
    BY <1>1, <1>2
<1>4. 1 \in 1..n
    BY <1>1
<1> HIDE DEF r, n
<1>5. (\A i \in 1..n : q[i] \in R) => q[1] \in R /\ \A i \in 1..Len(r) : r[i] \in R
    BY <1>3, <1>4
<1>6. (\A i \in 2..n : q[i] \in R) => \A i \in 1..Len(r) : r[i] \in R
    BY <1>3
<1>7. Among(q, R) => Head(q) \in R /\ Among(r, R)
    BY <1>1, <1>5 DEF Among, n
<1>8. \A p : Begins(q, p, R) => p = Head(q) /\ Among(r, R)
    BY <1>1, <1>6 DEF Among, Begins, n
<1> QED BY <1>7, <1>8 DEF r

(* The same of the frames for y in a queue of frames.                       *)
LEMMA LaterToFacts ==
    ASSUME NEW S, NEW q \in Seq(S), NEW f \in S, NEW y, NEW R
    PROVE  /\ f.to # y \/ f.packet \in R =>
                /\ AmongTo(q, y, R) => AmongTo(Append(q, f), y, R)
                /\ \A p : BeginsTo(q, y, p, R) => BeginsTo(Append(q, f), y, p, R)
           /\ f.to = y /\ AmongTo(q, y, {}) => BeginsTo(Append(q, f), y, f.packet, R)
<1> DEFINE r == Append(q, f)
           n == Len(q)
<1>1. /\ n \in Nat /\ Len(r) = n + 1 /\ r[n + 1] = f
      /\ \A i \in 1..n : r[i] = q[i]
    OBVIOUS
<1>2. /\ \A i \in 1..Len(r) : i \in 1..n \/ i = n + 1
      /\ \A i \in 1..n : i \in 1..Len(r) /\ n + 1 > i /\ n + 1 # i
      /\ n + 1 \in 1..Len(r)
    BY <1>1
<1> HIDE DEF r, n
<1>3. f.to # y \/ f.packet \in R => (AmongTo(q, y, R) => AmongTo(r, y, R))
    BY <1>1, <1>2 DEF AmongTo, n
<1>4. ASSUME f.to # y \/ f.packet \in R, NEW p, BeginsTo(q, y, p, R)
      PROVE  BeginsTo(r, y, p, R)
  <2>1. PICK i \in 1..n : /\ q[i].to = y /\ q[i].packet = p
                          /\ \A j \in 1..n : j # i /\ q[j].to = y => j > i /\ q[j].packet \in R
      BY <1>4 DEF BeginsTo, n
  <2>2. ASSUME NEW j \in 1..Len(r), j # i, r[j].to = y
        PROVE  j > i /\ r[j].packet \in R
    <3>1. CASE j \in 1..n
        BY <1>1, <2>1, <2>2, <3>1
    <3>2. CASE j = n + 1
        BY <1>1, <1>2, <1>4, <2>2, <3>2
    <3> QED BY <1>2, <3>1, <3>2
  <2>3. i \in 1..Len(r) /\ r[i].to = y /\ r[i].packet = p
      BY <1>1, <1>2, <2>1
  <2> QED BY <2>2, <2>3 DEF BeginsTo
<1>5. ASSUME f.to = y, AmongTo(q, y, {})
      PROVE  BeginsTo(r, y, f.packet, R)
  <2>1. \A j \in 1..n : q[j].to # y
      BY <1>5 DEF AmongTo, n
  <2>2. \A j \in 1..Len(r) : j # n + 1 => r[j].to # y
      BY <1>1, <1>2, <2>1
  <2> QED BY <1>1, <1>2, <1>5, <2>2 DEF BeginsTo
<1> QED BY <1>3, <1>4, <1>5 DEF r

(* The first frame leaves.                                                  *)
LEMMA EarlierToFacts ==
    ASSUME NEW S, NEW q \in Seq(S), q # <<>>, NEW y, NEW R
    PROVE  /\ AmongTo(q, y, R) => /\ Head(q).to = y => Head(q).packet \in R
                                  /\ AmongTo(Tail(q), y, R)
           /\ \A p : BeginsTo(q, y, p, R) =>
                /\ Head(q).to = y => p = Head(q).packet /\ AmongTo(Tail(q), y, R)
                /\ Head(q).to # y => BeginsTo(Tail(q), y, p, R)
<1> DEFINE r == Tail(q)
           n == Len(q)
<1>1. n \in Nat \ {0} /\ Head(q) = q[1]
    BY EmptySeq
<1>2. Len(r) = n - 1 /\ \A i \in 1..(n - 1) : r[i] = q[i + 1]
    BY <1>1
<1>3. \A i \in 1..Len(r) : i + 1 \in 1..n /\ i + 1 # 1 /\ r[i] = q[i + 1]
    BY <1>1, <1>2
<1>4. 1 \in 1..n
    BY <1>1
<1>5. \A i \in 1..n : i # 1 => i - 1 \in 1..Len(r) /\ r[i - 1] = q[i] /\ i > 1
    BY <1>1, <1>2
<1> HIDE DEF r, n
<1>6. AmongTo(q, y, R) => (q[1].to = y => q[1].packet \in R) /\ AmongTo(r, y, R)
    BY <1>3, <1>4 DEF AmongTo, n
<1>7. ASSUME NEW p, BeginsTo(q, y, p, R)
      PROVE  /\ q[1].to = y => p = q[1].packet /\ AmongTo(r, y, R)
             /\ q[1].to # y => BeginsTo(r, y, p, R)
  <2>1. PICK i \in 1..n : /\ q[i].to = y /\ q[i].packet = p
                          /\ \A j \in 1..n : j # i /\ q[j].to = y => j > i /\ q[j].packet \in R
      BY <1>7 DEF BeginsTo, n
  <2>2. CASE i = 1
    <3>1. \A j \in 1..Len(r) : r[j].to = y => r[j].packet \in R
        BY <1>3, <2>1, <2>2
    <3> QED BY <2>1, <2>2, <3>1 DEF AmongTo
  <2>3. CASE i # 1
    <3>1. q[1].to # y
        BY <1>1, <1>4, <1>5, <2>1, <2>3
    <3>2. i - 1 \in 1..Len(r) /\ r[i - 1].to = y /\ r[i - 1].packet = p
        BY <1>5, <2>1, <2>3
    <3>3. ASSUME NEW j \in 1..Len(r), j # i - 1, r[j].to = y
          PROVE  j > i - 1 /\ r[j].packet \in R
      <4>1. j + 1 \in 1..n /\ j + 1 # i /\ q[j + 1].to = y /\ r[j] = q[j + 1]
          BY <1>3, <3>3
      <4>2. j + 1 > i /\ q[j + 1].packet \in R
          BY <2>1, <4>1
      <4> QED BY <1>1, <4>1, <4>2
    <3> QED BY <3>1, <3>2, <3>3 DEF BeginsTo
  <2> QED BY <2>2, <2>3
<1> QED BY <1>1, <1>6, <1>7 DEF r

At(x, y, place, R) ==
    CASE place = 1 -> Among(Inbox(x, y), R)
      [] place = 2 -> io[y].at = "holds" /\ io[y].from = x => io[y].packet \in R
      [] place = 3 -> Among(net[y][x], R)
      [] place = 4 -> AmongTo(write_req[x], y, R)
Leads(x, y, place, p, R) ==
    CASE place = 1 -> Begins(Inbox(x, y), p, R)
      [] place = 2 -> io[y].at = "holds" /\ io[y].from = x /\ io[y].packet = p
      [] place = 3 -> Begins(net[y][x], p, R)
      [] place = 4 -> BeginsTo(write_req[x], y, p, R)

(* All that is under way from x to y is in R; or p comes first, alone, and  *)
(* the rest is in R.                                                        *)
Carries(x, y, R) == \A i \in 1..4 : At(x, y, i, R)
First(x, y, p, R) == \E i \in 1..4 :
    /\ Leads(x, y, i, p, R)
    /\ \A j \in 1..4 : (j < i => At(x, y, j, {})) /\ (j > i => At(x, y, j, R))

(* What a step may do to a place: nothing, let v in behind the rest, let v  *)
(* out in front of it.                                                      *)
Same(x, y, i) == \A R :
    /\ At(x, y, i, R) => At(x, y, i, R)'
    /\ \A p : Leads(x, y, i, p, R) => Leads(x, y, i, p, R)'
Adds(x, y, i, v) == \A R :
    /\ At(x, y, i, R) /\ v \in R => At(x, y, i, R)'
    /\ \A p : Leads(x, y, i, p, R) /\ v \in R => Leads(x, y, i, p, R)'
    /\ At(x, y, i, {}) => Leads(x, y, i, v, R)'
Gives(x, y, i, v) == \A R :
    /\ At(x, y, i, R) => v \in R /\ At(x, y, i, R)'
    /\ \A p : Leads(x, y, i, p, R) => p = v /\ At(x, y, i, R)'

(* To all of them: what was said of the whole way stays said.               *)
Flows(x, y) == \A R : /\ Carries(x, y, R) => Carries(x, y, R)'
                      /\ \A p : First(x, y, p, R) => First(x, y, p, R)'

(* Less in a place is in more.                                              *)
LEMMA AtMore ==
    ASSUME NEW x, NEW y, NEW i \in 1..4, NEW R, NEW T, R \subseteq T, At(x, y, i, R)
    PROVE  At(x, y, i, T)
<1>1. i = 1 \/ i = 2 \/ i = 3 \/ i = 4
    OBVIOUS
<1>2. CASE i = 1
    BY <1>2 DEF At, Among
<1>3. CASE i = 2
    BY <1>3 DEF At
<1>4. CASE i = 3
    BY <1>4 DEF At, Among
<1>5. CASE i = 4
    BY <1>5 DEF At, AmongTo
<1> QED BY <1>1, <1>2, <1>3, <1>4, <1>5

(* The leading packet of a place is one of the place.                       *)
LEMMA LeadsAt ==
    ASSUME NEW x, NEW y, NEW i \in 1..4, NEW p, NEW R, NEW T, R \subseteq T, p \in T,
           Leads(x, y, i, p, R), TypeOK, x \in Nodes, y \in Nodes
    PROVE  At(x, y, i, T)
<1>1. i = 1 \/ i = 2 \/ i = 3 \/ i = 4
    OBVIOUS
<1>2. ASSUME NEW S, NEW q \in Seq(S), Begins(q, p, R)
      PROVE  Among(q, T)
  <2>1. Len(q) \in Nat /\ \A j \in 1..Len(q) : j = 1 \/ j \in 2..Len(q)
      OBVIOUS
  <2> QED BY <1>2, <2>1 DEF Begins, Among
<1>3. CASE i = 1
  <2>1. Begins(Inbox(x, y), p, R)
      BY <1>3 DEF Leads
  <2>2. Inbox(x, y) \in Seq(Payloads)
    <3>1. InboxT /\ peerstore \in Maps
        BY TypeParts
    <3> QED BY <3>1, EmptyFacts DEF InboxT, Maps, Inbox
  <2> QED BY <1>2, <1>3, <2>1, <2>2 DEF At
<1>4. CASE i = 2
    BY <1>4 DEF At, Leads
<1>5. CASE i = 3
  <2>1. Begins(net[y][x], p, R)
      BY <1>5 DEF Leads
  <2>2. net[y][x] \in Seq(Packets)
    <3>1. NetT
        BY TypeParts
    <3> QED BY <3>1 DEF NetT
  <2> QED BY <1>2, <1>5, <2>1, <2>2 DEF At
<1>6. CASE i = 4
    BY <1>6 DEF At, Leads, AmongTo, BeginsTo
<1> QED BY <1>1, <1>3, <1>4, <1>5, <1>6

(* So it is on the whole way.                                               *)
LEMMA CarriesMore ==
    ASSUME NEW x \in Nodes, NEW y \in Nodes, NEW R, NEW T, R \subseteq T, TypeOK
    PROVE  /\ Carries(x, y, R) => Carries(x, y, T)
           /\ \A p \in T : First(x, y, p, R) => Carries(x, y, T)
<1>1. Carries(x, y, R) => Carries(x, y, T)
    BY AtMore DEF Carries
<1>2. ASSUME NEW p \in T, First(x, y, p, R)
      PROVE  Carries(x, y, T)
  <2>1. PICK i \in 1..4 :
          /\ Leads(x, y, i, p, R)
          /\ \A j \in 1..4 : (j < i => At(x, y, j, {})) /\ (j > i => At(x, y, j, R))
      BY <1>2 DEF First
  <2>2. At(x, y, i, T)
      BY <2>1, LeadsAt
  <2>3. ASSUME NEW j \in 1..4
        PROVE  At(x, y, j, T)
    <3>1. CASE j < i
      <4>1. At(x, y, j, {})
          BY <2>1, <3>1
      <4> QED BY <4>1, AtMore
    <3>2. CASE j > i
      <4>1. At(x, y, j, R)
          BY <2>1, <3>2
      <4> QED BY <4>1, AtMore
    <3>3. CASE j = i
        BY <2>2, <3>3
    <3> QED BY <3>1, <3>2, <3>3
  <2> QED BY <2>3 DEF Carries
<1> QED BY <1>1, <1>2

(* The statements about the whole way, of the next state.                   *)
LEMMA WayNext ==
    ASSUME NEW x, NEW y
    PROVE  /\ \A R : Carries(x, y, R)' <=> \A i \in 1..4 : At(x, y, i, R)'
           /\ \A p, R : First(x, y, p, R)' <=> \E i \in 1..4 :
                /\ Leads(x, y, i, p, R)'
                /\ \A j \in 1..4 : (j < i => At(x, y, j, {})') /\ (j > i => At(x, y, j, R)')
BY DEF Carries, First

(* Where no place changes, the way does not.                                *)
LEMMA SameFlows ==
    ASSUME NEW x, NEW y, \A i \in 1..4 : Same(x, y, i)
    PROVE  Flows(x, y)
<1>1. ASSUME NEW R, Carries(x, y, R)
      PROVE  Carries(x, y, R)'
    BY <1>1, WayNext DEF Carries, Same
<1>2. ASSUME NEW R, NEW p, First(x, y, p, R)
      PROVE  First(x, y, p, R)'
  <2>1. PICK i \in 1..4 :
          /\ Leads(x, y, i, p, R)
          /\ \A j \in 1..4 : (j < i => At(x, y, j, {})) /\ (j > i => At(x, y, j, R))
      BY <1>2 DEF First
  <2>2. Leads(x, y, i, p, R)'
      BY <2>1 DEF Same
  <2>3. \A j \in 1..4 : (j < i => At(x, y, j, {})') /\ (j > i => At(x, y, j, R)')
      BY <2>1 DEF Same
  <2> QED BY <2>2, <2>3, WayNext
<1> QED BY <1>1, <1>2 DEF Flows

(* A packet goes from a place to the next.                                  *)
LEMMA PassesFlows ==
    ASSUME NEW x, NEW y, NEW k \in 1..3, NEW v, Gives(x, y, k + 1, v), Adds(x, y, k, v),
           \A i \in 1..4 : i # k /\ i # k + 1 => Same(x, y, i)
    PROVE  Flows(x, y)
<1>0. k \in 1..4 /\ k + 1 \in 1..4
    OBVIOUS
<1>1. ASSUME NEW R, Carries(x, y, R)
      PROVE  Carries(x, y, R)'
  <2>1. v \in R /\ At(x, y, k + 1, R)' /\ At(x, y, k, R)'
      BY <1>0, <1>1 DEF Carries, Gives, Adds
  <2>2. ASSUME NEW i \in 1..4
        PROVE  At(x, y, i, R)'
    <3>1. CASE i = k
        BY <2>1, <3>1
    <3>2. CASE i = k + 1
        BY <2>1, <3>2
    <3>3. CASE i # k /\ i # k + 1
        BY <1>1, <3>3 DEF Carries, Same
    <3> QED BY <3>1, <3>2, <3>3
  <2> QED BY <2>2, WayNext
<1>2. ASSUME NEW R, NEW p, First(x, y, p, R)
      PROVE  First(x, y, p, R)'
  <2>1. PICK i \in 1..4 :
          /\ Leads(x, y, i, p, R)
          /\ \A j \in 1..4 : (j < i => At(x, y, j, {})) /\ (j > i => At(x, y, j, R))
      BY <1>2 DEF First
  <2>2. ASSUME NEW j \in 1..4, j # k, j # k + 1
        PROVE  (j < i => At(x, y, j, {})') /\ (j > i => At(x, y, j, R)')
      BY <2>1, <2>2 DEF Same
  <2>3. CASE i = k + 1
    <3>1. p = v /\ At(x, y, k + 1, R)' /\ At(x, y, k, {})
        BY <1>0, <2>1, <2>3 DEF Gives
    <3>2. Leads(x, y, k, p, R)'
        BY <3>1 DEF Adds
    <3>3. ASSUME NEW j \in 1..4
          PROVE  (j < k => At(x, y, j, {})') /\ (j > k => At(x, y, j, R)')
      <4>1. CASE j = k + 1
          BY <3>1, <4>1
      <4>2. CASE j # k + 1
          BY <2>2, <2>3, <4>2
      <4> QED BY <4>1, <4>2
    <3> QED BY <1>0, <3>2, <3>3, WayNext
  <2>4. CASE i = k
    <3>1. At(x, y, k + 1, R)
        BY <1>0, <2>1, <2>4
    <3>2. v \in R /\ At(x, y, k + 1, R)' /\ Leads(x, y, k, p, R)'
        BY <2>1, <2>4, <3>1 DEF Gives, Adds
    <3>3. ASSUME NEW j \in 1..4
          PROVE  (j < k => At(x, y, j, {})') /\ (j > k => At(x, y, j, R)')
      <4>1. CASE j = k + 1
          BY <3>2, <4>1
      <4>2. CASE j # k + 1
          BY <2>2, <2>4, <4>2
      <4> QED BY <4>1, <4>2
    <3> QED BY <1>0, <3>2, <3>3, WayNext
  <2>5. CASE i < k
    <3>1. At(x, y, k + 1, R) /\ At(x, y, k, R)
        BY <1>0, <2>1, <2>5
    <3>2. At(x, y, k + 1, R)' /\ At(x, y, k, R)'
        BY <3>1 DEF Gives, Adds
    <3>3. Leads(x, y, i, p, R)'
      <4>1. i # k /\ i # k + 1
          BY <2>5
      <4>2. Same(x, y, i)
          BY <4>1
      <4> QED BY <2>1, <4>2 DEF Same
    <3>4. ASSUME NEW j \in 1..4
          PROVE  (j < i => At(x, y, j, {})') /\ (j > i => At(x, y, j, R)')
      <4>1. CASE j = k + 1 \/ j = k
          BY <2>5, <3>2, <4>1
      <4>2. CASE j # k + 1 /\ j # k
          BY <2>2, <4>2
      <4> QED BY <4>1, <4>2
    <3> QED BY <3>3, <3>4, WayNext
  <2>6. CASE i > k + 1
    <3>1. At(x, y, k + 1, {})
        BY <1>0, <2>1, <2>6
    <3> QED BY <3>1 DEF Gives
  <2> QED BY <2>3, <2>4, <2>5, <2>6
<1> QED BY <1>1, <1>2 DEF Flows

(* A packet is sent.                                                        *)
LEMMA SentFacts ==
    ASSUME NEW x, NEW y, NEW v, Adds(x, y, 4, v), \A i \in 1..3 : Same(x, y, i)
    PROVE  \A R : /\ Carries(x, y, R) /\ v \in R => Carries(x, y, R)'
                  /\ \A p : First(x, y, p, R) /\ v \in R => First(x, y, p, R)'
                  /\ Carries(x, y, {}) => First(x, y, v, R)'
<1>0. \A i \in 1..4 : i = 4 \/ i \in 1..3
    OBVIOUS
<1>1. ASSUME NEW R, Carries(x, y, R), v \in R
      PROVE  Carries(x, y, R)'
  <2>1. At(x, y, 4, R)'
      BY <1>1 DEF Carries, Adds
  <2>2. \A i \in 1..3 : At(x, y, i, R)'
      BY <1>1 DEF Carries, Same
  <2> QED BY <1>0, <2>1, <2>2, WayNext
<1>2. ASSUME NEW R, NEW p, First(x, y, p, R), v \in R
      PROVE  First(x, y, p, R)'
  <2>1. PICK i \in 1..4 :
          /\ Leads(x, y, i, p, R)
          /\ \A j \in 1..4 : (j < i => At(x, y, j, {})) /\ (j > i => At(x, y, j, R))
      BY <1>2 DEF First
  <2>2. Leads(x, y, i, p, R)'
      BY <1>0, <1>2, <2>1 DEF Same, Adds
  <2>3. ASSUME NEW j \in 1..3
        PROVE  (j < i => At(x, y, j, {})') /\ (j > i => At(x, y, j, R)')
      BY <2>1 DEF Same
  <2>4. 4 > i => At(x, y, 4, R)'
      BY <1>2, <2>1 DEF Adds
  <2>5. ~(4 < i)
      OBVIOUS
  <2> QED BY <1>0, <2>2, <2>3, <2>4, <2>5, WayNext
<1>3. ASSUME NEW R, Carries(x, y, {})
      PROVE  First(x, y, v, R)'
  <2>1. Leads(x, y, 4, v, R)'
      BY <1>3 DEF Carries, Adds
  <2>2. ASSUME NEW j \in 1..4
        PROVE  (j < 4 => At(x, y, j, {})') /\ (j > 4 => At(x, y, j, R)')
      BY <1>3 DEF Carries, Same
  <2> QED BY <2>1, <2>2, WayNext
<1> QED BY <1>1, <1>2, <1>3

(* A packet leaves the way.                                                 *)
LEMMA GoneFacts ==
    ASSUME NEW x, NEW y, NEW k \in 1..2, NEW v, Gives(x, y, k, v),
           \A i \in 1..4 : i # k => Same(x, y, i)
    PROVE  \A R : /\ Carries(x, y, R) => v \in R /\ Carries(x, y, R)'
                  /\ \A p : First(x, y, p, R) =>
                       /\ k = 1 \/ R = {} => p = v /\ Carries(x, y, R)'
                       /\ p = v \/ v \in R
<1>0. k \in 1..4
    OBVIOUS
<1>1. ASSUME NEW R, Carries(x, y, R)
      PROVE  v \in R /\ Carries(x, y, R)'
  <2>1. v \in R /\ At(x, y, k, R)'
      BY <1>0, <1>1 DEF Carries, Gives
  <2>2. \A i \in 1..4 : i # k => At(x, y, i, R)'
      BY <1>1 DEF Carries, Same
  <2> QED BY <2>1, <2>2, WayNext
<1>2. ASSUME NEW R, NEW p, First(x, y, p, R)
      PROVE  /\ k = 1 \/ R = {} => p = v /\ Carries(x, y, R)'
             /\ p = v \/ v \in R
  <2>1. PICK i \in 1..4 :
          /\ Leads(x, y, i, p, R)
          /\ \A j \in 1..4 : (j < i => At(x, y, j, {})) /\ (j > i => At(x, y, j, R))
      BY <1>2 DEF First
  <2>2. CASE i = k
    <3>1. p = v /\ At(x, y, k, R)'
        BY <2>1, <2>2 DEF Gives
    <3>2. CASE k = 1 \/ R = {}
      <4>1. ASSUME NEW j \in 1..4, j # k
            PROVE  At(x, y, j, R)
          BY <2>1, <2>2, <3>2, <4>1
      <4>2. \A j \in 1..4 : j # k => At(x, y, j, R)'
          BY <4>1 DEF Same
      <4> QED BY <3>1, <4>2, WayNext
    <3> QED BY <3>1, <3>2
  <2>3. CASE i < k
    <3>1. At(x, y, k, R)
        BY <1>0, <2>1, <2>3
    <3>2. v \in R
        BY <3>1 DEF Gives
    <3>3. k # 1
        BY <2>3
    <3> QED BY <3>2, <3>3
  <2>4. CASE i > k
    <3>1. At(x, y, k, {})
        BY <1>0, <2>1, <2>4
    <3> QED BY <3>1 DEF Gives
  <2> QED BY <2>2, <2>3, <2>4
<1> QED BY <1>1, <1>2

-----------------------------------------------------------------------------
(* What the steps do to the places. *)

(* A place whose variable stays is the same.                                *)
LEMMA SamePlace ==
    ASSUME NEW x, NEW y
    PROVE  /\ Inbox(x, y)' = Inbox(x, y) => Same(x, y, 1)
           /\ io'[y] = io[y] => Same(x, y, 2)
           /\ net'[y][x] = net[y][x] => Same(x, y, 3)
           /\ write_req'[x] = write_req[x] => Same(x, y, 4)
<1>1. Inbox(x, y)' = Inbox(x, y) => Same(x, y, 1)
    BY DEF Same, At, Leads, Among, Begins
<1>2. io'[y] = io[y] => Same(x, y, 2)
    BY DEF Same, At, Leads
<1>3. net'[y][x] = net[y][x] => Same(x, y, 3)
    BY DEF Same, At, Leads, Among, Begins
<1>4. write_req'[x] = write_req[x] => Same(x, y, 4)
    BY DEF Same, At, Leads, AmongTo, BeginsTo
<1> QED BY <1>1, <1>2, <1>3, <1>4

(* The I/O task takes a packet in its hands, or lays it down.               *)
LEMMA HandPlace ==
    ASSUME NEW n \in Nodes, NEW m, NEW v, NEW x, NEW y \in Nodes, IoT
    PROVE  /\ io[n].at = "idle" /\ IoBecomes(n, [at |-> "holds", from |-> m, packet |-> v]) =>
                IF x = m /\ y = n THEN Adds(x, y, 2, v) ELSE Same(x, y, 2)
           /\ io[n].at = "holds" /\ io[n].from = m /\ io[n].packet = v /\ IoBecomes(n, Idle) =>
                IF x = m /\ y = n THEN Gives(x, y, 2, v) ELSE Same(x, y, 2)
<1>1. CASE y # n
    BY <1>1, SamePlace DEF IoBecomes
<1>2. CASE y = n
  <2>1. ASSUME io[n].at = "idle", IoBecomes(n, [at |-> "holds", from |-> m, packet |-> v])
        PROVE  IF x = m THEN Adds(x, n, 2, v) ELSE Same(x, n, 2)
    <3>1. io'[n] = [at |-> "holds", from |-> m, packet |-> v]
        BY <2>1 DEF IoBecomes
    <3>2. /\ \A R : At(x, n, 2, R) /\ \A p : ~Leads(x, n, 2, p, R)
          /\ \A R : At(x, n, 2, R)' <=> (x = m => v \in R)
          /\ \A R : \A p : Leads(x, n, 2, p, R)' <=> x = m /\ p = v
        BY <2>1, <3>1 DEF At, Leads
    <3> QED BY <3>2 DEF Adds, Same
  <2>2. ASSUME io[n].at = "holds", io[n].from = m, io[n].packet = v, IoBecomes(n, Idle)
        PROVE  IF x = m THEN Gives(x, n, 2, v) ELSE Same(x, n, 2)
    <3>1. io'[n].at = "idle"
        BY <2>2 DEF IoBecomes, Idle
    <3>2. /\ \A R : At(x, n, 2, R) <=> (x = m => v \in R)
          /\ \A R : \A p : Leads(x, n, 2, p, R) <=> x = m /\ p = v
          /\ \A R : At(x, n, 2, R)' /\ \A p : ~Leads(x, n, 2, p, R)'
        BY <2>2, <3>1 DEF At, Leads
    <3> QED BY <3>2 DEF Gives, Same
  <2> QED BY <1>2, <2>1, <2>2
<1> QED BY <1>1, <1>2

(* A queue that gets one more, or loses the first.                          *)
Longer(q, r, v) == \A R : /\ Among(q, R) /\ v \in R => Among(r, R)
                          /\ \A p : Begins(q, p, R) /\ v \in R => Begins(r, p, R)
                          /\ Among(q, {}) => Begins(r, v, R)
Shorter(q, r, v) == \A R : /\ Among(q, R) => v \in R /\ Among(r, R)
                           /\ \A p : Begins(q, p, R) => p = v /\ Among(r, R)

(* It does so to the place it stands for.                                   *)
LEMMA QueuePlace ==
    ASSUME NEW x, NEW y, NEW v
    PROVE  /\ Longer(Inbox(x, y), Inbox(x, y)', v) => Adds(x, y, 1, v)
           /\ Shorter(Inbox(x, y), Inbox(x, y)', v) => Gives(x, y, 1, v)
           /\ Longer(net[y][x], net'[y][x], v) => Adds(x, y, 3, v)
           /\ Shorter(net[y][x], net'[y][x], v) => Gives(x, y, 3, v)
<1>1. /\ \A R : At(x, y, 1, R) <=> Among(Inbox(x, y), R)
      /\ \A R : At(x, y, 1, R)' <=> Among(Inbox(x, y)', R)
      /\ \A R, p : Leads(x, y, 1, p, R) <=> Begins(Inbox(x, y), p, R)
      /\ \A R, p : Leads(x, y, 1, p, R)' <=> Begins(Inbox(x, y)', p, R)
    BY DEF At, Leads, Among, Begins
<1>2. /\ \A R : At(x, y, 3, R) <=> Among(net[y][x], R)
      /\ \A R : At(x, y, 3, R)' <=> Among(net'[y][x], R)
      /\ \A R, p : Leads(x, y, 3, p, R) <=> Begins(net[y][x], p, R)
      /\ \A R, p : Leads(x, y, 3, p, R)' <=> Begins(net'[y][x], p, R)
    BY DEF At, Leads, Among, Begins
<1>3. /\ Longer(Inbox(x, y), Inbox(x, y)', v) => Adds(x, y, 1, v)
      /\ Shorter(Inbox(x, y), Inbox(x, y)', v) => Gives(x, y, 1, v)
    BY <1>1 DEF Longer, Shorter, Adds, Gives
<1>4. /\ Longer(net[y][x], net'[y][x], v) => Adds(x, y, 3, v)
      /\ Shorter(net[y][x], net'[y][x], v) => Gives(x, y, 3, v)
    BY <1>2 DEF Longer, Shorter, Adds, Gives
<1> QED BY <1>3, <1>4

(* The queues of the I/O task.                                              *)
LEMMA WritePlace ==
    ASSUME WriteT, NEW n \in Nodes, NEW f \in Frames, NEW x \in Nodes, NEW y
    PROVE  /\ write_req' = [write_req EXCEPT ![n] = Append(@, f)] =>
                IF x = n /\ f.to = y THEN Adds(x, y, 4, f.packet) ELSE Same(x, y, 4)
           /\ /\ write_req[n] # <<>> /\ f = Head(write_req[n])
              /\ write_req' = [write_req EXCEPT ![n] = Tail(@)]
              => IF x = n /\ f.to = y THEN Gives(x, y, 4, f.packet) ELSE Same(x, y, 4)
<1>0. /\ \A R : At(x, y, 4, R) <=> AmongTo(write_req[x], y, R)
      /\ \A R : At(x, y, 4, R)' <=> AmongTo(write_req'[x], y, R)
      /\ \A R, p : Leads(x, y, 4, p, R) <=> BeginsTo(write_req[x], y, p, R)
      /\ \A R, p : Leads(x, y, 4, p, R)' <=> BeginsTo(write_req'[x], y, p, R)
    BY DEF At, Leads, AmongTo, BeginsTo
<1>1. write_req \in [Nodes -> Seq(Frames)]
    BY DEF WriteT
<1> DEFINE q == write_req[n]
<1>2. q \in Seq(Frames)
    BY <1>1
<1>3. ASSUME write_req' = [write_req EXCEPT ![n] = Append(@, f)]
      PROVE  IF x = n /\ f.to = y THEN Adds(x, y, 4, f.packet) ELSE Same(x, y, 4)
  <2>1. CASE x # n
    <3>1. write_req'[x] = write_req[x]
        BY <1>1, <1>3, <2>1
    <3> QED BY <2>1, <3>1, SamePlace
  <2>2. CASE x = n
    <3>1. write_req'[x] = Append(q, f)
        BY <1>1, <1>3, <2>2
    <3> HIDE DEF q
    <3>2. \A R : /\ f.to # y \/ f.packet \in R =>
                      /\ AmongTo(q, y, R) => AmongTo(Append(q, f), y, R)
                      /\ \A p : BeginsTo(q, y, p, R) => BeginsTo(Append(q, f), y, p, R)
                 /\ f.to = y /\ AmongTo(q, y, {}) => BeginsTo(Append(q, f), y, f.packet, R)
        BY <1>2, LaterToFacts
    <3>3. /\ \A R : At(x, y, 4, R) <=> AmongTo(q, y, R)
          /\ \A R : At(x, y, 4, R)' <=> AmongTo(Append(q, f), y, R)
          /\ \A R, p : Leads(x, y, 4, p, R) <=> BeginsTo(q, y, p, R)
          /\ \A R, p : Leads(x, y, 4, p, R)' <=> BeginsTo(Append(q, f), y, p, R)
        BY <1>0, <2>2, <3>1 DEF q
    <3> QED BY <2>2, <3>2, <3>3 DEF Adds, Same
  <2> QED BY <2>1, <2>2
<1>4. ASSUME q # <<>>, f = Head(q), write_req' = [write_req EXCEPT ![n] = Tail(@)]
      PROVE  IF x = n /\ f.to = y THEN Gives(x, y, 4, f.packet) ELSE Same(x, y, 4)
  <2>1. CASE x # n
    <3>1. write_req'[x] = write_req[x]
        BY <1>1, <1>4, <2>1
    <3> QED BY <2>1, <3>1, SamePlace
  <2>2. CASE x = n
    <3>1. write_req'[x] = Tail(q)
        BY <1>1, <1>4, <2>2
    <3>2. q # <<>> /\ Head(q) = f
        BY <1>4
    <3> HIDE DEF q
    <3>3. \A R : /\ AmongTo(q, y, R) => /\ Head(q).to = y => Head(q).packet \in R
                                        /\ AmongTo(Tail(q), y, R)
                 /\ \A p : BeginsTo(q, y, p, R) =>
                      /\ Head(q).to = y => p = Head(q).packet /\ AmongTo(Tail(q), y, R)
                      /\ Head(q).to # y => BeginsTo(Tail(q), y, p, R)
        BY <1>2, <3>2, EarlierToFacts
    <3>4. /\ \A R : At(x, y, 4, R) <=> AmongTo(q, y, R)
          /\ \A R : At(x, y, 4, R)' <=> AmongTo(Tail(q), y, R)
          /\ \A R, p : Leads(x, y, 4, p, R) <=> BeginsTo(q, y, p, R)
          /\ \A R, p : Leads(x, y, 4, p, R)' <=> BeginsTo(Tail(q), y, p, R)
        BY <1>0, <2>2, <3>1 DEF q
    <3> QED BY <2>2, <3>2, <3>3, <3>4 DEF Gives, Same
  <2> QED BY <2>1, <2>2
<1> QED BY <1>3, <1>4

(* The network.                                                             *)
LEMMA NetPlace ==
    ASSUME NetT, NEW n \in Nodes, NEW m \in Nodes, NEW v \in Packets, NEW x \in Nodes, NEW y \in Nodes
    PROVE  /\ NetSends(n, m, v) => IF x = m /\ y = n THEN Adds(x, y, 3, v) ELSE Same(x, y, 3)
           /\ /\ net[n][m] # <<>> /\ v = Head(net[n][m]) /\ net' = [net EXCEPT ![n][m] = Tail(@)]
              => IF x = m /\ y = n THEN Gives(x, y, 3, v) ELSE Same(x, y, 3)
<1> DEFINE q == net[n][m]
<1>1. net \in [Nodes -> [Nodes -> Seq(Packets)]] /\ q \in Seq(Packets)
    BY DEF NetT
<1>2. ASSUME NetSends(n, m, v)
      PROVE  IF x = m /\ y = n THEN Adds(x, y, 3, v) ELSE Same(x, y, 3)
  <2>1. net' = [net EXCEPT ![n][m] = Append(q, v)] /\ Append(q, v) \in Seq(Packets)
      BY <1>1, <1>2 DEF NetSends
  <2>2. Longer(q, Append(q, v), v)
    <3> HIDE DEF q
    <3> QED BY <1>1, LaterFacts DEF Longer
  <2>3. /\ net'[n][m] = Append(q, v)
        /\ \A b \in Nodes : b # m => net'[n][b] = net[n][b]
        /\ \A a \in Nodes : a # n => net'[a] = net[a]
    <3> HIDE DEF q
    <3> QED BY <1>1, <2>1, PutFacts
  <2>4. CASE x = m /\ y = n
    <3>1. Longer(net[y][x], net'[y][x], v)
        BY <2>2, <2>3, <2>4
    <3> QED BY <2>4, <3>1, QueuePlace
  <2>5. CASE ~(x = m /\ y = n)
    <3>1. net'[y][x] = net[y][x]
        BY <2>3, <2>5
    <3> QED BY <2>5, <3>1, SamePlace
  <2> QED BY <2>4, <2>5
<1>3. ASSUME q # <<>>, v = Head(q), net' = [net EXCEPT ![n][m] = Tail(@)]
      PROVE  IF x = m /\ y = n THEN Gives(x, y, 3, v) ELSE Same(x, y, 3)
  <2>1. net' = [net EXCEPT ![n][m] = Tail(q)] /\ Tail(q) \in Seq(Packets)
      BY <1>1, <1>3
  <2>2. Shorter(q, Tail(q), v)
    <3>1. q # <<>> /\ Head(q) = v
        BY <1>3
    <3> HIDE DEF q
    <3> QED BY <1>1, <3>1, EarlierFacts DEF Shorter
  <2>3. /\ net'[n][m] = Tail(q)
        /\ \A b \in Nodes : b # m => net'[n][b] = net[n][b]
        /\ \A a \in Nodes : a # n => net'[a] = net[a]
    <3> HIDE DEF q
    <3> QED BY <1>1, <2>1, PutFacts
  <2>4. CASE x = m /\ y = n
    <3>1. Shorter(net[y][x], net'[y][x], v)
        BY <2>2, <2>3, <2>4
    <3> QED BY <2>4, <3>1, QueuePlace
  <2>5. CASE ~(x = m /\ y = n)
    <3>1. net'[y][x] = net[y][x]
        BY <2>3, <2>5
    <3> QED BY <2>5, <3>1, SamePlace
  <2> QED BY <2>4, <2>5
<1> QED BY <1>2, <1>3

(* A payload joins the queue of a connection, or leaves it.                 *)
Delivers(n, k, v) == inbox' = [inbox EXCEPT ![n][k] = Append(@, v)]
Collects(n, k, v) == /\ inbox[n][k] # <<>> /\ v = Head(inbox[n][k])
                     /\ inbox' = [inbox EXCEPT ![n][k] = Tail(@)]

(* The queue of the connection that the map of n has for m.                 *)
LEMMA InboxPlace ==
    ASSUME Typed, Routes, UNCHANGED peerstore, NEW n \in Nodes, NEW m \in Nodes,
           NEW k \in Handles, peerstore[n][m] = k, NEW v \in Payloads,
           NEW x \in Nodes, NEW y \in Nodes
    PROVE  /\ Delivers(n, k, v) =>
                IF x = m /\ y = n THEN Adds(x, y, 1, v) ELSE Same(x, y, 1)
           /\ Collects(n, k, v) =>
                IF x = m /\ y = n THEN Gives(x, y, 1, v) ELSE Same(x, y, 1)
<1> DEFINE q == inbox[n][k]
<1>1. inbox \in [Nodes -> [Handles -> Seq(Payloads)]] /\ q \in Seq(Payloads)
    BY ShapeFacts DEF InboxT
<1>2. peerstore \in Maps /\ k # None
    BY ShapeFacts, Constants
<1>3. \A z \in Nodes : peerstore[n][z] = k => z = m
    BY <1>2 DEF Routes, Mapped
<1>4. ASSUME NEW r, inbox'[n][k] = r,
             \A j \in Handles : j # k => inbox'[n][j] = inbox[n][j],
             \A a \in Nodes : a # n => inbox'[a] = inbox[a]
      PROVE  /\ x = m /\ y = n => Inbox(x, y) = q /\ Inbox(x, y)' = r
             /\ ~(x = m /\ y = n) => Inbox(x, y)' = Inbox(x, y)
  <2>1. CASE x = m /\ y = n
      BY <1>2, <1>4, <2>1 DEF Inbox
  <2>2. CASE ~(x = m /\ y = n)
    <3>1. peerstore[y][x] \in Handles \cup {None}
        BY <1>2 DEF Maps
    <3>2. y = n => peerstore[y][x] # k
        BY <1>3, <2>2
    <3> QED BY <1>4, <2>2, <3>1, <3>2 DEF Inbox
  <2> QED BY <2>1, <2>2
<1>5. ASSUME Delivers(n, k, v)
      PROVE  IF x = m /\ y = n THEN Adds(x, y, 1, v) ELSE Same(x, y, 1)
  <2>1. inbox' = [inbox EXCEPT ![n][k] = Append(q, v)] /\ Append(q, v) \in Seq(Payloads)
      BY <1>1, <1>5 DEF Delivers
  <2>2. Longer(q, Append(q, v), v)
    <3> HIDE DEF q
    <3> QED BY <1>1, LaterFacts DEF Longer
  <2>3. /\ inbox'[n][k] = Append(q, v)
        /\ \A j \in Handles : j # k => inbox'[n][j] = inbox[n][j]
        /\ \A a \in Nodes : a # n => inbox'[a] = inbox[a]
    <3> HIDE DEF q
    <3> QED BY <1>1, <2>1, PutFacts
  <2>4. /\ x = m /\ y = n => Inbox(x, y) = q /\ Inbox(x, y)' = Append(q, v)
        /\ ~(x = m /\ y = n) => Inbox(x, y)' = Inbox(x, y)
    <3> HIDE DEF q
    <3> QED BY <1>4, <2>3
  <2> QED BY <2>2, <2>4, QueuePlace, SamePlace
<1>6. ASSUME Collects(n, k, v)
      PROVE  IF x = m /\ y = n THEN Gives(x, y, 1, v) ELSE Same(x, y, 1)
  <2>1. inbox' = [inbox EXCEPT ![n][k] = Tail(q)] /\ Tail(q) \in Seq(Payloads)
      BY <1>1, <1>6 DEF Collects
  <2>2. Shorter(q, Tail(q), v)
    <3>1. q # <<>> /\ Head(q) = v
        BY <1>6 DEF Collects
    <3> HIDE DEF q
    <3> QED BY <1>1, <3>1, EarlierFacts DEF Shorter
  <2>3. /\ inbox'[n][k] = Tail(q)
        /\ \A j \in Handles : j # k => inbox'[n][j] = inbox[n][j]
        /\ \A a \in Nodes : a # n => inbox'[a] = inbox[a]
    <3> HIDE DEF q
    <3> QED BY <1>1, <2>1, PutFacts
  <2>4. /\ x = m /\ y = n => Inbox(x, y) = q /\ Inbox(x, y)' = Tail(q)
        /\ ~(x = m /\ y = n) => Inbox(x, y)' = Inbox(x, y)
    <3> HIDE DEF q
    <3> QED BY <1>4, <2>3
  <2> QED BY <2>2, <2>4, QueuePlace, SamePlace
<1> QED BY <1>5, <1>6

-----------------------------------------------------------------------------
(* The story of two nodes.  Where x stands with y: what its swarm is doing  *)
(* for y, or whether it has a connection to y.                              *)

Stand(x, y) == IF swarm[x].peer = y THEN swarm[x].at
               ELSE IF peerstore[x][y] = None THEN "none" ELSE "done"

(* What an upgraded connection carries.                                     *)
Chat == IF ping_check THEN {"live", "data"} ELSE {"data"}
Silent(x, y) == Carries(x, y, {})
Chats(x, y) == \E R \in {Chat} : Carries(x, y, R)
Welcomed(x, y) == \E R \in {Chat} : First(x, y, "welcome", R)

(* x waits, once, or does not wait, to be accepted by y.                    *)
Asks(x, y) == \E i \in 1..Len(new_peer[y]) :
    /\ new_peer[y][i] = x
    /\ \A j \in 1..Len(new_peer[y]) : new_peer[y][j] = x => j = i
Unasked(x, y) == \A i \in 1..Len(new_peer[y]) : new_peer[y][i] # x

(* The stages of a connection that d dials and l accepts.                   *)
Dialing == {"register", "ackIn"}
Fresh(d, l) ==
    /\ Stand(d, l) \in {"none", "connectOut"} /\ Stand(l, d) = "none"
    /\ Silent(d, l) /\ Silent(l, d) /\ Unasked(d, l)
Knocking(d, l) ==
    /\ Stand(d, l) \in Dialing /\ Stand(l, d) = "none" /\ Silent(l, d)
    /\ \/ First(d, l, "connect", {}) /\ Unasked(d, l)
       \/ Silent(d, l) /\ Asks(d, l)
Answering(d, l) ==
    /\ Stand(d, l) \in Dialing /\ Silent(d, l) /\ Unasked(d, l)
    /\ \/ Stand(l, d) = "ackOut" /\ Silent(l, d)
       \/ Stand(l, d) = "helloIn" /\ First(l, d, "ack", {})
Upgraded(d, l) ==
    /\ Silent(l, d) /\ Unasked(d, l)
    /\ \/ Stand(d, l) = "helloOut" /\ Stand(l, d) = "helloIn" /\ Silent(d, l)
       \/ Stand(d, l) = "welcomeIn" /\ Stand(l, d) = "helloIn" /\ First(d, l, "hello", {})
       \/ Stand(d, l) = "welcomeIn" /\ Stand(l, d) = "welcomeOut" /\ Silent(d, l)
Talking(d, l) ==
    /\ Stand(l, d) = "done" /\ Unasked(d, l)
    /\ \/ Stand(d, l) = "welcomeIn" /\ Silent(d, l) /\ Welcomed(l, d)
       \/ Stand(d, l) = "done" /\ Chats(d, l) /\ Chats(l, d)
Stage(d, l) == /\ Unasked(l, d)
               /\ \/ Fresh(d, l) \/ Knocking(d, l) \/ Answering(d, l)
                  \/ Upgraded(d, l) \/ Talking(d, l)

(* Two nodes that dial each other wait for good: neither accepts.           *)
Crossed(x, y) ==
    /\ Stand(x, y) \in Dialing \cup {"connectOut"} /\ Stand(y, x) \in Dialing \cup {"connectOut"}
    /\ Carries(x, y, {"connect"}) /\ Carries(y, x, {"connect"})

Story(x, y) == Stage(x, y) \/ Stage(y, x) \/ Crossed(x, y)

(* A step of others, or on the way between the two.                         *)
Heeds(x, y) == /\ Asks(x, y) => Asks(x, y)'
               /\ Unasked(x, y) => Unasked(x, y)'
Stays(x, y) == \/ Stand(x, y)' = Stand(x, y)
               \/ Stand(x, y) \in Dialing /\ Stand(x, y)' \in Dialing

(* It keeps the stage, and the story.                                       *)
LEMMA StageKept ==
    ASSUME NEW d, NEW l, Stage(d, l), UNCHANGED ping_check, Stays(d, l), Stays(l, d),
           Flows(d, l), Flows(l, d), Heeds(d, l), Heeds(l, d)
    PROVE  Stage(d, l)'
<1>1. Silent(d, l) => Silent(d, l)'
    BY DEF Flows, Silent
<1>2. Silent(l, d) => Silent(l, d)'
    BY DEF Flows, Silent
<1>3. \A p : /\ First(d, l, p, {}) => First(d, l, p, {})'
             /\ First(l, d, p, {}) => First(l, d, p, {})'
    BY DEF Flows
<1>4. Chat' = Chat
    BY DEF Chat
<1>5. Chats(d, l) => Chats(d, l)'
    BY <1>4 DEF Flows, Chats
<1>6. Chats(l, d) => Chats(l, d)'
    BY <1>4 DEF Flows, Chats
<1>7. Welcomed(l, d) => Welcomed(l, d)'
    BY <1>4 DEF Flows, Welcomed
<1>8. /\ Unasked(d, l) => Unasked(d, l)'
      /\ Unasked(l, d) => Unasked(l, d)'
      /\ Asks(d, l) => Asks(d, l)'
    BY DEF Heeds
<1>9. Fresh(d, l) => Fresh(d, l)'
    BY <1>1, <1>2, <1>8 DEF Fresh, Stays, Dialing
<1>10. Knocking(d, l) => Knocking(d, l)'
    BY <1>1, <1>2, <1>3, <1>8 DEF Knocking, Stays, Dialing
<1>11. Answering(d, l) => Answering(d, l)'
    BY <1>1, <1>2, <1>3, <1>8 DEF Answering, Stays, Dialing
<1>12. Upgraded(d, l) => Upgraded(d, l)'
    BY <1>1, <1>2, <1>3, <1>8 DEF Upgraded, Stays, Dialing
<1>13. Talking(d, l) => Talking(d, l)'
    BY <1>1, <1>5, <1>6, <1>7, <1>8 DEF Talking, Stays, Dialing
<1> QED BY <1>8, <1>9, <1>10, <1>11, <1>12, <1>13 DEF Stage

(* The story too.                                                           *)
LEMMA StoryKept ==
    ASSUME NEW x, NEW y, Story(x, y), UNCHANGED ping_check, Stays(x, y), Stays(y, x),
           Flows(x, y), Flows(y, x), Heeds(x, y), Heeds(y, x)
    PROVE  Story(x, y)'
<1>1. CASE Stage(x, y)
    BY <1>1, StageKept DEF Story
<1>2. CASE Stage(y, x)
    BY <1>2, StageKept DEF Story
<1>3. CASE Crossed(x, y)
  <2>1. Crossed(x, y)'
      BY <1>3 DEF Crossed, Stays, Flows, Dialing
  <2> QED BY <2>1 DEF Story
<1> QED BY <1>1, <1>2, <1>3 DEF Story

(* A story is one of both.                                                  *)
LEMMA Both == \A x, y : /\ Story(x, y) <=> Story(y, x)
                        /\ Story(x, y)' <=> Story(y, x)'
<1>1. \A x, y : Story(x, y) <=> Story(y, x)
    BY DEF Story, Crossed
<1>2. \A x, y : Story(x, y)' <=> Story(y, x)'
    BY DEF Story, Crossed
<1> QED BY <1>1, <1>2

(* A step that concerns n and m only keeps the stories of the others.       *)
LEMMA StoriesKept ==
    ASSUME NEW n \in Nodes, NEW m \in Nodes, \A x, y \in Nodes : Story(x, y),
           UNCHANGED ping_check, Story(n, m)',
           \A x, y \in Nodes : ~(x = n /\ y = m) => Stays(x, y),
           \A x, y \in Nodes : ~(x = n /\ y = m) /\ ~(x = m /\ y = n) => Flows(x, y),
           \A x, y \in Nodes : ~(x = n /\ y = m) /\ ~(x = m /\ y = n) => Heeds(x, y)
    PROVE  \A x, y \in Nodes : Story(x, y)'
<1> SUFFICES ASSUME NEW x \in Nodes, NEW y \in Nodes
             PROVE  Story(x, y)'
    OBVIOUS
<1>1. CASE x = n /\ y = m
    BY <1>1
<1>2. CASE x = m /\ y = n
    BY <1>2, Both
<1>3. CASE ~(x = n /\ y = m) /\ ~(x = m /\ y = n)
    BY <1>3, StoryKept
<1> QED BY <1>1, <1>2, <1>3

(* Nobody new waits to be accepted: nothing changes for those that do.      *)
LEMMA HeedsFacts ==
    ASSUME NEW x, NEW y, new_peer'[y] = new_peer[y]
    PROVE  Heeds(x, y)
BY DEF Heeds, Asks, Unasked

-----------------------------------------------------------------------------
(* What a node is, by itself, while nothing disturbs it.                    *)

Live == {"select", "write", "answer"}
Settled(n) == \A m \in Nodes :
    /\ swarm[n].peer = m =>
         /\ connections[n][m] = None
         /\ peerstore[n][m] = IF swarm[n].at \in {"connectOut", "register"}
                              THEN None ELSE swarm[n].conn
    /\ swarm[n].peer # m =>
         /\ connections[n][m] = peerstore[n][m]
         /\ peerstore[n][m] # None => conn[n][peerstore[n][m]].at \in Live
Sole(n) == \A k \in Handles : conn[n][k].at # "none" => peerstore[n][conn[n][k].peer] = k
Whole(n) == /\ swarm[n].at # "dead" /\ Stand(n, n) = "none"
            /\ swarm[n].at = "loop" => swarm[n].peer = None
Fine(n, k) == LET c == conn[n][k] IN
    /\ c.at \in {"none", "upgrade"} \cup Live
    /\ c.check \in {"off", "sleep", "send", "wait"}
    /\ c.at \in Live /\ ping_check => c.check # "off"
    /\ c.at \in {"none", "upgrade"} \/ ~ping_check => c.check = "off"
    /\ c.at = "answer" => ping_check
    /\ c.at = "write" => c.hand \in Chat
    /\ \A i \in 1..Len(mux[n][k]) : mux[n][k][i] \in Chat
Local(n) == Settled(n) /\ Sole(n) /\ Whole(n) /\ \A k \in Handles : Fine(n, k)

Calm == disturbed = {} /\ \A n \in Nodes : Up(n)
Body == /\ \A n \in Nodes : Local(n)
        /\ \A x, y \in Nodes : Story(x, y)
Safe == Calm => Body

(* A node that does nothing stays so.                                       *)
LEMMA LocalElse ==
    ASSUME NEW n \in Nodes, Local(n), UNCHANGED ping_check, swarm'[n] = swarm[n],
           connections'[n] = connections[n], peerstore'[n] = peerstore[n],
           conn'[n] = conn[n], mux'[n] = mux[n]
    PROVE  Local(n)'
<1>1. Settled(n)'
    BY DEF Local, Settled
<1>2. Sole(n)'
    BY DEF Local, Sole
<1>3. Whole(n)'
    BY DEF Local, Whole, Stand
<1>4. \A k \in Handles : Fine(n, k)'
    BY DEF Local, Fine, Chat
<1> QED BY <1>1, <1>2, <1>3, <1>4 DEF Local

(* A connection that has a task, and whose task goes on.                    *)
LEMMA LocalRuns ==
    ASSUME NEW n \in Nodes, NEW k \in Handles, Local(n), conn[n][k].at \in Live,
           UNCHANGED <<ping_check, swarm, connections, peerstore>>, peerstore \in Maps,
           conn'[n][k].peer = conn[n][k].peer, conn'[n][k].at \in Live, Fine(n, k)',
           \A j \in Handles : j # k => conn'[n][j] = conn[n][j] /\ mux'[n][j] = mux[n][j]
    PROVE  Local(n)'
<1>1. Settled(n)'
  <2> SUFFICES ASSUME NEW m \in Nodes, swarm[n].peer # m, peerstore[n][m] # None
               PROVE  conn'[n][peerstore[n][m]].at \in Live
      BY DEF Local, Settled
  <2>1. peerstore[n][m] \in Handles /\ conn[n][peerstore[n][m]].at \in Live
      BY DEF Local, Settled, Maps
  <2> QED BY <2>1
<1>2. Sole(n)'
  <2> SUFFICES ASSUME NEW j \in Handles, conn'[n][j].at # "none"
               PROVE  peerstore[n][conn'[n][j].peer] = j
      BY DEF Sole
  <2>1. conn[n][j].at # "none" /\ conn'[n][j].peer = conn[n][j].peer
      BY DEF Live
  <2> QED BY <2>1 DEF Local, Sole
<1>3. Whole(n)'
    BY DEF Local, Whole, Stand
<1>4. \A j \in Handles : Fine(n, j)'
    BY DEF Local, Fine, Chat
<1> QED BY <1>1, <1>2, <1>3, <1>4 DEF Local

(* Such a connection is the one this node has to its peer.                  *)
LEMMA LiveFacts ==
    ASSUME Typed, NEW n \in Nodes, NEW k \in Handles, Local(n), conn[n][k].at \in Live
    PROVE  /\ conn[n][k].peer \in Nodes /\ peerstore[n][conn[n][k].peer] = k
           /\ Stand(n, conn[n][k].peer) = "done" /\ n # conn[n][k].peer
<1> DEFINE m == conn[n][k].peer
<1>1. conn[n][k].at \notin {"none", "upgrade"}
    BY DEF Live
<1>2. m \in Nodes /\ SwarmOk(n) /\ k # None /\ peerstore[n][m] = k
    BY <1>1, ShapeFacts, Constants DEF ConnOk, Local, Sole
<1>3. swarm[n].peer # m
  <2> SUFFICES ASSUME swarm[n].peer = m
               PROVE  FALSE
      OBVIOUS
  <2>1. swarm[n].at \notin {"connectOut", "register"} /\ k = swarm[n].conn
      BY <1>2 DEF Local, Settled
  <2>2. swarm[n].at \in Upgrading
    <3>1. swarm[n].at \in SwarmLabels
        BY ShapeFacts DEF Swarms
    <3>2. swarm[n].at # "dead" /\ swarm[n].at # "loop"
        BY <1>2, Constants DEF Local, Whole
    <3> QED BY <2>1, <3>1, <3>2 DEF SwarmLabels, Upgrading
  <2> QED BY <1>1, <1>2, <2>1, <2>2 DEF SwarmOk
<1>4. Stand(n, m) = "done"
    BY <1>2, <1>3 DEF Stand
<1>5. n # m
    BY <1>4 DEF Local, Whole
<1> QED BY <1>2, <1>4, <1>5

(* No frame asks the I/O task for anything: no connection has ended.        *)
LEMMA OuterFacts ==
    ASSUME Typed, Routes, NEW n \in Nodes, Local(n), NEW f \in Frames, Holds(write_req[n], f)
    PROVE  ~f.internal
<1>1. f.internal => Ended(n, f.to)
    BY DEF Routes, Closing
<1>2. ~Ended(n, f.to)
    BY DEF Ended, Local, Fine, Live
<1> QED BY <1>1, <1>2

(* A connection the swarm upgrades is the one this node has to the peer.    *)
LEMMA UpgradeFacts ==
    ASSUME Typed, NEW n \in Nodes, Local(n), swarm[n].at \in Upgrading \cup {"connectOut", "register"}
    PROVE  /\ swarm[n].conn \in Handles /\ swarm[n].peer \in Nodes /\ n # swarm[n].peer
           /\ Stand(n, swarm[n].peer) = swarm[n].at /\ connections[n][swarm[n].peer] = None
           /\ swarm[n].at \in Upgrading => /\ peerstore[n][swarm[n].peer] = swarm[n].conn
                                           /\ conn[n][swarm[n].conn].peer = swarm[n].peer
           /\ swarm[n].at \notin Upgrading => peerstore[n][swarm[n].peer] = None
<1>1. SwarmOk(n)
    BY ShapeFacts
<1>2. swarm[n].conn \in Handles /\ swarm[n].peer \in Nodes
    BY <1>1 DEF SwarmOk, Upgrading
<1>3. swarm[n].at \in Upgrading => conn[n][swarm[n].conn].peer = swarm[n].peer
    BY <1>1 DEF SwarmOk
<1>4. Stand(n, swarm[n].peer) = swarm[n].at /\ n # swarm[n].peer
    BY DEF Stand, Upgrading, Local, Whole
<1> QED BY <1>2, <1>3, <1>4 DEF Local, Settled, Upgrading

-----------------------------------------------------------------------------
(* The I/O tasks and the network. *)

(* Packets that only move keep everything.                                  *)
LEMMA FlowsKeep ==
    ASSUME Body, UNCHANGED <<ping_check, peerstore, new_peer, swarm, connections, conn, mux>>,
           \A x, y \in Nodes : Flows(x, y)
    PROVE  Body'
<1>1. \A n \in Nodes : Local(n)'
    BY LocalElse DEF Body
<1>2. ASSUME NEW x \in Nodes, NEW y \in Nodes
      PROVE  Story(x, y)'
  <2>1. Stays(x, y) /\ Stays(y, x)
      BY DEF Stays, Stand
  <2>2. Heeds(x, y) /\ Heeds(y, x)
      BY HeedsFacts
  <2>3. Story(x, y) /\ Flows(x, y) /\ Flows(y, x)
      BY DEF Body
  <2> QED BY <2>1, <2>2, <2>3, StoryKept
<1> QED BY <1>1, <1>2 DEF Body

(* From the network to the hands of the I/O task.                           *)
LEMMA ReceiveSafe ==
    ASSUME Inv, Body, NEW n \in Nodes, NEW m \in Nodes, Receive(n, m)
    PROVE  Body'
<1> DEFINE v == Head(net[n][m])
           w == [at |-> "holds", from |-> m, packet |-> v]
<1>1. Typed /\ IoT /\ NetT
    BY ShapeFacts DEF Inv
<1>2. v \in Packets
    BY <1>1, NetTakes DEF Receive
<1>3. IoBecomes(n, w)
  <2>1. w \in Ios
      BY <1>2 DEF Ios, IoLabels
  <2> QED BY <1>1, <2>1, IoSet DEF Receive
<1>4. UNCHANGED <<ping_check, write_req, peerstore, new_peer, swarm, connections, conn, inbox, mux>>
    BY DEF Receive
<1>5. ASSUME NEW x \in Nodes, NEW y \in Nodes
      PROVE  Flows(x, y)
  <2>1. Same(x, y, 1) /\ Same(x, y, 4)
      BY <1>4, SamePlace DEF Inbox
  <2>2. IF x = m /\ y = n THEN Adds(x, y, 2, v) ELSE Same(x, y, 2)
    <3>1. io[n].at = "idle"
        BY DEF Receive
    <3> HIDE DEF v
    <3> QED BY <1>1, <1>3, <3>1, HandPlace
  <2>3. IF x = m /\ y = n THEN Gives(x, y, 3, v) ELSE Same(x, y, 3)
      BY <1>1, <1>2, NetPlace DEF Receive
  <2> HIDE DEF v
  <2>4. CASE x = m /\ y = n
    <3>1. 2 \in 1..3 /\ 2 + 1 = 3
        OBVIOUS
    <3>2. Gives(x, y, 2 + 1, v) /\ Adds(x, y, 2, v)
        BY <2>2, <2>3, <2>4, <3>1
    <3>3. \A i \in 1..4 : i # 2 /\ i # 2 + 1 => Same(x, y, i)
      <4>1. \A i \in 1..4 : i # 2 /\ i # 2 + 1 => i = 1 \/ i = 4
          OBVIOUS
      <4> QED BY <2>1, <4>1
    <3> QED BY <3>1, <3>2, <3>3, PassesFlows
  <2>5. CASE ~(x = m /\ y = n)
    <3>1. \A i \in 1..4 : i = 1 \/ i = 2 \/ i = 3 \/ i = 4
        OBVIOUS
    <3>2. \A i \in 1..4 : Same(x, y, i)
        BY <2>1, <2>2, <2>3, <2>5, <3>1
    <3> QED BY <3>2, SameFlows
  <2> QED BY <2>4, <2>5
<1> QED BY <1>4, <1>5, FlowsKeep

(* From there to the queue of the connection.                               *)
LEMMA RouteSafe ==
    ASSUME Inv, Body, NEW n \in Nodes, Route(n)
    PROVE  Body'
<1>1. Typed /\ Routes /\ IoT /\ IoOk(n) /\ peerstore \in Maps
    BY ShapeFacts DEF Inv
<1> PICK m, v, k : m = io[n].from /\ v = io[n].packet /\ k = peerstore[n][m]
    OBVIOUS
<1>2. /\ io[n].at = "holds" /\ v # "connect" /\ k # None
      /\ inbox' = [inbox EXCEPT ![n][k] = Append(@, v)] /\ io' = [io EXCEPT ![n] = Idle]
    BY DEF Route, Target, Open
<1>3. m \in Nodes /\ v \in Payloads /\ k \in Handles /\ peerstore[n][m] = k
    BY <1>1, <1>2 DEF IoOk, Packets, Maps
<1>4. IoBecomes(n, Idle)
    BY <1>1, <1>2, IdleFacts
<1>5. UNCHANGED <<ping_check, net, write_req, peerstore, new_peer, swarm, connections, conn, mux>>
    BY DEF Route
<1>6. ASSUME NEW x \in Nodes, NEW y \in Nodes
      PROVE  Flows(x, y)
  <2>1. Same(x, y, 3) /\ Same(x, y, 4)
      BY <1>5, SamePlace
  <2>2. IF x = m /\ y = n THEN Gives(x, y, 2, v) ELSE Same(x, y, 2)
      BY <1>1, <1>2, <1>4, HandPlace
  <2>3. IF x = m /\ y = n THEN Adds(x, y, 1, v) ELSE Same(x, y, 1)
    <3>1. UNCHANGED peerstore
        BY <1>5
    <3>2. Delivers(n, k, v)
        BY <1>2 DEF Delivers
    <3> QED BY <1>1, <1>3, <3>1, <3>2, InboxPlace
  <2>4. CASE x = m /\ y = n
    <3>1. 1 \in 1..3 /\ 1 + 1 = 2
        OBVIOUS
    <3>2. Gives(x, y, 1 + 1, v) /\ Adds(x, y, 1, v)
        BY <2>2, <2>3, <2>4, <3>1
    <3>3. \A i \in 1..4 : i # 1 /\ i # 1 + 1 => Same(x, y, i)
      <4>1. \A i \in 1..4 : i # 1 /\ i # 1 + 1 => i = 3 \/ i = 4
          OBVIOUS
      <4> QED BY <2>1, <4>1
    <3> QED BY <3>1, <3>2, <3>3, PassesFlows
  <2>5. CASE ~(x = m /\ y = n)
    <3>1. \A i \in 1..4 : i = 1 \/ i = 2 \/ i = 3 \/ i = 4
        OBVIOUS
    <3>2. \A i \in 1..4 : Same(x, y, i)
        BY <2>1, <2>2, <2>3, <2>5, <3>1
    <3> QED BY <3>2, SameFlows
  <2> QED BY <2>4, <2>5
<1> QED BY <1>5, <1>6, FlowsKeep

(* From the queue of the I/O task to the network, which has room for it.    *)
LEMMA FlushSafe ==
    ASSUME Inv, Body, disturbed' = {}, NEW n \in Nodes, Flush(n)
    PROVE  Body'
<1> DEFINE f == Head(write_req[n])
           m == f.to
           v == f.packet
<1>1. Typed /\ Routes /\ NetT /\ WriteT
    BY ShapeFacts DEF Inv
<1>2. /\ write_req[n] # <<>> /\ write_req' = [write_req EXCEPT ![n] = Tail(@)]
      /\ UNCHANGED <<ping_check, io, new_peer, swarm, connections, conn, inbox, mux>>
    BY DEF Flush
<1>3. f \in Frames /\ Holds(write_req[n], f)
    BY <1>1, <1>2, WriteTakes
<1>4. ~f.internal
    BY <1>1, <1>3, OuterFacts DEF Body
<1>5. m \in Nodes /\ v \in Packets
    BY <1>3, <1>4 DEF Frames
<1>6. UNCHANGED peerstore /\ NetSends(m, n, v)
    BY <1>4 DEF Flush, NetSends
<1>7. ASSUME NEW x \in Nodes, NEW y \in Nodes
      PROVE  Flows(x, y)
  <2>1. Same(x, y, 1) /\ Same(x, y, 2)
      BY <1>2, <1>6, SamePlace DEF Inbox
  <2>2. IF x = n /\ y = m THEN Gives(x, y, 4, v) ELSE Same(x, y, 4)
    <3>1. f = Head(write_req[n])
        OBVIOUS
    <3> HIDE DEF f
    <3> QED BY <1>1, <1>2, <1>3, <3>1, WritePlace
  <2>3. IF x = n /\ y = m THEN Adds(x, y, 3, v) ELSE Same(x, y, 3)
    <3> HIDE DEF m, v
    <3> QED BY <1>1, <1>5, <1>6, NetPlace
  <2> HIDE DEF m, v
  <2>4. CASE x = n /\ y = m
    <3>1. 3 \in 1..3 /\ 3 + 1 = 4
        OBVIOUS
    <3>2. Gives(x, y, 3 + 1, v) /\ Adds(x, y, 3, v)
        BY <2>2, <2>3, <2>4, <3>1
    <3>3. \A i \in 1..4 : i # 3 /\ i # 3 + 1 => Same(x, y, i)
      <4>1. \A i \in 1..4 : i # 3 /\ i # 3 + 1 => i = 1 \/ i = 2
          OBVIOUS
      <4> QED BY <2>1, <4>1
    <3> QED BY <3>1, <3>2, <3>3, PassesFlows
  <2>5. CASE ~(x = n /\ y = m)
    <3>1. \A i \in 1..4 : i = 1 \/ i = 2 \/ i = 3 \/ i = 4
        OBVIOUS
    <3>2. \A i \in 1..4 : Same(x, y, i)
        BY <2>1, <2>2, <2>3, <2>5, <3>1
    <3> QED BY <3>2, SameFlows
  <2> QED BY <2>4, <2>5
<1> QED BY <1>2, <1>6, <1>7, FlowsKeep

(* A Connect goes to those that wait to be accepted.                        *)
LEMMA NotifySafe ==
    ASSUME Inv, Body, NEW n \in Nodes, Notify(n)
    PROVE  Body'
<1>1. Typed /\ TypeOK /\ IoT /\ IoOk(n) /\ NewT /\ InboxT /\ peerstore \in Maps
    BY ShapeFacts DEF Inv
<1> PICK m : m = io[n].from
    OBVIOUS
<1>2. /\ io[n].at = "holds" /\ io[n].packet = "connect"
      /\ new_peer' = [new_peer EXCEPT ![n] = Append(@, m)] /\ io' = [io EXCEPT ![n] = Idle]
    BY DEF Notify
<1>3. m \in Nodes
    BY <1>1, <1>2 DEF IoOk
<1>4. IoBecomes(n, Idle)
    BY <1>1, <1>2, IdleFacts
<1>5. UNCHANGED <<ping_check, net, write_req, peerstore, swarm, connections, conn, inbox, mux>>
    BY DEF Notify
<1>6. ASSUME NEW x \in Nodes, NEW y \in Nodes
      PROVE  /\ Same(x, y, 1) /\ Same(x, y, 3) /\ Same(x, y, 4)
             /\ IF x = m /\ y = n THEN Gives(x, y, 2, "connect") ELSE Same(x, y, 2)
  <2>1. Same(x, y, 1) /\ Same(x, y, 3) /\ Same(x, y, 4)
      BY <1>5, SamePlace DEF Inbox
  <2>2. IF x = m /\ y = n THEN Gives(x, y, 2, "connect") ELSE Same(x, y, 2)
      BY <1>1, <1>2, <1>4, HandPlace
  <2> QED BY <2>1, <2>2
<1>7. ASSUME NEW x \in Nodes, NEW y \in Nodes
      PROVE  ~(x = m /\ y = n) => Flows(x, y)
  <2>1. SUFFICES ASSUME ~(x = m /\ y = n)
                 PROVE  Flows(x, y)
      OBVIOUS
  <2>2. \A i \in 1..4 : i = 1 \/ i = 2 \/ i = 3 \/ i = 4
      OBVIOUS
  <2>3. \A i \in 1..4 : Same(x, y, i)
      BY <1>6, <2>1, <2>2
  <2> QED BY <2>3, SameFlows
<1>8. \A R : /\ Carries(m, n, R) => "connect" \in R /\ Carries(m, n, R)'
             /\ \A p : First(m, n, p, R) => /\ R = {} => p = "connect" /\ Carries(m, n, R)'
                                            /\ p = "connect" \/ "connect" \in R
  <2>1. 2 \in 1..2 /\ Gives(m, n, 2, "connect")
      BY <1>3, <1>6
  <2>2. \A i \in 1..4 : i # 2 => Same(m, n, i)
    <3>1. \A i \in 1..4 : i # 2 => i = 1 \/ i = 3 \/ i = 4
        OBVIOUS
    <3> QED BY <1>3, <1>6, <3>1
  <2> QED BY <2>1, <2>2, GoneFacts
<1>9. /\ \A x \in Nodes : x # n => new_peer'[x] = new_peer[x]
      /\ new_peer'[n] = Append(new_peer[n], m) /\ new_peer[n] \in Seq(Nodes)
    BY <1>1, <1>2 DEF NewT
<1>10. /\ \A x \in Nodes : x # m => Heeds(x, n)
       /\ Unasked(m, n) => Asks(m, n)'
  <2> DEFINE q == new_peer[n]
             r == Append(q, m)
             c == Len(q)
  <2>1. /\ c \in Nat /\ Len(r) = c + 1 /\ r[c + 1] = m
        /\ \A i \in 1..c : r[i] = q[i]
      BY <1>9
  <2>2. /\ \A i \in 1..Len(r) : i \in 1..c \/ i = c + 1
        /\ \A i \in 1..c : i \in 1..Len(r) /\ i # c + 1
        /\ c + 1 \in 1..Len(r)
      BY <2>1
  <2> HIDE DEF r, c
  <2>3. ASSUME NEW x \in Nodes, x # m
        PROVE  Heeds(x, n)
    <3>1. \A i \in 1..Len(r) : r[i] = x => i \in 1..c /\ q[i] = x
        BY <2>1, <2>2, <2>3
    <3>2. Unasked(x, n) => \A i \in 1..Len(r) : r[i] # x
        BY <3>1 DEF Unasked, c
    <3>3. Asks(x, n) => \E i \in 1..Len(r) : r[i] = x /\ \A j \in 1..Len(r) : r[j] = x => j = i
      <4> SUFFICES ASSUME Asks(x, n)
                   PROVE  \E i \in 1..Len(r) : r[i] = x /\ \A j \in 1..Len(r) : r[j] = x => j = i
          OBVIOUS
      <4>1. PICK i \in 1..c : q[i] = x /\ \A j \in 1..c : q[j] = x => j = i
          BY DEF Asks, c
      <4>2. i \in 1..Len(r) /\ r[i] = x
          BY <2>1, <2>2, <4>1
      <4>3. \A j \in 1..Len(r) : r[j] = x => j = i
          BY <3>1, <4>1
      <4> QED BY <4>2, <4>3
    <3> QED BY <1>9, <3>2, <3>3 DEF Heeds, Unasked, Asks, r
  <2>4. ASSUME Unasked(m, n)
        PROVE  Asks(m, n)'
    <3>1. \A j \in 1..Len(r) : r[j] = m => j = c + 1
        BY <2>1, <2>2, <2>4 DEF Unasked, c
    <3> QED BY <1>9, <2>1, <2>2, <3>1 DEF Asks, r
  <2> QED BY <2>3, <2>4
<1>11. \A x, y \in Nodes : ~(x = m /\ y = n) => Heeds(x, y)
    BY <1>9, <1>10, HeedsFacts
<1>12. \A x, y : Stand(x, y)' = Stand(x, y)
    BY <1>5 DEF Stand
<1>13. Story(n, m)'
  <2>1. Story(m, n) /\ Story(n, m)
      BY <1>3 DEF Body
  <2>2. "connect" \notin Chat /\ "connect" \notin {}
      BY DEF Chat
  <2>3. ~Silent(m, n) /\ ~Chats(m, n) /\ ~Welcomed(m, n)
      BY <1>8, <2>2 DEF Silent, Chats, Welcomed
  <2>4. ~First(m, n, "ack", {}) /\ ~First(m, n, "hello", {})
      BY <1>8, <2>2
  <2>5. CASE Stage(m, n)
    <3>1. Knocking(m, n)
        BY <2>3, <2>4, <2>5 DEF Stage, Fresh, Answering, Upgraded, Talking
    <3>2. First(m, n, "connect", {}) /\ Unasked(m, n)
        BY <2>3, <3>1 DEF Knocking
    <3>3. m # n
        BY <1>12, <3>1 DEF Knocking, Body, Local, Whole, Dialing
    <3>4. Silent(m, n)' /\ Asks(m, n)'
        BY <1>8, <1>10, <3>2 DEF Silent
    <3>5. Silent(n, m) => Silent(n, m)'
        BY <1>3, <1>7, <3>3 DEF Silent, Flows
    <3>6. Unasked(n, m)'
        BY <1>3, <1>11, <2>5, <3>3 DEF Stage, Heeds
    <3>7. Knocking(m, n)'
        BY <1>12, <3>1, <3>4, <3>5 DEF Knocking
    <3> QED BY <3>6, <3>7 DEF Stage, Story
  <2>6. CASE Stage(n, m)
    <3> QED BY <2>3, <2>4, <2>6 DEF Stage, Fresh, Knocking, Answering, Upgraded, Talking
  <2>7. CASE Crossed(n, m)
    <3>1. Carries(m, n, {"connect"})'
        BY <1>8, <2>7 DEF Crossed
    <3>2. m # n
        BY <2>7 DEF Crossed, Body, Local, Whole, Dialing
    <3>3. Carries(n, m, {"connect"})'
        BY <1>3, <1>7, <2>7, <3>2 DEF Crossed, Flows
    <3>4. Crossed(n, m)'
        BY <1>12, <2>7, <3>1, <3>3 DEF Crossed
    <3> QED BY <3>4 DEF Story
  <2> QED BY <2>1, <2>5, <2>6, <2>7 DEF Story
<1>14. \A x \in Nodes : Local(x)'
    BY <1>5, LocalElse DEF Body
<1>15. \A x, y \in Nodes : Story(x, y)'
  <2>1. \A x, y \in Nodes : Stays(x, y)
      BY <1>12 DEF Stays
  <2>2. \A x, y \in Nodes : ~(x = n /\ y = m) /\ ~(x = m /\ y = n) => Flows(x, y)
      BY <1>7
  <2> QED BY <1>3, <1>5, <1>11, <1>13, <2>1, <2>2, StoriesKept DEF Body
<1> QED BY <1>14, <1>15 DEF Body

-----------------------------------------------------------------------------
(* The connections' tasks and their checks. *)

(* Where nothing moves on the way or in a swarm, the stories stay.          *)
LEMMA StillStories ==
    ASSUME Body, UNCHANGED <<ping_check, io, net, write_req, peerstore, new_peer, swarm, inbox>>
    PROVE  \A x, y \in Nodes : Story(x, y)'
<1> SUFFICES ASSUME NEW x \in Nodes, NEW y \in Nodes
             PROVE  Story(x, y)'
    OBVIOUS
<1>1. \A a, b : Stays(a, b) /\ Heeds(a, b)
    BY HeedsFacts DEF Stays, Stand
<1>2. ASSUME NEW a, NEW b
      PROVE  Flows(a, b)
  <2>1. Same(a, b, 1) /\ Same(a, b, 2) /\ Same(a, b, 3) /\ Same(a, b, 4)
      BY SamePlace DEF Inbox
  <2>2. \A i \in 1..4 : i = 1 \/ i = 2 \/ i = 3 \/ i = 4
      OBVIOUS
  <2>3. \A i \in 1..4 : Same(a, b, i)
      BY <2>1, <2>2
  <2> QED BY <2>3, SameFlows
<1>3. Story(x, y)
    BY DEF Body
<1> QED BY <1>1, <1>2, <1>3, StoryKept

(* A frame joins, or leaves, the queue of a connection's task.              *)
LEMMA MuxPlace ==
    ASSUME MuxT, NEW n \in Nodes, NEW k \in Handles, NEW f \in MuxFrames, NEW R,
           Among(mux[n][k], R)
    PROVE  /\ mux' = [mux EXCEPT ![n][k] = Append(@, f)] =>
                /\ \A x \in Nodes, j \in Handles : ~(x = n /\ j = k) => mux'[x][j] = mux[x][j]
                /\ \A x \in Nodes : x # n => mux'[x] = mux[x]
                /\ f \in R => Among(mux'[n][k], R)
           /\ mux[n][k] # <<>> /\ mux' = [mux EXCEPT ![n][k] = Tail(@)] =>
                /\ \A x \in Nodes, j \in Handles : ~(x = n /\ j = k) => mux'[x][j] = mux[x][j]
                /\ \A x \in Nodes : x # n => mux'[x] = mux[x]
                /\ Head(mux[n][k]) \in R /\ Among(mux'[n][k], R)
<1> DEFINE q == mux[n][k]
<1>1. mux \in [Nodes -> [Handles -> Seq(MuxFrames)]] /\ q \in Seq(MuxFrames)
    BY DEF MuxT
<1>2. ASSUME NEW r \in Seq(MuxFrames), mux' = [mux EXCEPT ![n][k] = r]
      PROVE  /\ \A x \in Nodes, j \in Handles : ~(x = n /\ j = k) => mux'[x][j] = mux[x][j]
             /\ \A x \in Nodes : x # n => mux'[x] = mux[x]
             /\ mux'[n][k] = r
    BY <1>1, <1>2, PutFacts
<1>3. ASSUME mux' = [mux EXCEPT ![n][k] = Append(@, f)]
      PROVE  /\ \A x \in Nodes, j \in Handles : ~(x = n /\ j = k) => mux'[x][j] = mux[x][j]
             /\ \A x \in Nodes : x # n => mux'[x] = mux[x]
             /\ f \in R => Among(mux'[n][k], R)
  <2>1. mux' = [mux EXCEPT ![n][k] = Append(q, f)] /\ Append(q, f) \in Seq(MuxFrames)
      BY <1>1, <1>3
  <2>2. f \in R => Among(Append(q, f), R)
      BY <1>1, LaterFacts
  <2> HIDE DEF q
  <2> QED BY <1>2, <2>1, <2>2
<1>4. ASSUME q # <<>>, mux' = [mux EXCEPT ![n][k] = Tail(@)]
      PROVE  /\ \A x \in Nodes, j \in Handles : ~(x = n /\ j = k) => mux'[x][j] = mux[x][j]
             /\ \A x \in Nodes : x # n => mux'[x] = mux[x]
             /\ Head(q) \in R /\ Among(mux'[n][k], R)
  <2>1. mux' = [mux EXCEPT ![n][k] = Tail(q)] /\ Tail(q) \in Seq(MuxFrames)
      BY <1>1, <1>4
  <2>2. Head(q) \in R /\ Among(Tail(q), R)
      BY <1>1, <1>4, EarlierFacts
  <2> HIDE DEF q
  <2> QED BY <1>2, <2>1, <2>2
<1> QED BY <1>3, <1>4

(* What Fine says of the record of a connection.                            *)
Well(c) ==
    /\ c.at \in {"none", "upgrade"} \cup Live
    /\ c.check \in {"off", "sleep", "send", "wait"}
    /\ c.at \in Live /\ ping_check => c.check # "off"
    /\ c.at \in {"none", "upgrade"} \/ ~ping_check => c.check = "off"
    /\ c.at = "answer" => ping_check
    /\ c.at = "write" => c.hand \in Chat

(* A connection with a task goes on, well.                                  *)
LEMMA BecomesLocal ==
    ASSUME Typed, Body, NEW n \in Nodes, NEW k \in Handles, conn[n][k].at \in Live,
           NEW c, ConnBecomes(n, k, c), c.peer = conn[n][k].peer, c.at \in Live, Well(c),
           UNCHANGED <<ping_check, swarm, connections, peerstore>>,
           \A x \in Nodes, j \in Handles : ~(x = n /\ j = k) => mux'[x][j] = mux[x][j],
           \A x \in Nodes : x # n => mux'[x] = mux[x], Among(mux'[n][k], Chat)
    PROVE  \A x \in Nodes : Local(x)'
<1>1. peerstore \in Maps
    BY ShapeFacts
<1>2. Fine(n, k)'
    BY DEF Fine, Well, ConnBecomes, Chat, Among
<1>3. Local(n)'
    BY <1>1, <1>2, LocalRuns DEF Body, ConnBecomes
<1>4. ASSUME NEW x \in Nodes, x # n
      PROVE  Local(x)'
    BY <1>4, LocalElse DEF Body, ConnBecomes
<1> QED BY <1>3, <1>4

(* The same where its queue stays.                                          *)
LEMMA BecomesAlone ==
    ASSUME Typed, Body, NEW n \in Nodes, NEW k \in Handles, conn[n][k].at \in Live,
           NEW c, ConnBecomes(n, k, c), c.peer = conn[n][k].peer, c.at \in Live, Well(c),
           UNCHANGED <<ping_check, swarm, connections, peerstore, mux>>
    PROVE  \A x \in Nodes : Local(x)'
<1>1. Among(mux[n][k], Chat)
    BY DEF Among, Body, Local, Fine
<1> QED BY <1>1, BecomesLocal

(* What the record of a connection with a task is, and is well.             *)
LEMMA WellFacts ==
    ASSUME Typed, Body, NEW n \in Nodes, NEW k \in Handles
    PROVE  /\ Well(conn[n][k]) /\ conn[n][k] \in Conns /\ ConnT /\ MuxT
           /\ conn \in [Nodes -> [Handles -> Conns]] /\ Among(mux[n][k], Chat)
<1>1. Well(conn[n][k]) /\ Among(mux[n][k], Chat)
    BY DEF Well, Among, Body, Local, Fine
<1>2. conn[n][k] \in Conns /\ ConnT /\ MuxT
    BY ShapeFacts
<1> QED BY <1>1, <1>2 DEF ConnT

(* The task takes a frame to write.                                         *)
LEMMA ConnTakesSafe ==
    ASSUME Inv, Body, NEW n \in Nodes, NEW k \in Handles, ConnTakes(n, k)
    PROVE  Body'
<1> DEFINE f == Head(mux[n][k])
           c == [conn[n][k] EXCEPT !.at = "write", !.hand = f]
<1>1. /\ Typed /\ Well(conn[n][k]) /\ conn[n][k] \in Conns /\ ConnT /\ MuxT
      /\ conn \in [Nodes -> [Handles -> Conns]] /\ Among(mux[n][k], Chat)
    BY WellFacts DEF Inv
<1>2. /\ conn[n][k].at = "select" /\ mux[n][k] # <<>> /\ mux' = [mux EXCEPT ![n][k] = Tail(@)]
      /\ UNCHANGED <<ping_check, io, net, write_req, peerstore, new_peer, swarm, connections, inbox>>
    BY DEF ConnTakes, connOnly
<1>3. f \in MuxFrames
    BY <1>1, <1>2, MuxTakes
<1>4. /\ \A x \in Nodes, j \in Handles : ~(x = n /\ j = k) => mux'[x][j] = mux[x][j]
      /\ \A x \in Nodes : x # n => mux'[x] = mux[x]
      /\ f \in Chat /\ Among(mux'[n][k], Chat)
    BY <1>1, <1>2, <1>3, MuxPlace
<1>5. f # "disconnected"
    BY <1>4 DEF Chat
<1>6. c \in Conns /\ c.at = "write" /\ c.hand = f /\ c.peer = conn[n][k].peer /\ c.check = conn[n][k].check
    BY <1>1, <1>3 DEF Conns, ConnLabels
<1>7. ConnBecomes(n, k, c)
  <2>1. conn' = [conn EXCEPT ![n][k] = c]
      BY <1>1, <1>5 DEF ConnTakes
  <2> HIDE DEF c
  <2> QED BY <1>1, <1>6, <2>1, ConnSet
<1>8. Well(c) /\ c.at \in Live
    BY <1>1, <1>2, <1>4, <1>6 DEF Well, Live
<1> HIDE DEF c, f
<1>9. conn[n][k].at \in Live
    BY <1>2 DEF Live
<1>10. \A x \in Nodes : Local(x)'
    BY <1>1, <1>2, <1>4, <1>6, <1>7, <1>8, <1>9, BecomesLocal
<1>11. \A x, y \in Nodes : Story(x, y)'
    BY <1>2, StillStories
<1> QED BY <1>10, <1>11 DEF Body

(* A stream writes.                                                         *)
LEMMA StreamWritesSafe ==
    ASSUME Inv, Body, NEW n \in Nodes, NEW k \in Handles, StreamWrites(n, k)
    PROVE  Body'
<1>1. /\ Typed /\ Well(conn[n][k]) /\ conn[n][k] \in Conns /\ ConnT /\ MuxT
      /\ conn \in [Nodes -> [Handles -> Conns]] /\ Among(mux[n][k], Chat)
    BY WellFacts DEF Inv
<1>2. /\ conn[n][k].at \in {"select", "write", "answer", "close"}
      /\ mux' = [mux EXCEPT ![n][k] = Append(@, "data")]
      /\ UNCHANGED <<ping_check, io, net, write_req, peerstore, new_peer, swarm, connections, inbox>>
      /\ UNCHANGED conn
    BY DEF StreamWrites
<1>3. conn[n][k].at \in Live
    BY <1>1, <1>2 DEF Well, Live
<1>4. "data" \in MuxFrames /\ "data" \in Chat
    BY DEF MuxFrames, Chat
<1>5. /\ \A x \in Nodes, j \in Handles : ~(x = n /\ j = k) => mux'[x][j] = mux[x][j]
      /\ \A x \in Nodes : x # n => mux'[x] = mux[x]
      /\ Among(mux'[n][k], Chat)
    BY <1>1, <1>2, <1>4, MuxPlace
<1>6. ConnBecomes(n, k, conn[n][k])
  <2>1. ConnT'
      BY <1>1, <1>2, SameTypes
  <2> QED BY <1>2, <2>1 DEF ConnBecomes
<1>7. \A x \in Nodes : Local(x)'
    BY <1>1, <1>2, <1>3, <1>5, <1>6, BecomesLocal
<1>8. \A x, y \in Nodes : Story(x, y)'
    BY <1>2, StillStories
<1> QED BY <1>7, <1>8 DEF Body

(* A liveliness frame is handed to the check, which is there.               *)
LEMMA ConnAnswersSafe ==
    ASSUME Inv, Body, NEW n \in Nodes, NEW k \in Handles, ConnAnswers(n, k)
    PROVE  Body'
<1> DEFINE a == conn[n][k].answers + 1
           c == [conn[n][k] EXCEPT !.at = "select", !.answers = a]
<1>1. /\ Typed /\ Well(conn[n][k]) /\ conn[n][k] \in Conns /\ ConnT
      /\ conn \in [Nodes -> [Handles -> Conns]]
    BY WellFacts DEF Inv
<1>2. /\ conn[n][k].at = "answer"
      /\ UNCHANGED <<ping_check, io, net, write_req, peerstore, new_peer, swarm, connections, inbox>>
      /\ UNCHANGED mux
    BY DEF ConnAnswers, connOnly
<1>3. conn[n][k].at \in Live
    BY <1>2 DEF Live
<1>4. conn[n][k].check \notin {"off", "over"}
    BY <1>1, <1>2, <1>3 DEF Well
<1>5. a \in 0..QueueCap
  <2>1. conn[n][k].answers \in 0..QueueCap /\ conn[n][k].answers < QueueCap /\ QueueCap \in Nat
      BY <1>1, <1>4, Constants DEF Conns, ConnAnswers
  <2> QED BY <2>1
<1>6. /\ c \in Conns /\ c.at = "select" /\ c.peer = conn[n][k].peer
      /\ c.check = conn[n][k].check
  <2> HIDE DEF a
  <2> QED BY <1>1, <1>5 DEF Conns, ConnLabels
<1>7. ConnBecomes(n, k, c)
  <2>1. conn' = [conn EXCEPT ![n][k] = c]
      BY <1>1, <1>4 DEF ConnAnswers
  <2> HIDE DEF c
  <2> QED BY <1>1, <1>6, <2>1, ConnSet
<1>8. Well(c) /\ c.at \in Live
    BY <1>1, <1>3, <1>6 DEF Well, Live
<1> HIDE DEF c
<1>9. \A x \in Nodes : Local(x)'
    BY <1>1, <1>2, <1>3, <1>6, <1>7, <1>8, BecomesAlone
<1>10. \A x, y \in Nodes : Story(x, y)'
    BY <1>2, StillStories
<1> QED BY <1>9, <1>10 DEF Body

(* A check that runs goes on to another of its steps.                       *)
LEMMA CheckGoes ==
    ASSUME Typed, Body, NEW n \in Nodes, NEW k \in Handles,
           conn[n][k].check \in {"sleep", "send", "wait"},
           NEW label \in {"sleep", "send", "wait"}, NEW a \in 0..QueueCap,
           conn' = [conn EXCEPT ![n][k] = [conn[n][k] EXCEPT !.check = label, !.answers = a]]
    PROVE  \E c : /\ conn[n][k].at \in Live /\ ping_check /\ ConnBecomes(n, k, c) /\ Well(c)
                  /\ c.peer = conn[n][k].peer /\ c.at \in Live
<1> DEFINE c == [conn[n][k] EXCEPT !.check = label, !.answers = a]
<1>1. /\ Well(conn[n][k]) /\ conn[n][k] \in Conns /\ ConnT
      /\ conn \in [Nodes -> [Handles -> Conns]]
    BY WellFacts
<1>2. conn[n][k].at \in Live /\ ping_check
    BY <1>1 DEF Well
<1>3. /\ c \in Conns /\ c.at = conn[n][k].at /\ c.peer = conn[n][k].peer /\ c.check = label
      /\ c.hand = conn[n][k].hand
    BY <1>1 DEF Conns, CheckLabels
<1>4. conn' = [conn EXCEPT ![n][k] = c]
    OBVIOUS
<1> HIDE DEF c
<1>5. ConnBecomes(n, k, c)
    BY <1>1, <1>3, <1>4, ConnSet
<1>6. Well(c)
    BY <1>1, <1>2, <1>3 DEF Well, Live
<1> QED BY <1>2, <1>3, <1>5, <1>6

(* The check wakes, sends or hears; it cannot give up.                      *)
LEMMA CheckSafe ==
    ASSUME Inv, Body, disturbed' = {}, NEW n \in Nodes, NEW k \in Handles, CheckStep(n, k)
    PROVE  Body'
<1>1. /\ Typed /\ Well(conn[n][k]) /\ conn[n][k] \in Conns /\ ConnT /\ MuxT
      /\ conn \in [Nodes -> [Handles -> Conns]] /\ Among(mux[n][k], Chat)
    BY WellFacts DEF Inv
<1>2. /\ UNCHANGED <<ping_check, io, net, write_req, peerstore, new_peer, swarm, connections>>
      /\ UNCHANGED inbox
    BY DEF CheckStep, Wakes, CheckSends, CheckHears, TimesOut, CheckReports, CheckFails, checkOnly
<1>3. \A x, y \in Nodes : Story(x, y)'
    BY <1>2, StillStories
<1>4. conn[n][k].answers \in 0..QueueCap /\ QueueCap \in Nat
    BY <1>1, Constants DEF Conns
<1>5. CASE Wakes(n, k)
  <2> DEFINE label == IF conn[n][k].dialed THEN "send" ELSE "wait"
             a == conn[n][k].answers
  <2>1. conn' = [conn EXCEPT ![n][k] = [conn[n][k] EXCEPT !.check = label, !.answers = a]]
    <3>1. conn' = [conn EXCEPT ![n][k] = [conn[n][k] EXCEPT !.check = label]]
        BY <1>5 DEF Wakes, Checks
    <3>2. [conn[n][k] EXCEPT !.check = label] = [conn[n][k] EXCEPT !.check = label, !.answers = a]
        BY <1>1 DEF Conns
    <3> QED BY <3>1, <3>2
  <2>2. conn[n][k].check \in {"sleep", "send", "wait"} /\ label \in {"sleep", "send", "wait"}
      BY <1>5 DEF Wakes
  <2> HIDE DEF label, a
  <2>3. \E c : /\ conn[n][k].at \in Live /\ ping_check /\ ConnBecomes(n, k, c) /\ Well(c)
               /\ c.peer = conn[n][k].peer /\ c.at \in Live
      BY <1>1, <1>4, <2>1, <2>2, CheckGoes DEF a
  <2>4. UNCHANGED mux
      BY <1>5 DEF Wakes
  <2>5. \A x \in Nodes : Local(x)'
      BY <1>1, <1>2, <2>3, <2>4, BecomesAlone
  <2> QED BY <1>3, <2>5 DEF Body
<1>6. CASE CheckSends(n, k)
  <2> DEFINE label == IF conn[n][k].dialed THEN "wait" ELSE "sleep"
             a == conn[n][k].answers
  <2>1. conn' = [conn EXCEPT ![n][k] = [conn[n][k] EXCEPT !.check = label, !.answers = a]]
    <3>1. conn' = [conn EXCEPT ![n][k] = [conn[n][k] EXCEPT !.check = label]]
        BY <1>6 DEF CheckSends, Checks
    <3>2. [conn[n][k] EXCEPT !.check = label] = [conn[n][k] EXCEPT !.check = label, !.answers = a]
        BY <1>1 DEF Conns
    <3> QED BY <3>1, <3>2
  <2>2. conn[n][k].check \in {"sleep", "send", "wait"} /\ label \in {"sleep", "send", "wait"}
      BY <1>6 DEF CheckSends
  <2> HIDE DEF label, a
  <2>3. PICK c : /\ conn[n][k].at \in Live /\ ping_check /\ ConnBecomes(n, k, c) /\ Well(c)
                 /\ c.peer = conn[n][k].peer /\ c.at \in Live
      BY <1>1, <1>4, <2>1, <2>2, CheckGoes DEF a
  <2>4. "live" \in MuxFrames /\ "live" \in Chat
      BY <2>3 DEF MuxFrames, Chat
  <2>5. /\ \A x \in Nodes, j \in Handles : ~(x = n /\ j = k) => mux'[x][j] = mux[x][j]
        /\ \A x \in Nodes : x # n => mux'[x] = mux[x]
        /\ Among(mux'[n][k], Chat)
    <3>1. mux' = [mux EXCEPT ![n][k] = Append(@, "live")]
        BY <1>6 DEF CheckSends
    <3> QED BY <1>1, <2>4, <3>1, MuxPlace
  <2>6. \A x \in Nodes : Local(x)'
      BY <1>1, <1>2, <2>3, <2>5, BecomesLocal
  <2> QED BY <1>3, <2>6 DEF Body
<1>7. CASE CheckHears(n, k)
  <2> DEFINE label == IF conn[n][k].dialed THEN "sleep" ELSE "send"
             a == conn[n][k].answers - 1
  <2>1. conn' = [conn EXCEPT ![n][k] = [conn[n][k] EXCEPT !.check = label, !.answers = a]]
    <3>1. conn' = [conn EXCEPT ![n][k] = [conn[n][k] EXCEPT !.answers = a, !.check = label]]
        BY <1>1, <1>7 DEF CheckHears
    <3>2. [conn[n][k] EXCEPT !.answers = a, !.check = label]
             = [conn[n][k] EXCEPT !.check = label, !.answers = a]
        BY <1>1 DEF Conns
    <3> QED BY <3>1, <3>2
  <2>2. /\ conn[n][k].check \in {"sleep", "send", "wait"} /\ label \in {"sleep", "send", "wait"}
        /\ a \in 0..QueueCap
      BY <1>4, <1>7 DEF CheckHears
  <2> HIDE DEF label, a
  <2>3. \E c : /\ conn[n][k].at \in Live /\ ping_check /\ ConnBecomes(n, k, c) /\ Well(c)
               /\ c.peer = conn[n][k].peer /\ c.at \in Live
      BY <1>1, <2>1, <2>2, CheckGoes
  <2>4. UNCHANGED mux
      BY <1>7 DEF CheckHears
  <2>5. \A x \in Nodes : Local(x)'
      BY <1>1, <1>2, <2>3, <2>4, BecomesAlone
  <2> QED BY <1>3, <2>5 DEF Body
<1>8. CASE TimesOut(n, k)
    BY <1>8 DEF TimesOut
<1>9. CASE CheckReports(n, k)
    BY <1>1, <1>9 DEF CheckReports, Well
<1>10. CASE CheckFails(n, k)
  <2>1. conn[n][k].at \in Live
      BY <1>1, <1>10 DEF CheckFails, Well
  <2>2. k # None
      BY Constants
  <2> QED BY <1>10, <2>1, <2>2 DEF CheckFails, Open, Live
<1> QED BY <1>5, <1>6, <1>7, <1>8, <1>9, <1>10 DEF CheckStep

(* The task writes a frame to its peer, which listens.                      *)
LEMMA ConnWritesSafe ==
    ASSUME Inv, Body, NEW n \in Nodes, Up(n), NEW k \in Handles, ConnWrites(n, k)
    PROVE  Body'
<1> PICK m, v : m = conn[n][k].peer /\ v = conn[n][k].hand
    OBVIOUS
<1> DEFINE c == [conn[n][k] EXCEPT !.at = "select"]
           f == [to |-> m, packet |-> v, internal |-> FALSE]
<1>1. /\ Typed /\ Well(conn[n][k]) /\ conn[n][k] \in Conns /\ ConnT /\ WriteT
      /\ conn \in [Nodes -> [Handles -> Conns]] /\ Local(n)
    BY WellFacts, ShapeFacts DEF Inv, Body
<1>2. /\ conn[n][k].at = "write" /\ Writes(n, f) /\ conn' = [conn EXCEPT ![n][k] = c]
      /\ UNCHANGED <<ping_check, io, net, peerstore, new_peer, swarm, connections, inbox, mux>>
    BY <1>1 DEF ConnWrites, connOnly, Moves
<1>3. conn[n][k].at \in Live
    BY <1>2 DEF Live
<1>4. m \in Nodes /\ n # m /\ Stand(n, m) = "done"
    BY <1>1, <1>3, LiveFacts
<1>5. v \in Chat /\ v \in {"live", "data"}
    BY <1>1, <1>2 DEF Well, Chat
<1>6. f \in Frames /\ f.to = m /\ f.packet = v
    BY <1>4, <1>5 DEF Frames, Packets, Payloads
<1>7. /\ c \in Conns /\ c.at = "select" /\ c.peer = conn[n][k].peer
      /\ c.check = conn[n][k].check
    BY <1>1 DEF Conns, ConnLabels
<1>8. Well(c) /\ c.at \in Live
    BY <1>1, <1>3, <1>7 DEF Well, Live
<1> HIDE DEF c
<1>9. ConnBecomes(n, k, c)
    BY <1>1, <1>2, <1>7, ConnSet
<1>10. \A x \in Nodes : Local(x)'
    BY <1>1, <1>2, <1>3, <1>7, <1>8, <1>9, BecomesAlone DEF Inv
<1>11. \A x, y : Stays(x, y) /\ Heeds(x, y)
    BY <1>2, HeedsFacts DEF Stays, Stand
<1>12. ASSUME NEW x \in Nodes, NEW y \in Nodes
       PROVE  /\ \A i \in 1..3 : Same(x, y, i)
              /\ IF x = n /\ y = m THEN Adds(x, y, 4, v) ELSE Same(x, y, 4)
  <2>1. Same(x, y, 1) /\ Same(x, y, 2) /\ Same(x, y, 3)
      BY <1>2, SamePlace DEF Inbox
  <2>2. IF x = n /\ f.to = y THEN Adds(x, y, 4, f.packet) ELSE Same(x, y, 4)
    <3>1. write_req' = [write_req EXCEPT ![n] = Append(@, f)]
        BY <1>2 DEF Writes
    <3> HIDE DEF f
    <3> QED BY <1>1, <1>6, <3>1, WritePlace
  <2>3. \A i \in 1..3 : i = 1 \/ i = 2 \/ i = 3
      OBVIOUS
  <2> QED BY <1>6, <2>1, <2>2, <2>3
<1>13. ASSUME NEW x \in Nodes, NEW y \in Nodes, ~(x = n /\ y = m)
       PROVE  Flows(x, y)
  <2>1. \A i \in 1..4 : i = 4 \/ i \in 1..3
      OBVIOUS
  <2> QED BY <1>12, <1>13, <2>1, SameFlows
<1>14. \A R : /\ Carries(n, m, R) /\ v \in R => Carries(n, m, R)'
              /\ \A p : First(n, m, p, R) /\ v \in R => First(n, m, p, R)'
    BY <1>4, <1>12, SentFacts
<1>15. Story(n, m)'
  <2>1. Chat' = Chat
      BY <1>2 DEF Chat
  <2>2. /\ Chats(n, m) => Chats(n, m)'
        /\ Welcomed(n, m) => Welcomed(n, m)'
      BY <1>5, <1>14, <2>1 DEF Chats, Welcomed
  <2>3. Flows(m, n)
      BY <1>4, <1>13
  <2>4. /\ Chats(m, n) => Chats(m, n)'
        /\ Silent(m, n) => Silent(m, n)'
      BY <2>1, <2>3 DEF Flows, Chats, Silent
  <2>5. Stand(n, m)' = Stand(n, m) /\ Stand(m, n)' = Stand(m, n)
      BY <1>2 DEF Stand
  <2>6. /\ Unasked(n, m) => Unasked(n, m)'
        /\ Unasked(m, n) => Unasked(m, n)'
      BY <1>11 DEF Heeds
  <2>7. Story(n, m)
      BY <1>4 DEF Body
  <2>8. CASE Stage(n, m)
    <3>1. Talking(n, m) /\ Unasked(m, n)
        BY <1>4, <2>8 DEF Stage, Fresh, Knocking, Answering, Upgraded, Dialing
    <3>2. Talking(n, m)'
        BY <1>4, <2>2, <2>4, <2>5, <2>6, <3>1 DEF Talking
    <3> QED BY <2>6, <3>1, <3>2 DEF Stage, Story
  <2>9. CASE Stage(m, n)
    <3>1. Talking(m, n) /\ Unasked(n, m)
        BY <1>4, <2>9 DEF Stage, Fresh, Knocking, Answering, Upgraded, Dialing
    <3>2. Talking(m, n)'
        BY <1>4, <2>2, <2>4, <2>5, <2>6, <3>1 DEF Talking
    <3> QED BY <2>6, <3>1, <3>2 DEF Stage, Story
  <2>10. ~Crossed(n, m)
      BY <1>4 DEF Crossed, Dialing
  <2> QED BY <2>7, <2>8, <2>9, <2>10 DEF Story
<1>16. \A x, y \in Nodes : Story(x, y)'
  <2>1. UNCHANGED ping_check
      BY <1>2
  <2> QED BY <1>4, <1>11, <1>13, <1>15, <2>1, StoriesKept DEF Body
<1> QED BY <1>10, <1>16 DEF Body

(* The task reads what was routed to it: a frame of its peer's connection.  *)
LEMMA ConnReadsSafe ==
    ASSUME Inv, Body, NEW n \in Nodes, NEW k \in Handles, ConnReads(n, k)
    PROVE  Body'
<1> PICK m, v : m = conn[n][k].peer /\ v = Head(inbox[n][k])
    OBVIOUS
<1>1. /\ Typed /\ Routes /\ Well(conn[n][k]) /\ conn[n][k] \in Conns /\ ConnT /\ InboxT
      /\ conn \in [Nodes -> [Handles -> Conns]] /\ Local(n)
    BY WellFacts, ShapeFacts DEF Inv, Body
<1>2. /\ conn[n][k].at = "select" /\ Collects(n, k, v)
      /\ UNCHANGED <<ping_check, io, net, write_req, peerstore, new_peer, swarm, connections, mux>>
    BY DEF ConnReads, connOnly, Collects
<1>3. conn[n][k].at \in Live
    BY <1>2 DEF Live
<1>4. m \in Nodes /\ n # m /\ Stand(n, m) = "done" /\ peerstore[n][m] = k
    BY <1>1, <1>3, LiveFacts
<1>5. v \in Payloads
    BY <1>1, <1>2, InboxTakes DEF Collects
<1>6. ASSUME NEW x \in Nodes, NEW y \in Nodes
      PROVE  /\ \A i \in 1..4 : i # 1 => Same(x, y, i)
             /\ IF x = m /\ y = n THEN Gives(x, y, 1, v) ELSE Same(x, y, 1)
  <2>1. Same(x, y, 2) /\ Same(x, y, 3) /\ Same(x, y, 4)
      BY <1>2, SamePlace
  <2>2. UNCHANGED peerstore
      BY <1>2
  <2>3. IF x = m /\ y = n THEN Gives(x, y, 1, v) ELSE Same(x, y, 1)
      BY <1>1, <1>2, <1>4, <1>5, <2>2, InboxPlace
  <2>4. \A i \in 1..4 : i # 1 => i = 2 \/ i = 3 \/ i = 4
      OBVIOUS
  <2> QED BY <2>1, <2>3, <2>4
<1>7. ASSUME NEW x \in Nodes, NEW y \in Nodes, ~(x = m /\ y = n)
      PROVE  Flows(x, y)
  <2>1. \A i \in 1..4 : Same(x, y, i)
      BY <1>6, <1>7
  <2> QED BY <2>1, SameFlows
<1>8. \A R : Carries(m, n, R) => v \in R /\ Carries(m, n, R)'
  <2>1. 1 \in 1..2 /\ Gives(m, n, 1, v)
      BY <1>4, <1>6
  <2>2. \A i \in 1..4 : i # 1 => Same(m, n, i)
      BY <1>4, <1>6
  <2> QED BY <2>1, <2>2, GoneFacts
<1>9. Stand(n, m)' = Stand(n, m) /\ Stand(m, n)' = Stand(m, n)
    BY <1>2 DEF Stand
<1>10. \A x, y : Stays(x, y) /\ Heeds(x, y)
    BY <1>2, HeedsFacts DEF Stays, Stand
<1>11. v \in Chat /\ Story(n, m)'
  <2>1. Chat' = Chat
      BY <1>2 DEF Chat
  <2>2. ~Silent(m, n)
      BY <1>8 DEF Silent
  <2>3. Chats(m, n) => v \in Chat /\ Chats(m, n)'
      BY <1>8, <2>1 DEF Chats
  <2>4. Flows(n, m)
      BY <1>4, <1>7
  <2>5. Chats(n, m) => Chats(n, m)'
      BY <2>1, <2>4 DEF Flows, Chats
  <2>6. /\ Unasked(n, m) => Unasked(n, m)'
        /\ Unasked(m, n) => Unasked(m, n)'
      BY <1>10 DEF Heeds
  <2>7. Story(n, m)
      BY <1>4 DEF Body
  <2>8. CASE Stage(n, m)
    <3>1. Talking(n, m) /\ Unasked(m, n)
        BY <1>4, <2>8 DEF Stage, Fresh, Knocking, Answering, Upgraded, Dialing
    <3>2. Talking(n, m)' /\ v \in Chat
        BY <1>4, <1>9, <2>3, <2>5, <2>6, <3>1 DEF Talking
    <3> QED BY <2>6, <3>1, <3>2 DEF Stage, Story
  <2>9. CASE Stage(m, n)
    <3>1. Talking(m, n) /\ Unasked(n, m)
        BY <1>4, <2>9 DEF Stage, Fresh, Knocking, Answering, Upgraded, Dialing
    <3>2. Talking(m, n)' /\ v \in Chat
        BY <1>4, <1>9, <2>2, <2>3, <2>5, <2>6, <3>1 DEF Talking
    <3> QED BY <2>6, <3>1, <3>2 DEF Stage, Story
  <2>10. ~Crossed(n, m)
      BY <1>4 DEF Crossed, Dialing
  <2> QED BY <2>7, <2>8, <2>9, <2>10 DEF Story
<1>12. \A x, y \in Nodes : Story(x, y)'
  <2>1. UNCHANGED ping_check
      BY <1>2
  <2>2. \A x, y \in Nodes : ~(x = n /\ y = m) /\ ~(x = m /\ y = n) => Flows(x, y)
      BY <1>7
  <2> QED BY <1>4, <1>10, <1>11, <2>1, <2>2, StoriesKept DEF Body
<1> DEFINE label == IF v = "live" THEN "answer" ELSE "select"
           c == [conn[n][k] EXCEPT !.at = label]
<1>13. conn' = [conn EXCEPT ![n][k] = c]
  <2>1. v = "live" \/ v = "data"
      BY <1>11 DEF Chat
  <2> QED BY <1>1, <2>1 DEF ConnReads, Moves
<1>14. /\ c \in Conns /\ c.at = label /\ c.peer = conn[n][k].peer
       /\ c.check = conn[n][k].check
    BY <1>1 DEF Conns, ConnLabels
<1>15. v = "live" => ping_check
    BY <1>11 DEF Chat
<1>16. Well(c) /\ c.at \in Live
    BY <1>1, <1>3, <1>14, <1>15 DEF Well, Live
<1> HIDE DEF c, label
<1>17. ConnBecomes(n, k, c)
    BY <1>1, <1>13, <1>14, ConnSet
<1>18. \A x \in Nodes : Local(x)'
    BY <1>1, <1>2, <1>3, <1>14, <1>16, <1>17, BecomesAlone DEF Inv
<1> QED BY <1>12, <1>18 DEF Body

(* No task finds its queue closed, nor is told to close.                    *)
LEMMA ConnStepSafe ==
    ASSUME Inv, Body, NEW n \in Nodes, Up(n), NEW k \in Handles, ConnStep(n, k)
    PROVE  Body'
<1>1. Typed /\ Local(n) /\ Well(conn[n][k])
    BY WellFacts DEF Inv, Body
<1>2. CASE ConnCloses(n, k)
    BY <1>1, <1>2 DEF ConnCloses, Well, Live
<1>3. CASE ConnStarved(n, k)
  <2>1. conn[n][k].at \in Live
      BY <1>3 DEF ConnStarved, Live
  <2> QED BY <1>1, <1>3, <2>1, LiveFacts DEF ConnStarved, Starved
<1> QED BY <1>2, <1>3, ConnTakesSafe, ConnWritesSafe, ConnReadsSafe, ConnAnswersSafe DEF ConnStep

-----------------------------------------------------------------------------
(* The swarms: dial, register and accept. *)

(* A dial starts a story, or crosses one that the other node has started.   *)
LEMMA DialSafe ==
    ASSUME Inv, Body, NEW n \in Nodes, NEW m \in Nodes, NEW k \in Handles, Dial(n, m, k)
    PROVE  Body'
<1> DEFINE s == [at |-> "connectOut", conn |-> k, peer |-> m]
<1>1. Typed /\ TypeOK /\ SwarmT /\ Local(n) /\ None \notin Nodes
    BY ShapeFacts, Constants DEF Inv, Body
<1>2. /\ swarm[n].at = "loop" /\ connections[n][m] = None /\ swarm' = [swarm EXCEPT ![n] = s]
      /\ UNCHANGED <<ping_check, io, net, write_req, peerstore, new_peer, connections, conn, inbox>>
      /\ UNCHANGED mux
    BY DEF Dial, Calling
<1>3. n # m
    BY UdpAssumption DEF Dial, Calling
<1>4. SwarmBecomes(n, s)
  <2>1. s \in Swarms
      BY DEF Swarms, SwarmLabels
  <2> HIDE DEF s
  <2> QED BY <1>1, <1>2, <2>1, SwarmSet
<1>5. swarm[n].peer = None /\ peerstore[n][m] = None /\ peerstore[n][n] = None
    BY <1>1, <1>2 DEF Local, Whole, Settled, Stand
<1>6. swarm'[n].at = "connectOut" /\ swarm'[n].conn = k /\ swarm'[n].peer = m
    BY <1>4 DEF SwarmBecomes
<1>7. \A x \in Nodes : Local(x)'
  <2>1. ASSUME NEW x \in Nodes, x # n
        PROVE  Local(x)'
      BY <1>2, <1>4, <2>1, LocalElse DEF Body, SwarmBecomes
  <2>2. Settled(n)'
    <3> SUFFICES ASSUME NEW y \in Nodes
                 PROVE  /\ swarm'[n].peer = y =>
                             /\ connections[n][y] = None
                             /\ peerstore[n][y] = IF swarm'[n].at \in {"connectOut", "register"}
                                                  THEN None ELSE swarm'[n].conn
                        /\ swarm'[n].peer # y =>
                             /\ connections[n][y] = peerstore[n][y]
                             /\ peerstore[n][y] # None => conn[n][peerstore[n][y]].at \in Live
        BY <1>2 DEF Settled
    <3> QED BY <1>1, <1>2, <1>5, <1>6 DEF Local, Settled
  <2>3. Sole(n)' /\ \A j \in Handles : Fine(n, j)'
      BY <1>1, <1>2 DEF Local, Sole, Fine, Chat
  <2>4. Whole(n)'
      BY <1>2, <1>3, <1>5, <1>6 DEF Whole, Stand
  <2>5. Local(n)'
      BY <2>2, <2>3, <2>4 DEF Local
  <2> QED BY <2>1, <2>5
<1>8. \A x, y \in Nodes : ~(x = n /\ y = m) => Stand(x, y)' = Stand(x, y)
    BY <1>1, <1>2, <1>4, <1>5, <1>6 DEF Stand, SwarmBecomes
<1>9. Stand(n, m) = "none" /\ Stand(n, m)' = "connectOut"
    BY <1>1, <1>5, <1>6 DEF Stand
<1>10. \A x, y : Flows(x, y) /\ Heeds(x, y)
  <2> TAKE x, y
  <2>1. Same(x, y, 1) /\ Same(x, y, 2) /\ Same(x, y, 3) /\ Same(x, y, 4)
      BY <1>2, SamePlace DEF Inbox
  <2>2. \A i \in 1..4 : i = 1 \/ i = 2 \/ i = 3 \/ i = 4
      OBVIOUS
  <2>3. \A i \in 1..4 : Same(x, y, i)
      BY <2>1, <2>2
  <2> QED BY <1>2, <2>3, SameFlows, HeedsFacts
<1> HIDE DEF s
<1>11. Story(n, m)'
  <2>1. Stand(m, n)' = Stand(m, n)
      BY <1>3, <1>8
  <2>2. Story(n, m)
      BY DEF Body
  <2>3. /\ Silent(n, m) => Silent(n, m)'
        /\ Silent(m, n) => Silent(m, n)'
      BY <1>10 DEF Flows, Silent
  <2>4. /\ Unasked(n, m) => Unasked(n, m)'
        /\ Unasked(m, n) => Unasked(m, n)'
      BY <1>10 DEF Heeds
  <2>5. /\ Silent(n, m) => Carries(n, m, {"connect"})'
        /\ Silent(m, n) => Carries(m, n, {"connect"})'
        /\ First(m, n, "connect", {}) => Carries(m, n, {"connect"})'
    <3>1. {} \subseteq {"connect"} /\ "connect" \in {"connect"}
        OBVIOUS
    <3>2. /\ Silent(n, m) => Carries(n, m, {"connect"})
          /\ Silent(m, n) => Carries(m, n, {"connect"})
          /\ First(m, n, "connect", {}) => Carries(m, n, {"connect"})
        BY <1>1, <3>1, CarriesMore DEF Silent
    <3>3. /\ Carries(n, m, {"connect"}) => Carries(n, m, {"connect"})'
          /\ Carries(m, n, {"connect"}) => Carries(m, n, {"connect"})'
        BY <1>10 DEF Flows
    <3> QED BY <3>2, <3>3
  <2>6. CASE Stage(n, m)
    <3>1. Fresh(n, m) /\ Unasked(m, n)
        BY <1>9, <2>6 DEF Stage, Knocking, Answering, Upgraded, Talking, Dialing
    <3>2. Fresh(n, m)'
        BY <1>9, <2>1, <2>3, <2>4, <3>1 DEF Fresh
    <3> QED BY <2>4, <3>1, <3>2 DEF Stage, Story
  <2>7. CASE Stage(m, n)
    <3>1. Fresh(m, n) \/ Knocking(m, n)
        BY <1>9, <2>7 DEF Stage, Answering, Upgraded, Talking
    <3>2. CASE Fresh(m, n) /\ Stand(m, n) = "none"
      <4>1. Fresh(n, m)' /\ Unasked(m, n)'
          BY <1>9, <2>1, <2>3, <2>4, <2>7, <3>2 DEF Fresh, Stage
      <4> QED BY <4>1 DEF Stage, Story
    <3>3. CASE Fresh(m, n) /\ Stand(m, n) = "connectOut"
      <4>1. Crossed(n, m)'
          BY <1>9, <2>1, <2>5, <3>3 DEF Fresh, Crossed, Dialing
      <4> QED BY <4>1 DEF Story
    <3>4. CASE Knocking(m, n)
      <4>1. Crossed(n, m)'
          BY <1>9, <2>1, <2>5, <3>4 DEF Knocking, Crossed, Dialing
      <4> QED BY <4>1 DEF Story
    <3> QED BY <3>1, <3>2, <3>3, <3>4 DEF Fresh
  <2>8. ~Crossed(n, m)
      BY <1>9 DEF Crossed, Dialing
  <2> QED BY <2>2, <2>6, <2>7, <2>8 DEF Story
<1>12. \A x, y \in Nodes : Story(x, y)'
  <2>1. UNCHANGED ping_check
      BY <1>2
  <2>2. \A x, y \in Nodes : ~(x = n /\ y = m) => Stays(x, y)
      BY <1>8 DEF Stays
  <2> QED BY <1>10, <1>11, <2>1, <2>2, StoriesKept DEF Body
<1> QED BY <1>7, <1>12 DEF Body

(* A connection is registered, dialed or accepted: the node stays settled,  *)
(* and what is under way is what it was.                                    *)
LEMMA StartsLocal ==
    ASSUME Inv, Body, NEW n \in Nodes, NEW k \in Handles, NEW m \in Nodes, Starts(n, k, m),
           conn'[n][k].check = "off", peerstore[n][m] = None, connections[n][m] = None, n # m,
           swarm[n].peer \in {None, m}, NEW label \in {"ackIn", "ackOut"},
           SwarmBecomes(n, [at |-> label, conn |-> k, peer |-> m]),
           UNCHANGED <<ping_check, connections, inbox, mux>>
    PROVE  /\ \A x \in Nodes : Local(x)'
           /\ \A x, y \in Nodes : ~(x = n /\ y = m) => Stand(x, y)' = Stand(x, y)
           /\ Stand(n, m)' = label
           /\ \A x, y \in Nodes : Inbox(x, y)' = Inbox(x, y)
<1>1. /\ Typed /\ Local(n) /\ None \notin Nodes /\ None \notin Handles /\ peerstore \in Maps
      /\ \A j \in Handles : ConnOk(n, j)
    BY ShapeFacts, Constants DEF Inv, Body
<1>2. /\ conn[n][k].at = "none" /\ conn'[n][k].peer = m /\ conn'[n][k].at = "upgrade"
      /\ \A j \in Handles : j # k => conn'[n][j] = conn[n][j]
      /\ \A x \in Nodes : x # n => conn'[x] = conn[x]
      /\ peerstore'[n][m] = k
      /\ \A y \in Nodes : y # m => peerstore'[n][y] = peerstore[n][y]
      /\ \A x \in Nodes : x # n => peerstore'[x] = peerstore[x]
    BY DEF Starts, StoreBecomes
<1>3. /\ swarm'[n].at = label /\ swarm'[n].conn = k /\ swarm'[n].peer = m
      /\ \A x \in Nodes : x # n => swarm'[x] = swarm[x]
    BY DEF SwarmBecomes
<1>4. Settled(n)'
  <2> SUFFICES ASSUME NEW y \in Nodes
               PROVE  /\ m = y =>
                           /\ connections[n][y] = None
                           /\ peerstore'[n][y] = IF label \in {"connectOut", "register"}
                                                 THEN None ELSE k
                      /\ m # y =>
                           /\ connections[n][y] = peerstore'[n][y]
                           /\ peerstore'[n][y] # None => conn'[n][peerstore'[n][y]].at \in Live
      BY <1>3 DEF Settled
  <2>1. CASE y = m
      BY <1>2, <2>1
  <2>2. CASE y # m
    <3>1. swarm[n].peer # y /\ peerstore'[n][y] = peerstore[n][y]
        BY <1>1, <1>2, <2>2
    <3>2. /\ connections[n][y] = peerstore[n][y]
          /\ peerstore[n][y] # None => conn[n][peerstore[n][y]].at \in Live
        BY <1>1, <3>1 DEF Local, Settled
    <3>3. peerstore[n][y] # None => peerstore[n][y] \in Handles /\ peerstore[n][y] # k
        BY <1>1, <1>2, <3>2 DEF Live, Maps
    <3> QED BY <1>2, <2>2, <3>1, <3>2, <3>3
  <2> QED BY <2>1, <2>2
<1>5. Sole(n)'
  <2> SUFFICES ASSUME NEW j \in Handles, conn'[n][j].at # "none"
               PROVE  peerstore'[n][conn'[n][j].peer] = j
      BY DEF Sole
  <2>1. CASE j = k
      BY <1>2, <2>1
  <2>2. CASE j # k
    <3>1. conn'[n][j] = conn[n][j] /\ peerstore[n][conn[n][j].peer] = j
        BY <1>1, <1>2, <2>2 DEF Local, Sole
    <3>2. conn[n][j].peer \in Nodes /\ conn[n][j].peer # m
        BY <1>1, <3>1 DEF ConnOk
    <3> QED BY <1>2, <3>1, <3>2
  <2> QED BY <2>1, <2>2
<1>6. Whole(n)'
    BY <1>1, <1>2, <1>3 DEF Whole, Stand, Local
<1>7. ASSUME NEW j \in Handles
      PROVE  Fine(n, j)'
  <2>1. Fine(n, j)
      BY <1>1 DEF Local
  <2>2. CASE j = k
      BY <1>2, <2>1, <2>2 DEF Fine, Chat, Live
  <2>3. CASE j # k
      BY <1>2, <2>1, <2>3 DEF Fine, Chat
  <2> QED BY <2>2, <2>3
<1>8. ASSUME NEW x \in Nodes, x # n
      PROVE  Local(x)'
    BY <1>2, <1>3, <1>8, LocalElse DEF Body
<1>9. \A x \in Nodes : Local(x)'
    BY <1>4, <1>5, <1>6, <1>7, <1>8 DEF Local
<1>10. ASSUME NEW x \in Nodes, NEW y \in Nodes, ~(x = n /\ y = m)
       PROVE  Stand(x, y)' = Stand(x, y)
    BY <1>1, <1>2, <1>3, <1>10 DEF Stand
<1>11. Stand(n, m)' = label
    BY <1>3 DEF Stand
<1>12. ASSUME NEW x \in Nodes, NEW y \in Nodes
       PROVE  Inbox(x, y)' = Inbox(x, y)
  <2>1. CASE x = m /\ y = n
    <3>1. inbox[n][k] = <<>>
        BY <1>1, <1>2 DEF ConnOk
    <3> QED BY <1>1, <1>2, <2>1, <3>1 DEF Inbox
  <2>2. CASE ~(x = m /\ y = n)
      BY <1>2, <2>2 DEF Inbox
  <2> QED BY <2>1, <2>2
<1> QED BY <1>9, <1>10, <1>11, <1>12

(* The dialer registers its connection: nothing else can tell yet.          *)
LEMMA RegisterSafe ==
    ASSUME Inv, Body, NEW n \in Nodes, Register(n)
    PROVE  Body'
<1> PICK k, m, c : k = swarm[n].conn /\ m = swarm[n].peer /\ c = Called(m)
    OBVIOUS
<1> DEFINE s == [at |-> "ackIn", conn |-> k, peer |-> m]
<1>1. /\ Typed /\ SwarmT /\ ConnT /\ peerstore \in Maps /\ swarm[n] \in Swarms
      /\ SwarmOk(n) /\ Local(n)
    BY ShapeFacts DEF Inv, Body
<1>2. /\ UNCHANGED <<ping_check, io, net, write_req, new_peer, connections, inbox, mux>>
      /\ swarm[n].at = "register" /\ peerstore' = [peerstore EXCEPT ![n][m] = k]
      /\ swarm' = [swarm EXCEPT ![n] = [swarm[n] EXCEPT !.at = "ackIn"]]
      /\ conn' = [conn EXCEPT ![n][k] = c]
    BY <1>1 DEF Register, SwarmT, Called
<1>3. k \in Handles /\ m \in Nodes /\ conn[n][k].at = "none"
    BY <1>1, <1>2 DEF SwarmOk
<1>4. s \in Swarms /\ s = [swarm[n] EXCEPT !.at = "ackIn"]
    BY <1>1 DEF Swarms, SwarmLabels
<1>5. c \in Conns /\ c.peer = m /\ c.at = "upgrade" /\ c.check = "off"
    BY <1>3, FreshFacts DEF Called, NoConn
<1>6. n # m /\ connections[n][m] = None /\ peerstore[n][m] = None /\ Stand(n, m) = "register"
    BY <1>1, <1>2, UpgradeFacts DEF Upgrading
<1>7. SwarmBecomes(n, s) /\ ConnBecomes(n, k, c) /\ StoreBecomes(n, m, k)
  <2> HIDE DEF s
  <2> QED BY <1>1, <1>2, <1>3, <1>4, <1>5, SwarmSet, ConnSet, StoreSet
<1>8. Starts(n, k, m) /\ conn'[n][k].check = "off"
    BY <1>3, <1>5, <1>7 DEF Starts, ConnBecomes
<1>9. /\ \A x \in Nodes : Local(x)'
      /\ \A x, y \in Nodes : ~(x = n /\ y = m) => Stand(x, y)' = Stand(x, y)
      /\ Stand(n, m)' = "ackIn"
      /\ \A x, y \in Nodes : Inbox(x, y)' = Inbox(x, y)
  <2>1. swarm[n].peer \in {None, m} /\ "ackIn" \in {"ackIn", "ackOut"}
      OBVIOUS
  <2>2. UNCHANGED <<ping_check, connections, inbox, mux>>
      BY <1>2
  <2> QED BY <1>3, <1>6, <1>7, <1>8, <2>1, <2>2, StartsLocal
<1>10. \A x, y \in Nodes : Stays(x, y)
  <2> SUFFICES ASSUME NEW x \in Nodes, NEW y \in Nodes
               PROVE  Stays(x, y)
      OBVIOUS
  <2>1. CASE x = n /\ y = m
      BY <1>6, <1>9, <2>1 DEF Stays, Dialing
  <2>2. CASE ~(x = n /\ y = m)
      BY <1>9, <2>2 DEF Stays
  <2> QED BY <2>1, <2>2
<1>11. ASSUME NEW x \in Nodes, NEW y \in Nodes
       PROVE  Flows(x, y) /\ Heeds(x, y)
  <2>1. Same(x, y, 1) /\ Same(x, y, 2) /\ Same(x, y, 3) /\ Same(x, y, 4)
      BY <1>2, <1>9, SamePlace
  <2>2. \A i \in 1..4 : i = 1 \/ i = 2 \/ i = 3 \/ i = 4
      OBVIOUS
  <2>3. \A i \in 1..4 : Same(x, y, i)
      BY <2>1, <2>2
  <2> QED BY <1>2, <2>3, SameFlows, HeedsFacts
<1>12. \A x, y \in Nodes : Story(x, y)'
    BY <1>2, <1>10, <1>11, StoryKept DEF Body
<1> QED BY <1>9, <1>12 DEF Body

(* A node takes the first of those that wait to be accepted.                *)
LEMMA HeadFacts ==
    ASSUME NewT, NEW n \in Nodes, NEW m, new_peer[n] # <<>>, m = Head(new_peer[n]),
           new_peer' = [new_peer EXCEPT ![n] = Tail(@)]
    PROVE  /\ m \in Nodes /\ ~Unasked(m, n) /\ (Asks(m, n) => Unasked(m, n)')
           /\ \A x \in Nodes, y \in Nodes : ~(x = m /\ y = n) => Heeds(x, y)
<1> DEFINE q == new_peer[n]
           r == Tail(q)
           c == Len(q)
<1>1. new_peer \in [Nodes -> Seq(Nodes)] /\ q \in Seq(Nodes)
    BY DEF NewT
<1>2. c \in Nat \ {0} /\ m = q[1] /\ m \in Nodes
    BY <1>1, EmptySeq
<1>3. Len(r) = c - 1 /\ \A i \in 1..(c - 1) : r[i] = q[i + 1]
    BY <1>1, <1>2
<1>4. new_peer'[n] = r /\ \A y \in Nodes : y # n => new_peer'[y] = new_peer[y]
    BY <1>1
<1>5. /\ 1 \in 1..c
      /\ \A i \in 1..(c - 1) : i + 1 \in 1..c /\ i + 1 # 1
      /\ \A i \in 1..c : i # 1 => i - 1 \in 1..(c - 1) /\ (i - 1) + 1 = i
      /\ \A i, j \in 1..c : i - 1 = j - 1 => i = j
    BY <1>2
<1>6. ~Unasked(m, n)
    BY <1>2, <1>5 DEF Unasked
<1>7. ASSUME Asks(m, n)
      PROVE  Unasked(m, n)'
  <2>1. \A i \in 1..c : q[i] = m => i = 1
      BY <1>2, <1>5, <1>7 DEF Asks
  <2>2. \A i \in 1..(c - 1) : r[i] # m
      BY <1>3, <1>5, <2>1
  <2> QED BY <1>3, <1>4, <2>2 DEF Unasked
<1>8. ASSUME NEW x \in Nodes, x # m
      PROVE  Heeds(x, n)
  <2>1. ASSUME Unasked(x, n)
        PROVE  Unasked(x, n)'
    <3>1. \A i \in 1..c : q[i] # x
        BY <2>1 DEF Unasked
    <3>2. \A i \in 1..(c - 1) : r[i] # x
        BY <1>3, <1>5, <3>1
    <3> QED BY <1>3, <1>4, <3>2 DEF Unasked
  <2>2. ASSUME Asks(x, n)
        PROVE  Asks(x, n)'
    <3>1. PICK i \in 1..c : q[i] = x /\ \A j \in 1..c : q[j] = x => j = i
        BY <2>2 DEF Asks
    <3>2. i # 1
        BY <1>2, <1>8, <3>1
    <3>3. i - 1 \in 1..(c - 1) /\ r[i - 1] = x
        BY <1>3, <1>5, <3>1, <3>2
    <3>4. ASSUME NEW j \in 1..(c - 1), r[j] = x
          PROVE  j = i - 1
      <4>1. j + 1 = i
          BY <1>3, <1>5, <3>1, <3>4
      <4> QED BY <4>1
    <3> QED BY <1>3, <1>4, <3>3, <3>4 DEF Asks
  <2> QED BY <2>1, <2>2 DEF Heeds
<1> HIDE DEF q, r, c
<1>9. \A x \in Nodes, y \in Nodes : ~(x = m /\ y = n) => Heeds(x, y)
    BY <1>4, <1>8, HeedsFacts
<1> QED BY <1>2, <1>6, <1>7, <1>9

(* The listener accepts a peer whose Connect it has heard: the peer waits   *)
(* for the answer, and nothing is under way.                                *)
LEMMA AcceptSafe ==
    ASSUME Inv, Body, NEW n \in Nodes, NEW k \in Handles, Accept(n, k)
    PROVE  Body'
<1> PICK m, c : m = Head(new_peer[n]) /\ c = Heard(m)
    OBVIOUS
<1> DEFINE s == [at |-> "ackOut", conn |-> k, peer |-> m]
<1>1. Typed /\ SwarmT /\ ConnT /\ NewT /\ peerstore \in Maps /\ Local(n) /\ None \notin Nodes
    BY ShapeFacts, Constants DEF Inv, Body
<1>2. /\ UNCHANGED <<ping_check, io, net, write_req, connections, inbox, mux>>
      /\ swarm[n].at = "loop" /\ peerstore' = [peerstore EXCEPT ![n][m] = k]
      /\ conn[n][k].at = "none" /\ new_peer[n] # <<>>
      /\ new_peer' = [new_peer EXCEPT ![n] = Tail(@)]
      /\ swarm' = [swarm EXCEPT ![n] = s] /\ conn' = [conn EXCEPT ![n][k] = c]
    BY DEF Accept, Free, Heard
<1>3. /\ m \in Nodes /\ ~Unasked(m, n) /\ (Asks(m, n) => Unasked(m, n)')
      /\ \A x \in Nodes, y \in Nodes : ~(x = m /\ y = n) => Heeds(x, y)
    BY <1>1, <1>2, HeadFacts
<1>4. s \in Swarms
    BY <1>3 DEF Swarms, SwarmLabels
<1>5. c \in Conns /\ c.peer = m /\ c.at = "upgrade" /\ c.check = "off"
    BY <1>3, FreshFacts DEF Heard, NoConn
<1>6. SwarmBecomes(n, s) /\ ConnBecomes(n, k, c) /\ StoreBecomes(n, m, k)
  <2> HIDE DEF s
  <2> QED BY <1>1, <1>2, <1>3, <1>4, <1>5, SwarmSet, ConnSet, StoreSet
<1>7. Starts(n, k, m) /\ conn'[n][k].check = "off"
    BY <1>2, <1>5, <1>6 DEF Starts, ConnBecomes
<1>8. swarm[n].peer = None /\ Stand(n, m) \in {"none", "done"}
    BY <1>1, <1>2, <1>3 DEF Local, Whole, Stand
<1>9. Knocking(m, n) /\ Asks(m, n) /\ Unasked(n, m)
  <2>1. Story(m, n)
      BY <1>3 DEF Body
  <2>2. ~Stage(n, m)
      BY <1>3 DEF Stage
  <2>3. ~Crossed(m, n)
      BY <1>8 DEF Crossed, Dialing
  <2>4. Stage(m, n)
      BY <2>1, <2>2, <2>3 DEF Story
  <2>5. Knocking(m, n) /\ Unasked(n, m)
      BY <1>3, <2>4 DEF Stage, Fresh, Answering, Upgraded, Talking
  <2> QED BY <1>3, <2>5 DEF Knocking
<1>10. /\ Stand(m, n) \in Dialing /\ Stand(n, m) = "none" /\ Silent(n, m) /\ Silent(m, n)
    BY <1>3, <1>9 DEF Knocking
<1>11. n # m
    BY <1>10 DEF Dialing
<1>12. peerstore[n][m] = None /\ connections[n][m] = None
  <2>1. swarm[n].peer # m
      BY <1>1, <1>3, <1>8
  <2>2. peerstore[n][m] = None
      BY <1>10, <2>1 DEF Stand
  <2> QED BY <1>1, <1>3, <2>1, <2>2 DEF Local, Settled
<1>13. /\ \A x \in Nodes : Local(x)'
       /\ \A x, y \in Nodes : ~(x = n /\ y = m) => Stand(x, y)' = Stand(x, y)
       /\ Stand(n, m)' = "ackOut"
       /\ \A x, y \in Nodes : Inbox(x, y)' = Inbox(x, y)
  <2>1. swarm[n].peer \in {None, m} /\ "ackOut" \in {"ackIn", "ackOut"}
      BY <1>8
  <2>2. UNCHANGED <<ping_check, connections, inbox, mux>>
      BY <1>2
  <2> QED BY <1>3, <1>6, <1>7, <1>11, <1>12, <2>1, <2>2, StartsLocal
<1>14. ASSUME NEW x \in Nodes, NEW y \in Nodes
       PROVE  Flows(x, y)
  <2>1. Same(x, y, 1) /\ Same(x, y, 2) /\ Same(x, y, 3) /\ Same(x, y, 4)
      BY <1>2, <1>13, SamePlace
  <2>2. \A i \in 1..4 : i = 1 \/ i = 2 \/ i = 3 \/ i = 4
      OBVIOUS
  <2>3. \A i \in 1..4 : Same(x, y, i)
      BY <2>1, <2>2
  <2> QED BY <2>3, SameFlows
<1>15. Story(n, m)'
  <2>1. Silent(n, m)' /\ Silent(m, n)'
      BY <1>3, <1>10, <1>14 DEF Silent, Flows
  <2>2. Stand(m, n)' \in Dialing
      BY <1>3, <1>10, <1>11, <1>13
  <2>3. Unasked(m, n)' /\ Unasked(n, m)'
      BY <1>3, <1>9, <1>11 DEF Heeds
  <2>4. Answering(m, n)'
      BY <1>13, <2>1, <2>2, <2>3 DEF Answering
  <2> QED BY <2>3, <2>4 DEF Stage, Story
<1>16. \A x, y \in Nodes : Story(x, y)'
  <2>1. UNCHANGED ping_check
      BY <1>2
  <2>2. \A x, y \in Nodes : ~(x = n /\ y = m) => Stays(x, y)
      BY <1>13 DEF Stays
  <2> QED BY <1>3, <1>14, <1>15, <2>1, <2>2, StoriesKept DEF Body
<1> QED BY <1>13, <1>16 DEF Body

-----------------------------------------------------------------------------
(* The swarms: the upgrade. *)

(* The swarm goes on with the upgrade of its connection, or is through with *)
(* it: the node stays settled.                                              *)
LEMMA AdvanceLocal ==
    ASSUME Inv, Body, NEW n \in Nodes, swarm[n].at \in Upgrading \cup {"connectOut"}, Advance(n),
           NEW m, m = swarm[n].peer, UNCHANGED <<ping_check, peerstore, mux>>
    PROVE  /\ \A x \in Nodes : Local(x)'
           /\ \A x, y \in Nodes : ~(x = n /\ y = m) => Stand(x, y)' = Stand(x, y)
           /\ Stand(n, m)' = IF After[swarm[n].at] = "loop" THEN "done" ELSE After[swarm[n].at]
<1> PICK k, next : k = swarm[n].conn /\ next = After[swarm[n].at]
    OBVIOUS
<1>1. /\ Typed /\ SwarmT /\ ConnT /\ peerstore \in Maps /\ connections \in Maps
      /\ swarm[n] \in Swarms /\ SwarmOk(n) /\ Local(n) /\ None \notin Nodes /\ None \notin Handles
      /\ \A j \in Handles : conn[n][j] \in Conns
    BY ShapeFacts, Constants DEF Inv, Body
<1>2. /\ k \in Handles /\ m \in Nodes /\ n # m /\ connections[n][m] = None
      /\ swarm[n].at \in Upgrading => peerstore[n][m] = k /\ conn[n][k].peer = m
      /\ swarm[n].at \notin Upgrading => peerstore[n][m] = None
    BY <1>1, UpgradeFacts
<1>3. CASE next # "loop"
  <2> DEFINE s == [swarm[n] EXCEPT !.at = next]
  <2>1. UNCHANGED <<conn, connections>> /\ swarm' = [swarm EXCEPT ![n] = s]
      BY <1>1, <1>3 DEF Advance, SwarmT
  <2>2. /\ swarm[n].at = "connectOut" => next = "register"
        /\ swarm[n].at \in Upgrading => next \in Upgrading
        /\ next # "connectOut"
      BY <1>3 DEF After, Upgrading
  <2>3. s \in Swarms /\ s.at = next /\ s.conn = k /\ s.peer = m
      BY <1>1, <2>2 DEF Swarms, SwarmLabels, Upgrading
  <2> HIDE DEF s
  <2>4. SwarmBecomes(n, s)
      BY <1>1, <2>1, <2>3, SwarmSet
  <2>5. /\ swarm'[n].at = next /\ swarm'[n].conn = k /\ swarm'[n].peer = m
        /\ \A x \in Nodes : x # n => swarm'[x] = swarm[x]
      BY <2>3, <2>4 DEF SwarmBecomes
  <2>6. Settled(n)'
    <3>1. ASSUME NEW y \in Nodes
          PROVE  /\ m = y => /\ connections[n][y] = None
                             /\ peerstore[n][y] = IF next \in {"connectOut", "register"}
                                                  THEN None ELSE k
                 /\ m # y => /\ connections[n][y] = peerstore[n][y]
                             /\ peerstore[n][y] # None => conn[n][peerstore[n][y]].at \in Live
        BY <1>1, <1>2, <2>2 DEF Local, Settled, Upgrading
    <3> QED BY <2>1, <2>5, <3>1 DEF Settled
  <2>7. Sole(n)' /\ \A j \in Handles : Fine(n, j)'
      BY <1>1, <2>1 DEF Local, Sole, Fine, Chat
  <2>8. Whole(n)'
    <3>1. next # "dead" /\ next # "loop"
        BY <2>2 DEF Upgrading
    <3>2. swarm'[n].peer # n /\ peerstore[n][n] = None
        BY <1>1, <1>2, <2>5 DEF Local, Whole, Stand
    <3> QED BY <2>5, <3>1, <3>2 DEF Whole, Stand
  <2>9. \A x \in Nodes : x # n => Local(x)'
      BY <2>1, <2>5, LocalElse DEF Body
  <2>10. \A x \in Nodes : Local(x)'
      BY <2>6, <2>7, <2>8, <2>9 DEF Local
  <2>11. /\ \A x, y \in Nodes : ~(x = n /\ y = m) => Stand(x, y)' = Stand(x, y)
         /\ Stand(n, m)' = next
      BY <2>5 DEF Stand
  <2> QED BY <1>3, <2>10, <2>11
<1>4. CASE next = "loop"
  <2> DEFINE check == IF ping_check THEN "sleep" ELSE "off"
             c == [conn[n][k] EXCEPT !.at = "select", !.check = check]
  <2>1. swarm[n].at \in Upgrading /\ swarm[n].at \notin {"connectOut", "register"}
      BY <1>4 DEF After, Upgrading
  <2>2. peerstore[n][m] = k /\ conn[n][k].peer = m /\ conn[n][k].at = "upgrade"
      BY <1>1, <1>2, <2>1 DEF SwarmOk
  <2>3. SwarmBecomes(n, Looping)
    <3>1. Looping \in Swarms /\ swarm' = [swarm EXCEPT ![n] = Looping]
        BY <1>4 DEF Swarms, SwarmLabels, Looping, Advance
    <3> QED BY <1>1, <3>1, SwarmSet
  <2>4. /\ check \in CheckLabels /\ conn' = [conn EXCEPT ![n][k].at = "select", ![n][k].check = check]
        /\ check \in {"off", "sleep"} /\ (check = "off" <=> ~ping_check)
      BY <1>4 DEF CheckLabels, Advance
  <2> HIDE DEF check
  <2>5. c \in Conns /\ c.at = "select" /\ c.check = check /\ c.peer = m
      BY <1>1, <1>2, <2>2, <2>4 DEF Conns, ConnLabels
  <2>6. conn' = [conn EXCEPT ![n][k] = c]
      BY <1>1, <2>4 DEF ConnT
  <2> HIDE DEF c
  <2>7. ConnBecomes(n, k, c)
      BY <1>1, <1>2, <2>5, <2>6, ConnSet
  <2>8. /\ connections'[n][m] = k
        /\ \A y \in Nodes : y # m => connections'[n][y] = connections[n][y]
        /\ \A x \in Nodes : x # n => connections'[x] = connections[x]
    <3>1. connections' = [connections EXCEPT ![n][m] = k]
        BY <1>4 DEF Advance
    <3>2. connections \in [Nodes -> [Nodes -> Handles \cup {None}]]
        BY <1>1 DEF Maps
    <3> QED BY <1>2, <3>1, <3>2, PutFacts
  <2>9. /\ swarm'[n].at = "loop" /\ swarm'[n].peer = None
        /\ \A x \in Nodes : x # n => swarm'[x] = swarm[x]
      BY <2>3 DEF SwarmBecomes, Looping
  <2>10. /\ conn'[n][k].at = "select" /\ conn'[n][k].peer = m /\ conn'[n][k].check = check
         /\ \A j \in Handles : j # k => conn'[n][j] = conn[n][j]
         /\ \A x \in Nodes : x # n => conn'[x] = conn[x]
      BY <2>5, <2>7 DEF ConnBecomes
  <2>11. Settled(n)'
    <3> SUFFICES ASSUME NEW y \in Nodes
                 PROVE  /\ connections'[n][y] = peerstore[n][y]
                        /\ peerstore[n][y] # None => conn'[n][peerstore[n][y]].at \in Live
        BY <1>1, <2>9 DEF Settled
    <3>1. CASE y = m
        BY <2>2, <2>8, <2>10, <3>1 DEF Live
    <3>2. CASE y # m
      <4>1. /\ connections[n][y] = peerstore[n][y]
            /\ peerstore[n][y] # None => conn[n][peerstore[n][y]].at \in Live
          BY <1>1, <3>2 DEF Local, Settled
      <4>2. peerstore[n][y] # None => peerstore[n][y] \in Handles /\ peerstore[n][y] # k
          BY <1>1, <2>2, <4>1 DEF Live, Maps
      <4> QED BY <2>8, <2>10, <3>2, <4>1, <4>2
    <3> QED BY <3>1, <3>2
  <2>12. Sole(n)'
    <3> SUFFICES ASSUME NEW j \in Handles, conn'[n][j].at # "none"
                 PROVE  peerstore[n][conn'[n][j].peer] = j
        BY DEF Sole
    <3>1. j # k => peerstore[n][conn[n][j].peer] = j
        BY <1>1, <2>10 DEF Local, Sole
    <3> QED BY <2>2, <2>10, <3>1
  <2>13. Whole(n)'
    <3>1. peerstore[n][n] = None
        BY <1>1, <1>2 DEF Local, Whole, Stand
    <3> QED BY <1>1, <2>9, <3>1 DEF Whole, Stand
  <2>14. ASSUME NEW j \in Handles
         PROVE  Fine(n, j)'
    <3>1. Fine(n, j)
        BY <1>1 DEF Local
    <3>2. CASE j = k
        BY <2>4, <2>10, <3>1, <3>2 DEF Fine, Chat, Live
    <3>3. CASE j # k
        BY <2>10, <3>1, <3>3 DEF Fine, Chat
    <3> QED BY <3>2, <3>3
  <2>15. \A x \in Nodes : x # n => Local(x)'
      BY <2>8, <2>9, <2>10, LocalElse DEF Body
  <2>16. \A x \in Nodes : Local(x)'
      BY <2>11, <2>12, <2>13, <2>14, <2>15 DEF Local
  <2>17. ASSUME NEW x \in Nodes, NEW y \in Nodes, ~(x = n /\ y = m)
         PROVE  Stand(x, y)' = Stand(x, y)
      BY <1>1, <2>9, <2>17 DEF Stand
  <2>18. Stand(n, m)' = "done"
      BY <1>1, <1>2, <2>2, <2>9 DEF Stand
  <2> QED BY <1>4, <2>16, <2>17, <2>18
<1> QED BY <1>3, <1>4

(* The swarm sends what the upgrade asks for next.                          *)
LEMMA SwarmSendsSafe ==
    ASSUME Inv, Body, NEW n \in Nodes, Up(n), SwarmSends(n)
    PROVE  Body'
<1> PICK m, l, v : m = swarm[n].peer /\ l = swarm[n].at /\ v = Out[swarm[n].at]
    OBVIOUS
<1> DEFINE f == [to |-> m, packet |-> v, internal |-> FALSE]
<1>1. Typed /\ TypeOK /\ WriteT /\ Local(n)
    BY ShapeFacts DEF Inv, Body
<1>2. /\ UNCHANGED <<ping_check, io, net, peerstore, new_peer, inbox, mux>>
      /\ l \in {"connectOut", "ackOut", "helloOut", "welcomeOut"}
      /\ write_req' = [write_req EXCEPT ![n] = Append(@, f)] /\ Advance(n)
    BY DEF SwarmSends, Out, Writes
<1>3. /\ l = "connectOut" => v = "connect" /\ After[l] = "register"
      /\ l = "ackOut" => v = "ack" /\ After[l] = "helloIn"
      /\ l = "helloOut" => v = "hello" /\ After[l] = "welcomeIn"
      /\ l = "welcomeOut" => v = "welcome" /\ After[l] = "loop"
    BY DEF Out, After
<1>4. l \in Upgrading \cup {"connectOut"}
    BY <1>2 DEF Upgrading
<1>5. m \in Nodes /\ n # m /\ Stand(n, m) = l
    BY <1>1, <1>4, UpgradeFacts
<1>6. f \in Frames /\ f.to = m /\ f.packet = v
    BY <1>2, <1>3, <1>5 DEF Frames, Packets, Payloads
<1>7. /\ \A x \in Nodes : Local(x)'
      /\ \A x, y \in Nodes : ~(x = n /\ y = m) => Stand(x, y)' = Stand(x, y)
      /\ Stand(n, m)' = IF After[l] = "loop" THEN "done" ELSE After[l]
  <2>1. UNCHANGED <<ping_check, peerstore, mux>>
      BY <1>2
  <2> QED BY <1>2, <1>4, <2>1, AdvanceLocal
<1> HIDE DEF f
<1>8. ASSUME NEW x \in Nodes, NEW y \in Nodes
      PROVE  /\ Same(x, y, 1) /\ Same(x, y, 2) /\ Same(x, y, 3)
             /\ IF x = n /\ m = y THEN Adds(x, y, 4, v) ELSE Same(x, y, 4)
  <2>1. Same(x, y, 1) /\ Same(x, y, 2) /\ Same(x, y, 3)
      BY <1>2, SamePlace DEF Inbox
  <2>2. IF x = n /\ f.to = y THEN Adds(x, y, 4, f.packet) ELSE Same(x, y, 4)
      BY <1>1, <1>2, <1>6, WritePlace
  <2> QED BY <1>6, <2>1, <2>2
<1>9. \A i \in 1..4 : i = 1 \/ i = 2 \/ i = 3 \/ i = 4
    OBVIOUS
<1>10. ASSUME NEW x \in Nodes, NEW y \in Nodes, ~(x = n /\ y = m)
       PROVE  Flows(x, y)
  <2>1. \A i \in 1..4 : Same(x, y, i)
      BY <1>8, <1>9, <1>10
  <2> QED BY <2>1, SameFlows
<1>11. \A R : /\ Carries(n, m, R) /\ v \in R => Carries(n, m, R)'
              /\ Silent(n, m) => First(n, m, v, R)'
  <2>1. Adds(n, m, 4, v) /\ \A i \in 1..3 : Same(n, m, i)
    <3>1. \A i \in 1..3 : i = 1 \/ i = 2 \/ i = 3
        OBVIOUS
    <3> QED BY <1>5, <1>8, <3>1
  <2> QED BY <2>1, SentFacts DEF Silent
<1>12. \A x, y \in Nodes : Heeds(x, y)
    BY <1>2, HeedsFacts
<1>13. Story(n, m)'
  <2>1. Stand(m, n)' = Stand(m, n)
      BY <1>5, <1>7
  <2>2. /\ Unasked(n, m) => Unasked(n, m)'
        /\ Unasked(m, n) => Unasked(m, n)'
      BY <1>5, <1>12 DEF Heeds
  <2>3. \A R : /\ Carries(m, n, R) => Carries(m, n, R)'
               /\ \A p : First(m, n, p, R) => First(m, n, p, R)'
      BY <1>5, <1>10 DEF Flows
  <2>4. Silent(m, n) => Silent(m, n)'
      BY <2>3 DEF Silent
  <2>5. Story(n, m)
      BY <1>5 DEF Body
  <2>6. CASE l = "connectOut"
    <3>1. v = "connect" /\ Stand(n, m)' = "register"
        BY <1>3, <1>7, <2>6
    <3>2. ~Stage(m, n)
        BY <1>5, <2>6 DEF Stage, Fresh, Knocking, Answering, Upgraded, Talking, Dialing
    <3>3. CASE Stage(n, m)
      <4>1. Fresh(n, m) /\ Unasked(m, n)
          BY <1>5, <2>6, <3>3 DEF Stage, Knocking, Answering, Upgraded, Talking, Dialing
      <4>2. First(n, m, "connect", {})'
          BY <1>11, <3>1, <4>1 DEF Fresh
      <4>3. Knocking(n, m)'
          BY <2>1, <2>2, <2>4, <3>1, <4>1, <4>2 DEF Knocking, Fresh, Dialing
      <4> QED BY <2>2, <4>1, <4>3 DEF Stage, Story
    <3>4. CASE Crossed(n, m)
      <4>1. Carries(n, m, {"connect"})' /\ Carries(m, n, {"connect"})'
          BY <1>11, <2>3, <3>1, <3>4 DEF Crossed
      <4>2. Crossed(n, m)'
          BY <2>1, <3>1, <3>4, <4>1 DEF Crossed, Dialing
      <4> QED BY <4>2 DEF Story
    <3> QED BY <2>5, <3>2, <3>3, <3>4 DEF Story
  <2>7. CASE l # "connectOut"
    <3>1. ~Crossed(n, m)
        BY <1>2, <1>5, <2>7 DEF Crossed, Dialing
    <3>2. CASE l = "ackOut"
      <4>1. ~Stage(n, m)
          BY <1>5, <3>2 DEF Stage, Fresh, Knocking, Answering, Upgraded, Talking, Dialing
      <4>2. Answering(m, n) /\ Unasked(n, m)
          BY <1>5, <2>5, <3>1, <3>2, <4>1
             DEF Story, Stage, Fresh, Knocking, Answering, Upgraded, Talking, Dialing
      <4>3. Silent(n, m)
          BY <1>5, <3>2, <4>2 DEF Answering
      <4>4. First(n, m, "ack", {})' /\ Stand(n, m)' = "helloIn"
          BY <1>3, <1>7, <1>11, <3>2, <4>3
      <4>5. Answering(m, n)'
          BY <2>1, <2>2, <2>4, <4>2, <4>4 DEF Answering
      <4> QED BY <2>2, <4>2, <4>5 DEF Stage, Story
    <3>3. CASE l = "helloOut"
      <4>1. ~Stage(m, n)
          BY <1>5, <3>3 DEF Stage, Fresh, Knocking, Answering, Upgraded, Talking, Dialing
      <4>2. Upgraded(n, m) /\ Unasked(m, n)
          BY <1>5, <2>5, <3>1, <3>3, <4>1
             DEF Story, Stage, Fresh, Knocking, Answering, Upgraded, Talking, Dialing
      <4>3. Silent(n, m) /\ Stand(m, n) = "helloIn"
          BY <1>5, <3>3, <4>2 DEF Upgraded
      <4>4. First(n, m, "hello", {})' /\ Stand(n, m)' = "welcomeIn"
          BY <1>3, <1>7, <1>11, <3>3, <4>3
      <4>5. Upgraded(n, m)'
          BY <2>1, <2>2, <2>4, <4>2, <4>3, <4>4 DEF Upgraded
      <4> QED BY <2>2, <4>2, <4>5 DEF Stage, Story
    <3>4. CASE l = "welcomeOut"
      <4>1. ~Stage(n, m)
          BY <1>5, <3>4 DEF Stage, Fresh, Knocking, Answering, Upgraded, Talking, Dialing
      <4>2. Upgraded(m, n) /\ Unasked(n, m)
          BY <1>5, <2>5, <3>1, <3>4, <4>1
             DEF Story, Stage, Fresh, Knocking, Answering, Upgraded, Talking, Dialing
      <4>3. Silent(n, m) /\ Silent(m, n) /\ Stand(m, n) = "welcomeIn"
          BY <1>5, <3>4, <4>2 DEF Upgraded
      <4>4. Welcomed(n, m)' /\ Stand(n, m)' = "done"
        <5>1. \A R : First(n, m, "welcome", R)'
            BY <1>3, <1>11, <3>4, <4>3
        <5>2. Welcomed(n, m)'
            BY <5>1 DEF Welcomed
        <5> QED BY <1>3, <1>7, <3>4, <5>2
      <4>5. Talking(m, n)'
          BY <2>1, <2>2, <2>4, <4>2, <4>3, <4>4 DEF Talking, Upgraded
      <4> QED BY <2>2, <4>2, <4>5 DEF Stage, Story
    <3> QED BY <1>2, <2>7, <3>2, <3>3, <3>4
  <2> QED BY <2>6, <2>7
<1>14. \A x, y \in Nodes : Story(x, y)'
  <2>1. UNCHANGED ping_check
      BY <1>2
  <2>2. \A x, y \in Nodes : ~(x = n /\ y = m) => Stays(x, y)
      BY <1>7 DEF Stays
  <2> QED BY <1>5, <1>10, <1>12, <1>13, <2>1, <2>2, StoriesKept DEF Body
<1> QED BY <1>7, <1>14 DEF Body

(* The swarm hears what it waits for, and nothing else.                     *)
LEMMA SwarmReceivesSafe ==
    ASSUME Inv, Body, NEW n \in Nodes, SwarmReceives(n)
    PROVE  Body'
<1> PICK m, l, k, v : /\ m = swarm[n].peer /\ l = swarm[n].at /\ k = swarm[n].conn
                      /\ v = Head(inbox[n][k])
    OBVIOUS
<1>1. Typed /\ TypeOK /\ Routes /\ InboxT /\ Local(n)
    BY ShapeFacts DEF Inv, Body
<1>2. /\ UNCHANGED <<ping_check, io, net, write_req, peerstore, new_peer, mux>>
      /\ l \in {"ackIn", "helloIn", "welcomeIn"} /\ inbox[n][k] # <<>>
      /\ inbox' = [inbox EXCEPT ![n][k] = Tail(@)]
      /\ v = In[l] => Advance(n)
    BY DEF SwarmReceives, In
<1>3. /\ l = "ackIn" => In[l] = "ack" /\ After[l] = "helloOut"
      /\ l = "helloIn" => In[l] = "hello" /\ After[l] = "welcomeOut"
      /\ l = "welcomeIn" => In[l] = "welcome" /\ After[l] = "loop"
    BY DEF In, After
<1>4. l \in Upgrading
    BY <1>2 DEF Upgrading
<1>5. k \in Handles /\ m \in Nodes /\ n # m /\ Stand(n, m) = l /\ peerstore[n][m] = k
    BY <1>1, <1>4, UpgradeFacts
<1>6. v \in Payloads /\ Collects(n, k, v)
    BY <1>1, <1>2, <1>5, InboxTakes DEF Collects
<1>7. ASSUME NEW x \in Nodes, NEW y \in Nodes
      PROVE  /\ Same(x, y, 2) /\ Same(x, y, 3) /\ Same(x, y, 4)
             /\ IF x = m /\ y = n THEN Gives(x, y, 1, v) ELSE Same(x, y, 1)
  <2>1. Same(x, y, 2) /\ Same(x, y, 3) /\ Same(x, y, 4)
      BY <1>2, SamePlace
  <2>2. UNCHANGED peerstore
      BY <1>2
  <2>3. IF x = m /\ y = n THEN Gives(x, y, 1, v) ELSE Same(x, y, 1)
      BY <1>1, <1>5, <1>6, <2>2, InboxPlace
  <2> QED BY <2>1, <2>3
<1>8. \A i \in 1..4 : i = 1 \/ i = 2 \/ i = 3 \/ i = 4
    OBVIOUS
<1>9. ASSUME NEW x \in Nodes, NEW y \in Nodes, ~(x = m /\ y = n)
      PROVE  Flows(x, y)
  <2>1. \A i \in 1..4 : Same(x, y, i)
      BY <1>7, <1>8, <1>9
  <2> QED BY <2>1, SameFlows
<1>10. \A R : /\ Carries(m, n, R) => v \in R /\ Carries(m, n, R)'
              /\ \A p : First(m, n, p, R) => p = v /\ Carries(m, n, R)'
  <2>1. Gives(m, n, 1, v) /\ (\A i \in 1..4 : i # 1 => Same(m, n, i)) /\ 1 \in 1..2
      BY <1>5, <1>7, <1>8
  <2> QED BY <2>1, GoneFacts
<1>11. ~Silent(m, n)
    BY <1>10 DEF Silent
<1>12. ~Crossed(n, m)
  <2>1. "connect" \notin Payloads
      BY DEF Payloads
  <2>2. Crossed(n, m) => v = "connect"
      BY <1>10 DEF Crossed
  <2> QED BY <1>6, <2>1, <2>2
<1>13. Story(n, m)
    BY <1>5 DEF Body
<1>14. \A x, y \in Nodes : Heeds(x, y)
    BY <1>2, HeedsFacts
<1>15. /\ l = "ackIn" => Answering(n, m) /\ Unasked(m, n) /\ First(m, n, "ack", {})
                         /\ Stand(m, n) = "helloIn"
       /\ l = "helloIn" => Upgraded(m, n) /\ Unasked(n, m) /\ First(m, n, "hello", {})
                           /\ Stand(m, n) = "welcomeIn"
       /\ l = "welcomeIn" => Talking(n, m) /\ Unasked(m, n) /\ Welcomed(m, n) /\ Silent(n, m)
  <2>1. CASE l = "ackIn"
    <3>1. ~Stage(m, n)
        BY <1>5, <2>1 DEF Stage, Fresh, Knocking, Answering, Upgraded, Talking
    <3>2. Answering(n, m) /\ Unasked(m, n)
        BY <1>5, <1>11, <1>12, <1>13, <2>1, <3>1
           DEF Story, Stage, Fresh, Knocking, Upgraded, Talking
    <3> QED BY <1>11, <2>1, <3>2 DEF Answering
  <2>2. CASE l = "helloIn"
    <3>1. ~Stage(n, m)
        BY <1>5, <2>2 DEF Stage, Fresh, Knocking, Answering, Upgraded, Talking, Dialing
    <3>2. Upgraded(m, n) /\ Unasked(n, m)
        BY <1>5, <1>11, <1>12, <1>13, <2>2, <3>1
           DEF Story, Stage, Fresh, Knocking, Answering, Talking
    <3> QED BY <1>5, <1>11, <2>2, <3>2 DEF Upgraded
  <2>3. CASE l = "welcomeIn"
    <3>1. ~Stage(m, n)
        BY <1>5, <2>3 DEF Stage, Fresh, Knocking, Answering, Upgraded, Talking
    <3>2. Talking(n, m) /\ Unasked(m, n)
        BY <1>5, <1>11, <1>12, <1>13, <2>3, <3>1
           DEF Story, Stage, Fresh, Knocking, Answering, Upgraded, Dialing
    <3> QED BY <1>5, <2>3, <3>2 DEF Talking
  <2> QED BY <1>2, <2>1, <2>2, <2>3
<1>16. v = In[l]
  <2>1. l = "welcomeIn" => First(m, n, "welcome", Chat)
      BY <1>15 DEF Welcomed
  <2> QED BY <1>2, <1>3, <1>10, <1>15, <2>1
<1>17. /\ \A x \in Nodes : Local(x)'
       /\ \A x, y \in Nodes : ~(x = n /\ y = m) => Stand(x, y)' = Stand(x, y)
       /\ Stand(n, m)' = IF After[l] = "loop" THEN "done" ELSE After[l]
  <2>1. UNCHANGED <<ping_check, peerstore, mux>> /\ l \in Upgrading \cup {"connectOut"}
      BY <1>2, <1>4
  <2> QED BY <1>2, <1>16, <2>1, AdvanceLocal
<1>18. Story(n, m)'
  <2>1. Stand(m, n)' = Stand(m, n)
      BY <1>5, <1>17
  <2>2. /\ Unasked(n, m) => Unasked(n, m)'
        /\ Unasked(m, n) => Unasked(m, n)'
      BY <1>5, <1>14 DEF Heeds
  <2>3. \A R : Carries(n, m, R) => Carries(n, m, R)'
      BY <1>5, <1>9 DEF Flows
  <2>4. Silent(n, m) => Silent(n, m)'
      BY <2>3 DEF Silent
  <2>5. \A p : First(m, n, p, {}) => Silent(m, n)'
      BY <1>10 DEF Silent
  <2>6. CASE l = "ackIn"
    <3>1. Stand(n, m)' = "helloOut" /\ Silent(m, n)'
        BY <1>3, <1>15, <1>17, <2>5, <2>6
    <3>2. Upgraded(n, m)' /\ Unasked(m, n)'
        BY <1>15, <2>1, <2>2, <2>4, <2>6, <3>1 DEF Answering, Upgraded
    <3> QED BY <3>2 DEF Stage, Story
  <2>7. CASE l = "helloIn"
    <3>1. Stand(n, m)' = "welcomeOut" /\ Silent(m, n)'
        BY <1>3, <1>15, <1>17, <2>5, <2>7
    <3>2. Upgraded(m, n)' /\ Unasked(n, m)'
        BY <1>15, <2>1, <2>2, <2>4, <2>7, <3>1 DEF Upgraded
    <3> QED BY <3>2 DEF Stage, Story
  <2>8. CASE l = "welcomeIn"
    <3>1. Stand(n, m)' = "done" /\ Stand(m, n) = "done" /\ Unasked(n, m)
        BY <1>3, <1>15, <1>17, <2>8 DEF Talking
    <3>2. Chat' = Chat
        BY <1>2 DEF Chat
    <3>3. Chats(m, n)'
        BY <1>10, <1>15, <2>8, <3>2 DEF Welcomed, Chats
    <3>4. Carries(n, m, Chat)
        BY <1>1, <1>5, <1>15, <2>8, CarriesMore DEF Silent
    <3>5. Chats(n, m)'
        BY <2>3, <3>2, <3>4 DEF Chats
    <3>6. Talking(n, m)' /\ Unasked(m, n)'
        BY <1>15, <2>1, <2>2, <2>8, <3>1, <3>3, <3>5 DEF Talking
    <3> QED BY <3>6 DEF Stage, Story
  <2> QED BY <1>2, <2>6, <2>7, <2>8
<1>19. \A x, y \in Nodes : Story(x, y)'
  <2>1. UNCHANGED ping_check
      BY <1>2
  <2>2. \A x, y \in Nodes : ~(x = n /\ y = m) => Stays(x, y)
      BY <1>17 DEF Stays
  <2> QED BY <1>5, <1>9, <1>14, <1>18, <2>1, <2>2, StoriesKept DEF Body
<1> QED BY <1>17, <1>19 DEF Body

(* What it waits for comes: its queue is not closed.                        *)
LEMMA SwarmStepSafe ==
    ASSUME Inv, Body, NEW n \in Nodes, Up(n), SwarmStep(n)
    PROVE  Body'
<1>1. Typed /\ Local(n)
    BY DEF Inv, Body
<1>2. ~SwarmStarved(n)
  <2> SUFFICES ASSUME SwarmStarved(n)
               PROVE  FALSE
      OBVIOUS
  <2>1. swarm[n].at \in Upgrading
      BY DEF SwarmStarved, In, Upgrading
  <2>2. peerstore[n][conn[n][swarm[n].conn].peer] = swarm[n].conn
      BY <1>1, <2>1, UpgradeFacts
  <2> QED BY <2>2 DEF SwarmStarved, Starved
<1> QED BY <1>2, AcceptSafe, RegisterSafe, SwarmSendsSafe, SwarmReceivesSafe DEF SwarmStep

-----------------------------------------------------------------------------
(* The invariant of an undisturbed network. *)

(* At first nothing is under way, and nobody knows anybody.                 *)
LEMMA InitSafe == Init => Body
<1> SUFFICES ASSUME Init
             PROVE  Body
    OBVIOUS
<1>1. None \notin Nodes
    BY Constants
<1>2. \A n \in Nodes : /\ swarm[n].at = "loop" /\ swarm[n].peer = None /\ io[n].at = "idle"
                       /\ new_peer[n] = <<>> /\ write_req[n] = <<>>
                       /\ \A m \in Nodes : /\ net[n][m] = <<>> /\ connections[n][m] = None
                                           /\ peerstore[n][m] = None
    BY DEF Init, Looping, Idle
<1>3. \A n \in Nodes, k \in Handles : /\ conn[n][k].at = "none" /\ conn[n][k].check = "off"
                                      /\ mux[n][k] = <<>>
    BY DEF Init, NoConn
<1>4. Len(<<>>) = 0 /\ 1..0 = {}
    OBVIOUS
<1>5. ASSUME NEW x \in Nodes, NEW y \in Nodes
      PROVE  Stand(x, y) = "none" /\ Unasked(x, y) /\ Silent(x, y)
  <2>1. Stand(x, y) = "none"
      BY <1>1, <1>2 DEF Stand
  <2>2. Unasked(x, y)
      BY <1>2, <1>4 DEF Unasked
  <2>3. Inbox(x, y) = <<>>
      BY <1>2 DEF Inbox
  <2>4. At(x, y, 1, {}) /\ At(x, y, 2, {}) /\ At(x, y, 3, {}) /\ At(x, y, 4, {})
      BY <1>2, <1>4, <2>3 DEF At, Among, AmongTo
  <2>5. \A i \in 1..4 : i = 1 \/ i = 2 \/ i = 3 \/ i = 4
      OBVIOUS
  <2>6. Silent(x, y)
      BY <2>4, <2>5 DEF Silent, Carries
  <2> QED BY <2>1, <2>2, <2>6
<1>6. \A x, y \in Nodes : Story(x, y)
    BY <1>5 DEF Story, Stage, Fresh
<1>7. ASSUME NEW n \in Nodes
      PROVE  Local(n)
  <2>1. Settled(n)
      BY <1>1, <1>2 DEF Settled
  <2>2. Sole(n)
      BY <1>3 DEF Sole
  <2>3. Whole(n)
      BY <1>2, <1>5 DEF Whole
  <2>4. \A k \in Handles : Fine(n, k)
      BY <1>3, <1>4 DEF Fine, Live
  <2> QED BY <2>1, <2>2, <2>3, <2>4 DEF Local
<1> QED BY <1>6, <1>7 DEF Body

(* A disturbance is remembered, and an I/O task that is gone stays so.      *)
LEMMA CalmBefore ==
    ASSUME Inv, [Next]_vars, Calm'
    PROVE  Calm
<1>1. io \in [Nodes -> Ios]
    BY ShapeFacts, TypeParts DEF Inv, Typed, IoT
<1> USE DEF Calm, Up
<1>2. ASSUME NEW n \in Nodes, IoStep(n)
      PROVE  Calm
  <2>1. io[n].at # "dead" /\ disturbed \subseteq disturbed'
      BY <1>2 DEF IoStep, Receive, Notify, Route, RoutePanic, Flush
  <2>2. \A x \in Nodes : x # n => io'[x] = io[x]
      BY <1>1, <1>2 DEF IoStep, Receive, Notify, Route, RoutePanic, Flush
  <2> QED BY <2>1, <2>2
<1>3. ASSUME NEW n \in Nodes, SwarmStep(n)
      PROVE  Calm
    BY <1>3 DEF SwarmStep, Accept, Register, SwarmSends, SwarmReceives, SwarmStarved
<1>4. ASSUME NEW n \in Nodes, NEW m \in Nodes, Lose(n, m) \/ Disconnect(n, m)
      PROVE  Calm
    BY <1>4 DEF Lose, Disconnect
<1>5. ASSUME NEW n \in Nodes, NEW m \in Nodes, NEW k \in Handles, Dial(n, m, k)
      PROVE  Calm
    BY <1>5 DEF Dial
<1>6. ASSUME NEW n \in Nodes, NEW k \in Handles, ConnStep(n, k)
      PROVE  Calm
    BY <1>6 DEF ConnStep, ConnTakes, ConnWrites, ConnCloses, ConnReads, ConnAnswers, ConnStarved,
                connOnly
<1>7. ASSUME NEW n \in Nodes, NEW k \in Handles, CheckStep(n, k)
      PROVE  Calm
    BY <1>7 DEF CheckStep, Wakes, CheckSends, CheckHears, TimesOut, CheckReports, CheckFails,
                checkOnly
<1>8. ASSUME NEW n \in Nodes, NEW k \in Handles, StreamWrites(n, k)
      PROVE  Calm
    BY <1>8 DEF StreamWrites
<1>9. CASE UNCHANGED vars
    BY <1>9 DEF vars
<1> QED BY <1>2, <1>3, <1>4, <1>5, <1>6, <1>7, <1>8, <1>9 DEF Next

(* An I/O task that does not end there takes, routes or flushes.            *)
LEMMA IoStepSafe ==
    ASSUME Inv, Body, Calm', NEW n \in Nodes, IoStep(n)
    PROVE  Body'
<1>1. ~RoutePanic(n)
  <2> SUFFICES ASSUME RoutePanic(n)
               PROVE  FALSE
      OBVIOUS
  <2>1. io \in [Nodes -> Ios]
      BY ShapeFacts, TypeParts DEF Inv, Typed, IoT
  <2>2. io'[n].at = "dead"
      BY <2>1 DEF RoutePanic, Ios
  <2> QED BY <2>2 DEF Calm, Up
<1>2. disturbed' = {}
    BY DEF Calm
<1> QED BY <1>1, <1>2, ReceiveSafe, NotifySafe, RouteSafe, FlushSafe DEF IoStep

(* So every step keeps it.                                                  *)
LEMMA NextSafe == Inv /\ Safe /\ [Next]_vars => Safe'
<1> SUFFICES ASSUME Inv, Safe, [Next]_vars, Calm'
             PROVE  Body'
    BY DEF Safe
<1>1. Calm /\ Body
    BY CalmBefore DEF Safe
<1>2. disturbed' = {} /\ \A n \in Nodes : Up(n)
    BY <1>1 DEF Calm
<1>3. CASE UNCHANGED vars
  <2>1. UNCHANGED <<ping_check, io, net, write_req, peerstore, new_peer, swarm, connections, conn,
                    inbox, mux>>
      BY <1>3 DEF vars
  <2>2. \A n \in Nodes : Local(n)'
      BY <1>1, <2>1, LocalElse DEF Body
  <2>3. \A x, y \in Nodes : Story(x, y)'
      BY <1>1, <2>1, StillStories
  <2> QED BY <2>2, <2>3 DEF Body
<1>4. ASSUME NEW n \in Nodes, NEW m \in Nodes, Lose(n, m) \/ Disconnect(n, m)
      PROVE  FALSE
    BY <1>2, <1>4 DEF Lose, Disconnect
<1>5. ASSUME NEW n \in Nodes, NEW k \in Handles, ConnStep(n, k) \/ CheckStep(n, k) \/ StreamWrites(n, k)
      PROVE  Body'
    BY <1>1, <1>2, <1>5, ConnStepSafe, CheckSafe, StreamWritesSafe
<1>6. ASSUME NEW n \in Nodes, IoStep(n) \/ SwarmStep(n)
      PROVE  Body'
    BY <1>1, <1>2, <1>6, IoStepSafe, SwarmStepSafe
<1>7. ASSUME NEW n \in Nodes, NEW m \in Nodes, NEW k \in Handles, Dial(n, m, k)
      PROVE  Body'
    BY <1>1, <1>7, DialSafe
<1> QED BY <1>3, <1>4, <1>5, <1>6, <1>7 DEF Next

(* As long as nothing is lost, times out or is disconnected, and no I/O     *)
(* task is gone, no swarm and no connection panics (conn_handler of the     *)
(* swarm and of the muxer): UndisturbedSurvive, with any number of nodes    *)
(* that dial each other in any order.                                       *)
THEOREM NothingPanicsUndisturbed == Spec => []UndisturbedSurvive
<1>1. Init => Safe
    BY InitSafe DEF Safe
<1>2. Safe => UndisturbedSurvive
  <2> SUFFICES ASSUME Body, NEW n \in Nodes
               PROVE  /\ swarm[n].at # "dead"
                      /\ \A k \in Handles : conn[n][k].at # "panicked"
      BY DEF Safe, Calm, UndisturbedSurvive
  <2> QED BY DEF Body, Local, Whole, Fine, Live
<1> QED BY <1>1, <1>2, NextSafe, Invariance, PTL DEF Spec
=============================================================================
