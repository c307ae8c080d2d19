--------------------------- MODULE FloodsubTypes ----------------------------
(***************************************************************************)
(* The typing theorem of Floodsub, for any number of peers, streams,       *)
(* topics and messages and any capacity of the channels, lemma by action.  *)
(***************************************************************************)
EXTENDS Floodsub, TLAPS

(* What the locals of a task are made of. *)
LEMMA LocalParts ==
    ASSUME TasksOK, NEW k \in Tasks
    PROVE  /\ local[k].msg \in Messages
           /\ local[k].topics \in SUBSET Topics
           /\ local[k].targets \in SUBSET (Peers \cup Streams)
           /\ local[k].dest \in Streams \cup {NoStream}
  BY DEF TasksOK, Locals

(* Queueing a frame for the internal task keeps the type of the queue. *)
LEMMA SharedAppend ==
    ASSUME SharedOK, NEW f \in Frames, UNCHANGED <<last_seen_cache, chan>>,
           floodsub_mpsc' = floodsub_mpsc \/ floodsub_mpsc' = Append(floodsub_mpsc, f)
    PROVE  SharedOK'
  <1>1. Append(floodsub_mpsc, f) \in Seq(Frames)
    BY DEF SharedOK
  <1>2. floodsub_mpsc' \in Seq(Frames)
    BY <1>1 DEF SharedOK
  <1> QED
    BY <1>2 DEF SharedOK

(* The locals keep their type under the updates of the model. *)
LEMMA LocalTopics ==
    ASSUME TasksOK, NEW k \in Tasks, NEW T \in SUBSET Topics
    PROVE  /\ [local EXCEPT ![k].topics = T] \in [Tasks -> Locals]
           /\ [local EXCEPT ![k] = [Empty EXCEPT !.topics = T]] \in [Tasks -> Locals]
  <1>1. Empty \in Locals
    BY DEF Empty, Locals, Messages
  <1>2. local[k] \in Locals
    BY DEF TasksOK
  <1> QED
    BY <1>1, <1>2 DEF TasksOK, Locals, Empty

LEMMA LocalMsg ==
    ASSUME TasksOK, NEW k \in Tasks, NEW m \in Messages
    PROVE  [local EXCEPT ![k].msg = m] \in [Tasks -> Locals]
  <1>1. local[k] \in Locals
    BY DEF TasksOK
  <1> QED
    BY <1>1 DEF TasksOK, Locals

LEMMA LocalTargets ==
    ASSUME TasksOK, NEW k \in Tasks, NEW A \in SUBSET (Peers \cup Streams)
    PROVE  [local EXCEPT ![k].targets = A] \in [Tasks -> Locals]
  <1>1. local[k] \in Locals
    BY DEF TasksOK
  <1> QED
    BY <1>1 DEF TasksOK, Locals

LEMMA LocalDest ==
    ASSUME TasksOK, NEW k \in Tasks,
           NEW A \in SUBSET (Peers \cup Streams), NEW d \in Streams \cup {NoStream}
    PROVE  [local EXCEPT ![k].targets = A, ![k].dest = d] \in [Tasks -> Locals]
  <1>1. local[k] \in Locals
    BY DEF TasksOK
  <1> QED
    BY <1>1 DEF TasksOK, Locals

LEMMA LocalReset ==
    ASSUME TasksOK, NEW k \in Tasks
    PROVE  [local EXCEPT ![k] = Empty] \in [Tasks -> Locals]
  <1>1. Empty \in Locals
    BY DEF Empty, Locals, Messages
  <1> QED
    BY <1>1 DEF TasksOK

(* A counter per pair stays a number when one of them is incremented. *)
LEMMA CountUp ==
    ASSUME NEW S, NEW T, NEW f \in [S -> [T -> Nat]], NEW a, NEW b
    PROVE  [f EXCEPT ![a][b] = @ + 1] \in [S -> [T -> Nat]]
  <1> DEFINE g == [f EXCEPT ![a][b] = @ + 1]
  <1>1. CASE a \in S
    <2>1. f[a] \in [T -> Nat]
      BY <1>1
    <2>2. [f[a] EXCEPT ![b] = @ + 1] \in [T -> Nat]
      <3>1. CASE b \in T
        <4>1. f[a][b] + 1 \in Nat
          BY <2>1, <3>1
        <4> QED
          BY <2>1, <4>1
      <3>2. CASE b \notin T
        BY <2>1, <3>2
      <3> QED
        BY <3>1, <3>2
    <2>3. g = [f EXCEPT ![a] = [f[a] EXCEPT ![b] = @ + 1]]
      OBVIOUS
    <2> QED
      BY <2>2, <2>3
  <1>2. CASE a \notin S
    BY <1>2
  <1> QED
    BY <1>1, <1>2

(* The ways a task moves on. *)
LEMMA GotoOK ==
    ASSUME TasksOK, NEW k \in Tasks, NEW l \in Labels, Goto(k, l)
    PROVE  pc' \in [Tasks -> Labels]
  BY DEF TasksOK, Goto

LEMMA ReturnOK ==
    ASSUME TasksOK, NEW k \in Tasks, Return(k)
    PROVE  TasksOK'
  <1>1. local' \in [Tasks -> Locals]
    BY LocalReset DEF Return
  <1> QED
    BY <1>1 DEF TasksOK, Return, Labels

LEMMA PanicOK ==
    ASSUME TasksOK, NEW k \in Tasks, Panic(k)
    PROVE  TasksOK'
  <1>1. local' \in [Tasks -> Locals]
    BY LocalReset DEF Panic
  <1> QED
    BY <1>1 DEF TasksOK, Panic, Goto, Labels

(* Initially every variable has its type. *)
LEMMA InitOK == Init => TypeOK
  <1> SUFFICES ASSUME Init PROVE TypeOK
    OBVIOUS
  <1>1. Empty \in Locals
    BY DEF Empty, Locals, Messages
  <1>2. ChanCap \in Nat /\ MaxRpcs \in Nat /\ MaxApiOps \in Nat
    BY FloodsubAssumption
  <1>3. StoreOK
    BY DEF Init, StoreOK
  <1>7. BoundsOK
    BY <1>2 DEF Init, BoundsOK
  <1>4. SharedOK
    BY <1>2 DEF Init, SharedOK
  <1>5. HistoryOK
    BY DEF Init, HistoryOK
  <1>6. TasksOK
    BY <1>1 DEF Init, TasksOK, Labels
  <1> QED
    BY <1>3, <1>4, <1>5, <1>6, <1>7 DEF TypeOK

(* publish and write_msg, by a handler or by the internal task. *)
LEMMA RouteOK ==
    ASSUME TypeOK, NEW k \in Streams \cup {Int}, Route(k)
    PROVE  TypeOK'
  <1>0. k \in Tasks /\ TasksOK /\ local[k].msg \in Messages /\ local[k].dest \in Streams \cup {NoStream}
        /\ local[k].topics \in SUBSET Topics
    BY LocalParts DEF Tasks, TypeOK
  <1>1. StoreOK' /\ SharedOK' /\ BoundsOK' /\ HistoryOK'
    BY DEF Route, storeVars, bounds, history, TypeOK, StoreOK, SharedOK, BoundsOK, HistoryOK
  <1>2. CASE Return(k)
    BY <1>0, <1>1, <1>2, ReturnOK DEF TypeOK
  <1>3. ASSUME Goto(k, "lookup"),
               local' = [local EXCEPT ![k].targets = GetPeersToSend(local[k].msg, Forwarder(k))]
        PROVE  TypeOK'
    <2>1. \A t \in local[k].msg.topics : t \in Topics
      BY <1>0, FloodsubAssumption DEF Messages, OwnMsg, NoMsg
    <2>2. GetPeersToSend(local[k].msg, Forwarder(k)) \in SUBSET (Peers \cup Streams)
      BY <2>1 DEF GetPeersToSend, TypeOK, StoreOK
    <2>3. local' \in [Tasks -> Locals]
      BY <1>0, <1>3, <2>2, LocalTargets
    <2>4. pc' \in [Tasks -> Labels]
      BY <1>0, <1>3, GotoOK DEF Labels
    <2> QED
      BY <1>1, <2>3, <2>4 DEF TypeOK, TasksOK
  <1> QED
    BY <1>2, <1>3 DEF Route

LEMMA LookupOK ==
    ASSUME TypeOK, NEW k \in Streams \cup {Int}, NEW p \in Peers, Lookup(k, p)
    PROVE  TypeOK'
  <1>0. k \in Tasks /\ TasksOK /\ local[k].msg \in Messages
        /\ local[k].topics \in SUBSET Topics /\ local[k].targets \in SUBSET (Peers \cup Streams)
    BY LocalParts DEF Tasks, TypeOK
  <1>1. StoreOK' /\ SharedOK' /\ BoundsOK' /\ HistoryOK'
    BY DEF Lookup, storeVars, bounds, history, TypeOK, StoreOK, SharedOK, BoundsOK, HistoryOK
  <1>2. CASE Panic(k)
    BY <1>0, <1>1, <1>2, PanicOK DEF TypeOK
  <1>3. ASSUME Goto(k, "send"),
               local' = [local EXCEPT ![k].targets = @ \ {p}, ![k].dest = peers[p]]
        PROVE  TypeOK'
    <2>1. local[k].targets \ {p} \in SUBSET (Peers \cup Streams)
      BY <1>0
    <2>2. peers[p] \in Streams \cup {NoStream}
      BY DEF TypeOK, StoreOK
    <2>3. local' = [local EXCEPT ![k].targets = local[k].targets \ {p}, ![k].dest = peers[p]]
      BY <1>3
    <2>4. local' \in [Tasks -> Locals]
      BY <1>0, <2>1, <2>2, <2>3, LocalDest
    <2>5. pc' \in [Tasks -> Labels]
      BY <1>0, <1>3, GotoOK DEF Labels
    <2> QED
      BY <1>1, <2>4, <2>5 DEF TypeOK, TasksOK
  <1> QED
    BY <1>2, <1>3 DEF Lookup

LEMMA SendOK ==
    ASSUME TypeOK, NEW k \in Streams \cup {Int}, Send(k)
    PROVE  TypeOK'
  <1>0. k \in Tasks /\ ChanCap \in Nat
        /\ StoreOK /\ SharedOK /\ TasksOK /\ BoundsOK /\ HistoryOK
    BY FloodsubAssumption DEF Tasks, TypeOK
  <1>1. StoreOK' /\ BoundsOK'
    BY <1>0 DEF Send, storeVars, bounds, StoreOK, BoundsOK
  <1>2. SharedOK'
    <2>1. CASE UNCHANGED chan
      BY <1>0, <2>1 DEF Send, SharedOK
    <2>2. CASE HasRoom(local[k].dest) /\ chan' = [chan EXCEPT ![local[k].dest] = @ + 1]
      <3>1. CASE local[k].dest \in Streams
        <4>1. chan[local[k].dest] + 1 \in 0..ChanCap
          BY <1>0, <2>2, <3>1 DEF SharedOK, HasRoom
        <4> QED
          BY <1>0, <2>2, <4>1 DEF Send, SharedOK
      <3>2. CASE local[k].dest \notin Streams
        <4>1. chan' = chan
          BY <1>0, <2>2, <3>2 DEF SharedOK
        <4> QED
          BY <1>0, <4>1 DEF Send, SharedOK
      <3> QED
        BY <3>1, <3>2
    <2> QED
      BY <2>1, <2>2 DEF Send
  <1>3. HistoryOK'
    <2>1. copies' \in [Inbound -> [Peers -> Nat]]
      <3>1. copies \in [Inbound -> [Peers -> Nat]]
        BY <1>0 DEF HistoryOK
      <3>2. \A a, b : [copies EXCEPT ![a][b] = @ + 1] \in [Inbound -> [Peers -> Nat]]
        BY <3>1, CountUp
      <3>3. copies' = copies \/
            copies' = [copies EXCEPT ![local[k].msg][PeerOf[local[k].dest]] = @ + 1]
        BY DEF Send
      <3> QED
        BY <3>1, <3>2, <3>3
    <2> QED
      BY <1>0, <2>1 DEF Send, HistoryOK
  <1>4. TasksOK'
    <2>1. CASE Panic(k)
      BY <1>0, <2>1, PanicOK
    <2>2. CASE Return(k)
      BY <1>0, <2>2, ReturnOK
    <2>3. CASE Goto(k, "lookup") /\ UNCHANGED local
      BY <1>0, <2>3, GotoOK DEF TasksOK, Labels
    <2> QED
      BY <2>1, <2>2, <2>3 DEF Send
  <1> QED
    BY <1>1, <1>2, <1>3, <1>4 DEF TypeOK

(* Every step of a handler keeps the types. *)
LEMMA HandlerStepOK ==
    ASSUME TypeOK, NEW s \in Streams, HandlerStep(s)
    PROVE  TypeOK'
  <1>0. /\ s \in Tasks /\ ChanCap \in Nat /\ PeerOf \in [Streams -> Peers]
        /\ StoreOK /\ SharedOK /\ TasksOK /\ BoundsOK /\ HistoryOK
    BY FloodsubAssumption DEF Tasks, TypeOK
  <1>L. /\ local[s].msg \in Messages
        /\ local[s].topics \in SUBSET Topics
        /\ local[s].targets \in SUBSET (Peers \cup Streams)
        /\ local[s].dest \in Streams \cup {NoStream}
    BY <1>0, LocalParts
  <1> USE DEF storeVars, history, bounds
  <1>1. CASE ReadHello(s)
    <2>1. StoreOK' /\ SharedOK' /\ BoundsOK' /\ HistoryOK'
      BY <1>0, <1>1 DEF ReadHello, StoreOK, SharedOK, BoundsOK, HistoryOK
    <2>2. subscribed_topic_api \in SUBSET Topics
      BY <1>0 DEF StoreOK
    <2>3. local' \in [Tasks -> Locals]
      BY <1>0, <1>L, <1>1, <2>2, LocalTopics DEF ReadHello
    <2>4. pc' \in [Tasks -> Labels]
      BY <1>0, <1>1, GotoOK DEF ReadHello, Labels
    <2> QED
      BY <2>1, <2>3, <2>4 DEF TypeOK, TasksOK
  <1>2. CASE SendHello(s)
    <2>1. StoreOK' /\ BoundsOK'
      BY <1>0, <1>2 DEF SendHello, StoreOK, BoundsOK
    <2>2. SharedOK'
      BY <1>0, <1>2 DEF SendHello, SharedOK, HasRoom
    <2>3. HistoryOK'
      BY <1>0, <1>L, <1>2 DEF SendHello, HistoryOK
    <2>4. TasksOK'
      BY <1>0, <1>2, ReturnOK DEF SendHello
    <2> QED
      BY <2>1, <2>2, <2>3, <2>4 DEF TypeOK
  <1>3. CASE Drain(s)
    <2>1. StoreOK' /\ BoundsOK' /\ TasksOK' /\ HistoryOK'
      BY <1>0, <1>3 DEF Drain, StoreOK, BoundsOK, TasksOK, HistoryOK
    <2>2. SharedOK'
      BY <1>0, <1>3 DEF Drain, SharedOK
    <2> QED
      BY <2>1, <2>2 DEF TypeOK
  <1>4. CASE Consume(s)
    <2>1. StoreOK' /\ SharedOK' /\ BoundsOK' /\ HistoryOK'
      BY <1>0, <1>4 DEF Consume, StoreOK, SharedOK, BoundsOK, HistoryOK
    <2>2. CASE Goto(s, "seen") /\ local' = [local EXCEPT ![s].topics =
                                    local[s].msg.topics \cap subscribed_topic_api]
      <3>1. local[s].msg.topics \cap subscribed_topic_api \in SUBSET Topics
        BY <1>0 DEF StoreOK
      <3>2. local' \in [Tasks -> Locals]
        BY <1>0, <1>L, <2>2, <3>1, LocalTopics
      <3>3. pc' \in [Tasks -> Labels]
        BY <1>0, <2>2, GotoOK DEF Labels
      <3> QED
        BY <2>1, <3>2, <3>3 DEF TypeOK, TasksOK
    <2> QED
      BY <1>0, <1>4, <2>1, <2>2, PanicOK, ReturnOK DEF Consume, TypeOK
  <1>5. CASE CheckSeen(s)
    <2>1. StoreOK' /\ BoundsOK'
      BY <1>0, <1>5 DEF CheckSeen, StoreOK, BoundsOK
    <2>2. SharedOK'
      BY <1>0, <1>L, <1>5 DEF CheckSeen, SharedOK, Remember, Keys
    <2>3. HistoryOK'
      BY <1>0, <1>5 DEF CheckSeen, HistoryOK
    <2>4. TasksOK'
      <3>1. CASE Return(s)
        BY <1>0, <3>1, ReturnOK
      <3>2. CASE Goto(s, IF local[s].topics = {} THEN "route" ELSE "notify") /\ UNCHANGED local
        BY <1>0, <3>2, GotoOK DEF Labels, TasksOK
      <3> QED
        BY <1>5, <3>1, <3>2 DEF CheckSeen
    <2> QED
      BY <2>1, <2>2, <2>3, <2>4 DEF TypeOK
  <1>6. ASSUME NEW t \in Topics, Notify(s, t)
        PROVE  TypeOK'
    <2>1. StoreOK' /\ SharedOK' /\ BoundsOK'
      BY <1>0, <1>6 DEF Notify, StoreOK, SharedOK, BoundsOK
    <2>2. HistoryOK'
      <3>1. delivered' \in [Inbound -> [Topics -> Nat]]
        <4>1. delivered \in [Inbound -> [Topics -> Nat]]
          BY <1>0 DEF HistoryOK
        <4>2. [delivered EXCEPT ![local[s].msg][t] = @ + 1] \in [Inbound -> [Topics -> Nat]]
          BY <4>1, CountUp
        <4> QED
          BY <1>6, <4>1, <4>2 DEF Notify
      <3> QED
        BY <1>0, <1>6, <3>1 DEF Notify, HistoryOK
    <2>3. TasksOK'
      <3>1. CASE Panic(s)
        BY <1>0, <3>1, PanicOK
      <3>2. CASE /\ local' = [local EXCEPT ![s].topics = @ \ {t}]
                 /\ Goto(s, IF local[s].topics = {t} THEN "route" ELSE "notify")
        <4>1. local[s].topics \ {t} \in SUBSET Topics
          BY <1>L
        <4>2. local' = [local EXCEPT ![s].topics = local[s].topics \ {t}]
          BY <3>2
        <4>3. local' \in [Tasks -> Locals]
          BY <1>0, <1>L, <4>1, <4>2, LocalTopics
        <4>4. pc' \in [Tasks -> Labels]
          BY <1>0, <3>2, GotoOK DEF Labels
        <4> QED
          BY <4>3, <4>4 DEF TasksOK
      <3> QED
        BY <1>6, <3>1, <3>2 DEF Notify
    <2> QED
      BY <2>1, <2>2, <2>3 DEF TypeOK
  <1>10. CASE Report(s)
    <2>1. StoreOK' /\ BoundsOK' /\ HistoryOK'
      BY <1>0, <1>10 DEF Report, StoreOK, BoundsOK, HistoryOK
    <2>2. Dead(PeerOf[s]) \in Frames
      BY <1>0 DEF Dead, Frames
    <2>3. SharedOK'
      <3>1. /\ UNCHANGED <<last_seen_cache, chan>>
            /\ floodsub_mpsc' = floodsub_mpsc
                 \/ floodsub_mpsc' = Append(floodsub_mpsc, Dead(PeerOf[s]))
        BY <1>10 DEF Report
      <3> QED
        BY <1>0, <2>2, <3>1, SharedAppend
    <2>4. TasksOK'
      BY <1>0, <1>10, GotoOK DEF Report, TasksOK, Labels
    <2> QED
      BY <2>1, <2>3, <2>4 DEF TypeOK
  <1> QED
    BY <1>1, <1>2, <1>3, <1>4, <1>5, <1>6, <1>10, RouteOK, LookupOK, SendOK DEF HandlerStep

(* So do the steps of the internal task, *)
LEMMA IntStepOK ==
    ASSUME TypeOK, IntStep
    PROVE  TypeOK'
  <1>0. /\ Int \in Tasks
        /\ StoreOK /\ SharedOK /\ TasksOK /\ BoundsOK /\ HistoryOK
    BY DEF Tasks, TypeOK
  <1> USE DEF storeVars, history, bounds
  <1>H. floodsub_mpsc # <<>> => /\ Head(floodsub_mpsc) \in Frames
                                /\ Tail(floodsub_mpsc) \in Seq(Frames)
    BY <1>0 DEF SharedOK
  <1>1. CASE HandleDeadPeers
    <2>1. SharedOK' /\ BoundsOK'
      BY <1>0, <1>H, <1>1 DEF HandleDeadPeers, SharedOK, BoundsOK
    <2>2. TasksOK' /\ HistoryOK'
      BY <1>0, <1>1 DEF HandleDeadPeers, TasksOK, HistoryOK
    <2>3. StoreOK'
      BY <1>0, <1>1 DEF HandleDeadPeers, StoreOK, TopicsWithout
    <2> QED
      BY <2>1, <2>2, <2>3 DEF TypeOK
  <1>2. CASE StartPublish
    <2>1. StoreOK' /\ BoundsOK' /\ HistoryOK'
      BY <1>0, <1>2 DEF StartPublish, StoreOK, BoundsOK, HistoryOK
    <2>2. SharedOK'
      BY <1>0, <1>H, <1>2 DEF StartPublish, SharedOK
    <2>3. OwnMsg(Head(floodsub_mpsc).topic) \in Messages
      BY <1>H, <1>2 DEF StartPublish, Frames, Messages
    <2>4. local' \in [Tasks -> Locals]
      <3>1. local[Int] \in Locals
        BY <1>0 DEF TasksOK
      <3> QED
        BY <1>0, <1>2, <2>3, <3>1 DEF StartPublish, TasksOK, Locals
    <2>5. pc' \in [Tasks -> Labels]
      BY <1>0, <1>2, GotoOK DEF StartPublish, Labels
    <2> QED
      BY <2>1, <2>2, <2>4, <2>5 DEF TypeOK, TasksOK
  <1> QED
    BY <1>1, <1>2, RouteOK, LookupOK, SendOK DEF IntStep

(* the announcements of the application, *)
LEMMA AnnounceStepOK ==
    ASSUME TypeOK, AnnounceStep
    PROVE  TypeOK'
  <1>0. /\ Api \in Tasks /\ ChanCap \in Nat
        /\ StoreOK /\ SharedOK /\ TasksOK /\ BoundsOK /\ HistoryOK
    BY FloodsubAssumption DEF Tasks, TypeOK
  <1>L. /\ local[Api].topics \in SUBSET Topics
        /\ local[Api].targets \in SUBSET (Peers \cup Streams)
        /\ local[Api].msg \in Messages
        /\ local[Api].dest \in Streams \cup {NoStream}
    BY <1>0, LocalParts
  <1> USE DEF storeVars, history, bounds
  <1>1. CASE AnnounceLock
    <2>1. StoreOK' /\ SharedOK' /\ BoundsOK' /\ HistoryOK'
      BY <1>0, <1>1 DEF AnnounceLock, StoreOK, SharedOK, BoundsOK, HistoryOK
    <2>2. {peers[p] : p \in Peers} \ {NoStream} \in SUBSET (Peers \cup Streams)
      BY <1>0 DEF StoreOK
    <2>3. local' \in [Tasks -> Locals]
      BY <1>0, <1>L, <1>1, <2>2, LocalTargets DEF AnnounceLock
    <2>4. pc' \in [Tasks -> Labels]
      BY <1>0, <1>1, GotoOK DEF AnnounceLock, Labels
    <2> QED
      BY <2>1, <2>3, <2>4 DEF TypeOK, TasksOK
  <1>2. ASSUME NEW s \in Streams, AnnounceSend(s)
        PROVE  TypeOK'
    <2>1. StoreOK' /\ BoundsOK'
      BY <1>0, <1>2 DEF AnnounceSend, StoreOK, BoundsOK
    <2>2. SharedOK'
      BY <1>0, <1>2 DEF AnnounceSend, SharedOK, HasRoom
    <2>3. HistoryOK'
      BY <1>0, <1>L, <1>2 DEF AnnounceSend, HistoryOK
    <2>4. local' \in [Tasks -> Locals]
      <3>1. local[Api].targets \ {s} \in SUBSET (Peers \cup Streams)
        BY <1>L
      <3>2. CASE local' = [local EXCEPT ![Api].targets = @ \ {s}]
        <4>1. local' = [local EXCEPT ![Api].targets = local[Api].targets \ {s}]
          BY <3>2
        <4> QED
          BY <1>0, <1>L, <3>1, <4>1, LocalTargets
      <3>3. CASE local' = [local EXCEPT ![Api] = [Empty EXCEPT !.topics =
                               IF pc[Api] = "sendSub" THEN local[Api].topics ELSE {}]]
        <4>1. (IF pc[Api] = "sendSub" THEN local[Api].topics ELSE {}) \in SUBSET Topics
          BY <1>L
        <4> QED
          BY <1>0, <1>L, <3>3, <4>1, LocalTopics
      <3> QED
        BY <1>2, <3>2, <3>3 DEF AnnounceSend
    <2>5. pc' \in [Tasks -> Labels]
      BY <1>0, <1>2, GotoOK DEF AnnounceSend, Labels, TasksOK
    <2> QED
      BY <2>1, <2>2, <2>3, <2>4, <2>5 DEF TypeOK, TasksOK
  <1>3. CASE AnnounceDone
    <2>1. StoreOK' /\ SharedOK' /\ BoundsOK' /\ HistoryOK'
      BY <1>0, <1>3 DEF AnnounceDone, StoreOK, SharedOK, BoundsOK, HistoryOK
    <2> QED
      BY <1>0, <1>3, <2>1, ReturnOK DEF AnnounceDone, TypeOK
  <1> QED
    BY <1>1, <1>2, <1>3 DEF AnnounceStep

(* what the peer brings about in a handler, *)
LEMMA PeerStepOK ==
    ASSUME TypeOK, NEW s \in Streams, PeerStep(s)
    PROVE  TypeOK'
  <1>0. /\ s \in Tasks /\ PeerOf \in [Streams -> Peers] /\ MaxRpcs \in Nat
        /\ StoreOK /\ SharedOK /\ TasksOK /\ BoundsOK /\ HistoryOK
    BY FloodsubAssumption DEF Tasks, TypeOK
  <1>L. /\ local[s].topics \in SUBSET Topics
        /\ local[s].targets \in SUBSET (Peers \cup Streams)
        /\ local[s].dest \in Streams \cup {NoStream}
    BY <1>0, LocalParts
  <1> USE DEF storeVars, history, bounds
  <1>1. CASE Open(s)
    <2>1. SharedOK' /\ BoundsOK' /\ HistoryOK'
      BY <1>0, <1>1 DEF Open, SharedOK, BoundsOK, HistoryOK
    <2>2. StoreOK'
      BY <1>0, <1>1 DEF Open, Register, StoreOK
    <2>3. TasksOK'
      BY <1>0, <1>1, GotoOK DEF Open, TasksOK, Labels
    <2> QED
      BY <2>1, <2>2, <2>3 DEF TypeOK
  <1>2. ASSUME Receive(s)
        PROVE  SharedOK' /\ BoundsOK' /\ HistoryOK'
    <2>1. SharedOK' /\ HistoryOK'
      BY <1>0, <1>2 DEF Receive, SharedOK, HistoryOK
    <2>2. BoundsOK'
      BY <1>0, <1>2 DEF Receive, BoundsOK
    <2> QED
      BY <2>1, <2>2
  <1>3. ASSUME NEW t \in Topics, RecvSub(s, t) \/ RecvUnsub(s, t)
        PROVE  TypeOK'
    <2>1. StoreOK'
      BY <1>0, <1>3 DEF RecvSub, RecvUnsub, Receive, StoreOK
    <2>2. TasksOK'
      BY <1>0, <1>3 DEF RecvSub, RecvUnsub, TasksOK
    <2> QED
      BY <1>2, <1>3, <2>1, <2>2 DEF RecvSub, RecvUnsub, TypeOK
  <1>4. ASSUME NEW m \in Inbound, RecvPublish(s, m)
        PROVE  TypeOK'
    <2>1. StoreOK'
      BY <1>0, <1>4 DEF RecvPublish, Receive, StoreOK
    <2>2. TasksOK'
      <3>1. CASE UNCHANGED <<pc, local>>
        BY <1>0, <3>1 DEF TasksOK
      <3>2. CASE Goto(s, "consume") /\ local' = [local EXCEPT ![s].msg = m]
        <4>1. m \in Messages
          BY DEF Messages
        <4>2. local' \in [Tasks -> Locals]
          BY <1>0, <1>L, <3>2, <4>1, LocalMsg
        <4>3. pc' \in [Tasks -> Labels]
          BY <1>0, <3>2, GotoOK DEF Labels
        <4> QED
          BY <4>2, <4>3 DEF TasksOK
      <3> QED
        BY <1>4, <3>1, <3>2 DEF RecvPublish
    <2> QED
      BY <1>2, <1>4, <2>1, <2>2 DEF RecvPublish, TypeOK
  <1>5. CASE StreamEnds(s)
    <2>1. StoreOK' /\ SharedOK' /\ BoundsOK' /\ HistoryOK'
      BY <1>0, <1>5 DEF StreamEnds, StoreOK, SharedOK, BoundsOK, HistoryOK
    <2>2. local' \in [Tasks -> Locals]
      BY <1>0, <1>5, LocalReset DEF StreamEnds
    <2>3. pc' \in [Tasks -> Labels]
      BY <1>0, <1>5, GotoOK DEF StreamEnds, Labels
    <2> QED
      BY <2>1, <2>2, <2>3 DEF TypeOK, TasksOK
  <1> QED
    BY <1>1, <1>3, <1>4, <1>5 DEF PeerStep

(* and the calls of the application. *)
LEMMA ApiCallsOK ==
    ASSUME TypeOK, ApiCalls
    PROVE  TypeOK'
  <1>0. /\ Api \in Tasks /\ MaxApiOps \in Nat
        /\ StoreOK /\ SharedOK /\ TasksOK /\ BoundsOK /\ HistoryOK
    BY FloodsubAssumption DEF Tasks, TypeOK
  <1>L. /\ local[Api].msg \in Messages
        /\ local[Api].targets \in SUBSET (Peers \cup Streams)
        /\ local[Api].dest \in Streams \cup {NoStream}
    BY <1>0, LocalParts
  <1>1. PICK t \in Topics : ApiSubscribe(t) \/ ApiUnsubscribe(t) \/ ApiPublish(t)
    BY DEF ApiCalls
  <1> USE DEF ApiCall, history
  <1>2. BoundsOK'
    BY <1>0, <1>1 DEF ApiSubscribe, ApiUnsubscribe, ApiPublish, BoundsOK
  <1>3. HistoryOK'
    BY <1>0, <1>1 DEF ApiSubscribe, ApiUnsubscribe, ApiPublish, HistoryOK
  <1>4. StoreOK'
    BY <1>0, <1>1 DEF ApiSubscribe, ApiUnsubscribe, ApiPublish, StoreOK
  <1>5. SharedOK'
    <2>1. Pub(t) \in Frames
      BY DEF Pub, Frames
    <2>2. /\ UNCHANGED <<last_seen_cache, chan>>
          /\ floodsub_mpsc' = floodsub_mpsc \/ floodsub_mpsc' = Append(floodsub_mpsc, Pub(t))
      BY <1>1 DEF ApiSubscribe, ApiUnsubscribe, ApiPublish
    <2> QED
      BY <1>0, <2>1, <2>2, SharedAppend
  <1>6. TasksOK'
    <2>1. CASE UNCHANGED <<pc, local>>
      BY <1>0, <2>1 DEF TasksOK
    <2>2. CASE Panic(Api)
      BY <1>0, <2>2, PanicOK
    <2>3. ASSUME Goto(Api, "announceSub") \/ Goto(Api, "announceUnsub"),
                 local' = [local EXCEPT ![Api].topics = {t}]
          PROVE  TasksOK'
      <3>1. pc' \in [Tasks -> Labels]
        BY <1>0, <2>3, GotoOK DEF Labels
      <3>2. {t} \in SUBSET Topics
        OBVIOUS
      <3>3. local' \in [Tasks -> Locals]
        BY <1>0, <1>L, <2>3, <3>2, LocalTopics
      <3> QED
        BY <3>1, <3>3 DEF TasksOK
    <2> QED
      BY <1>1, <2>1, <2>2, <2>3 DEF ApiSubscribe, ApiUnsubscribe, ApiPublish
  <1> QED
    BY <1>2, <1>3, <1>4, <1>5, <1>6 DEF TypeOK

(* The cleaning of the cache keeps the types, too. *)
LEMMA CleanUpOK ==
    ASSUME TypeOK, NEW old \in SUBSET last_seen_cache, CleanUp(old)
    PROVE  TypeOK'
  <1>1. SharedOK' /\ HistoryOK'
    BY DEF CleanUp, TypeOK, SharedOK, HistoryOK
  <1>2. StoreOK' /\ TasksOK' /\ BoundsOK'
    BY DEF CleanUp, storeVars, bounds, TypeOK, StoreOK, TasksOK, BoundsOK
  <1> QED
    BY <1>1, <1>2 DEF TypeOK

(* Every variable keeps its type; in particular no handler's channel ever  *)
(* holds more than ChanCap RPCs (FloosubStore and the tasks of pubsub.rs). *)
THEOREM TypeCorrect == Spec => []TypeOK
  <1>1. TypeOK /\ [Next]_vars => TypeOK'
    <2> SUFFICES ASSUME TypeOK, [Next]_vars
                 PROVE  TypeOK'
      OBVIOUS
    <2>1. CASE UNCHANGED vars
      BY <2>1 DEF vars, TypeOK, StoreOK, SharedOK, TasksOK, BoundsOK, HistoryOK
    <2>2. CASE Next
      BY <2>2, HandlerStepOK, PeerStepOK, IntStepOK, AnnounceStepOK, ApiCallsOK, CleanUpOK
         DEF Next
    <2> QED
      BY <2>1, <2>2
  <1> QED
    BY InitOK, <1>1, PTL DEF Spec

=============================================================================
