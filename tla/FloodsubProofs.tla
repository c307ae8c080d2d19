--------------------------- MODULE FloodsubProofs ---------------------------
(***************************************************************************)
(* Safety theorems of Floodsub, for any number of peers, streams, topics   *)
(* and messages and any capacity of the channels.  Each rests on an        *)
(* inductive invariant of its own and on the typing theorem.               *)
(***************************************************************************)
EXTENDS FloodsubTypes

(* The cleaning of the cache changes nothing that the other invariants are *)
(* about.                                                                  *)
CleanUpStep == \E old \in SUBSET last_seen_cache : CleanUp(old)

(* It leaves everything but the cache and the keys that have expired.       *)
LEMMA CleanUpLeaves ==
    ASSUME CleanUpStep
    PROVE  UNCHANGED <<peer_topics, peers, subscribed_topic_api, storeHeld, floodsub_mpsc, chan, pc,
                       local, told, unsubscribed>>
  BY DEF CleanUpStep, CleanUp, storeVars

-----------------------------------------------------------------------------
(* At most one delivery.  As long as its key has not expired, a message    *)
(* without its key in the cache has not been delivered; one with its key   *)
(* in the cache is in the hands of at most one notifying handler, which    *)
(* has not delivered it to the topics still on its list.                   *)
InHand == {"consume", "seen", "notify"}

OnceInv ==
    /\ \A m \in Inbound : Key(m) \notin last_seen_cache \cup expired
                            => \A t \in Topics : delivered[m][t] = 0
    /\ \A s \in Streams : pc[s] \in InHand => local[s].msg \in Inbound
    /\ \A s \in Streams : pc[s] = "notify" /\ Key(local[s].msg) \notin expired =>
          /\ Key(local[s].msg) \in last_seen_cache
          /\ \A t \in local[s].topics : delivered[local[s].msg][t] = 0
    /\ \A s1, s2 \in Streams :
          pc[s1] = "notify" /\ pc[s2] = "notify" /\ s1 # s2
             /\ Key(local[s1].msg) \notin expired
             => Key(local[s1].msg) # Key(local[s2].msg)
    /\ DeliveredOnce

(* Steps that leave the cache, the deliveries and the messages in hand     *)
(* alone; a handler may let go of its message.                             *)
OnceQuiet ==
    /\ UNCHANGED <<delivered, last_seen_cache, expired>>
    /\ \A s \in Streams : pc'[s] \in InHand => pc'[s] = pc[s] /\ local'[s] = local[s]

(* Such a step keeps the invariant.                                         *)
LEMMA OnceFrame ==
    ASSUME OnceInv, OnceQuiet
    PROVE  OnceInv'
  BY DEF OnceInv, OnceQuiet, InHand, DeliveredOnce

OnceQuietStep ==
    \/ \E s \in Streams :
          \/ Open(s) \/ ReadHello(s) \/ SendHello(s) \/ Drain(s) \/ StreamEnds(s) \/ Report(s)
          \/ \E t \in Topics : RecvSub(s, t) \/ RecvUnsub(s, t)
    \/ \E k \in Streams \cup {Int} :
          Route(k) \/ Send(k) \/ \E p \in Peers : Lookup(k, p)
    \/ HandleDeadPeers \/ StartPublish
    \/ ApiCalls
    \/ AnnounceStep
    \/ UNCHANGED vars

(* And these are such steps.                                                *)
LEMMA OnceQuietSteps ==
    ASSUME TypeOK, OnceQuietStep
    PROVE  OnceQuiet
  <1>1. /\ pc \in [Tasks -> Labels] /\ local \in [Tasks -> Locals]
        /\ Streams \subseteq Tasks /\ Int \in Tasks /\ Api \in Tasks
        /\ Int \notin Streams /\ Api \notin Streams
    BY FloodsubAssumption DEF TypeOK, TasksOK, Tasks
  <1> USE DEF OnceQuiet, InHand, Goto, Return, Panic, history
  <1>2. ASSUME NEW s \in Streams, Open(s) \/ ReadHello(s) \/ SendHello(s) \/ Drain(s)
        PROVE  OnceQuiet
    BY <1>1, <1>2 DEF Open, ReadHello, SendHello, Drain
  <1>3. ASSUME NEW s \in Streams, StreamEnds(s) \/ Report(s)
        PROVE  OnceQuiet
    BY <1>1, <1>3 DEF StreamEnds, Report
  <1>4. ASSUME NEW s \in Streams, NEW t \in Topics, RecvSub(s, t) \/ RecvUnsub(s, t)
        PROVE  OnceQuiet
    BY <1>1, <1>4 DEF RecvSub, RecvUnsub, Receive
  <1>5. ASSUME NEW k \in Streams \cup {Int}, Route(k) \/ Send(k)
        PROVE  OnceQuiet
    BY <1>1, <1>5 DEF Route, Send
  <1>6. ASSUME NEW k \in Streams \cup {Int}, NEW p \in Peers, Lookup(k, p)
        PROVE  OnceQuiet
    BY <1>1, <1>6 DEF Lookup
  <1>7. CASE HandleDeadPeers \/ StartPublish
    BY <1>1, <1>7 DEF HandleDeadPeers, StartPublish
  <1>8. CASE ApiCalls
    BY <1>1, <1>8 DEF ApiCalls, ApiSubscribe, ApiUnsubscribe, ApiPublish, ApiCall
  <1>9. CASE AnnounceStep
    BY <1>1, <1>9 DEF AnnounceStep, AnnounceLock, AnnounceSend, AnnounceDone
  <1>10. CASE UNCHANGED vars
    BY <1>10 DEF vars
  <1> QED
    BY <1>2, <1>3, <1>4, <1>5, <1>6, <1>7, <1>8, <1>9, <1>10 DEF OnceQuietStep

(* The four steps that handle a message. *)
LEMMA OnceMessageSteps ==
    ASSUME TypeOK, OnceInv, NEW s \in Streams,
           \/ \E m \in Inbound : RecvPublish(s, m)
           \/ Consume(s) \/ CheckSeen(s)
           \/ \E t \in Topics : Notify(s, t)
    PROVE  OnceInv'
  <1>1. /\ pc \in [Tasks -> Labels] /\ local \in [Tasks -> Locals]
        /\ delivered \in [Inbound -> [Topics -> Nat]]
        /\ Streams \subseteq Tasks
        /\ local[s].topics \in SUBSET Topics
    BY LocalParts DEF TypeOK, TasksOK, HistoryOK, Tasks
  <1> USE DEF InHand, Goto, history
  <1>2. CASE Return(s) \/ Panic(s)
    <2>1. pc'[s] \in {"select", "panic"}
          /\ \A r \in Streams \ {s} : pc'[r] = pc[r] /\ local'[r] = local[r]
      BY <1>1, <1>2 DEF Return, Panic
    <2>2. UNCHANGED <<delivered, last_seen_cache, expired>>
      BY <1>1, <1>2, <2>1 DEF RecvPublish, Receive, Consume, CheckSeen, Notify
    <2> QED
      BY <2>1, <2>2, OnceFrame DEF OnceQuiet
  <1>3. ASSUME NEW m \in Inbound, RecvPublish(s, m)
        PROVE  OnceInv'
    <2>1. UNCHANGED <<delivered, last_seen_cache, expired>>
      BY <1>3 DEF RecvPublish, Receive
    <2>2. CASE UNCHANGED <<pc, local>>
      BY <2>1, <2>2, OnceFrame DEF OnceQuiet
    <2>3. CASE Goto(s, "consume") /\ local' = [local EXCEPT ![s].msg = m]
      <3>1. pc'[s] = "consume" /\ local'[s].msg = m
            /\ \A r \in Streams \ {s} : pc'[r] = pc[r] /\ local'[r] = local[r]
        BY <1>1, <2>3 DEF Locals
      <3> QED
        BY <2>1, <3>1 DEF OnceInv, DeliveredOnce
    <2> QED
      BY <1>3, <2>2, <2>3 DEF RecvPublish
  <1>4. CASE Consume(s)
    <2>1. UNCHANGED <<delivered, last_seen_cache, expired>>
      BY <1>4 DEF Consume
    <2>2. CASE Goto(s, "seen") /\ local' = [local EXCEPT ![s].topics =
                                     local[s].msg.topics \cap subscribed_topic_api]
      <3>1. pc'[s] = "seen" /\ local'[s].msg = local[s].msg
            /\ \A r \in Streams \ {s} : pc'[r] = pc[r] /\ local'[r] = local[r]
        BY <1>1, <2>2 DEF Locals
      <3>2. local[s].msg \in Inbound
        BY <1>4 DEF Consume, OnceInv
      <3> QED
        BY <2>1, <3>1, <3>2 DEF OnceInv, DeliveredOnce
    <2> QED
      BY <1>2, <1>4, <2>2 DEF Consume
  <1>5. CASE CheckSeen(s)
    <2>1. CASE Return(s)
      BY <1>2, <2>1
    <2>2. ASSUME Key(local[s].msg) \notin last_seen_cache, ~Return(s)
          PROVE  OnceInv'
      <3>1. /\ last_seen_cache' = last_seen_cache \cup {Key(local[s].msg)}
            /\ UNCHANGED <<delivered, expired, local>>
            /\ \A r \in Streams \ {s} : pc'[r] = pc[r]
        BY <1>1, <1>5, <2>2 DEF CheckSeen, Remember
      <3>2. local[s].msg \in Inbound
        BY <1>5 DEF CheckSeen, OnceInv
      <3>3. Key(local[s].msg) \notin expired
               => \A u \in Topics : delivered[local[s].msg][u] = 0
        BY <2>2, <3>2 DEF OnceInv
      <3>4. \A r \in Streams : pc[r] = "notify" /\ Key(local[r].msg) \notin expired
                => Key(local[r].msg) # Key(local[s].msg)
        BY <2>2 DEF OnceInv
      <3>5. \A m \in Inbound : Key(m) \notin last_seen_cache' \cup expired
                                 => \A u \in Topics : delivered'[m][u] = 0
        BY <3>1 DEF OnceInv
      <3>6. \A r \in Streams : /\ pc'[r] \in InHand => local'[r].msg \in Inbound
                               /\ pc'[r] = "notify" => pc[r] = "notify" \/ r = s
        BY <3>1, <3>2 DEF OnceInv
      <3>7. \A r \in Streams : pc'[r] = "notify" /\ Key(local[r].msg) \notin expired =>
                /\ Key(local[r].msg) \in last_seen_cache'
                /\ \A u \in local[r].topics : delivered[local[r].msg][u] = 0
        BY <1>1, <3>1, <3>2, <3>3, <3>6 DEF OnceInv
      <3>8. \A s1, s2 \in Streams :
                pc'[s1] = "notify" /\ pc'[s2] = "notify" /\ s1 # s2
                    /\ Key(local[s1].msg) \notin expired
                    => Key(local[s1].msg) # Key(local[s2].msg)
        BY <3>4, <3>6 DEF OnceInv
      <3> QED
        BY <3>1, <3>5, <3>6, <3>7, <3>8 DEF OnceInv, DeliveredOnce, Key
    <2> QED
      BY <1>5, <2>1, <2>2 DEF CheckSeen
  <1>6. ASSUME NEW t \in Topics, Notify(s, t)
        PROVE  OnceInv'
    <2>1. CASE Panic(s)
      BY <1>2, <2>1
    <2>2. ASSUME ~Panic(s)
          PROVE  OnceInv'
      <3> DEFINE n == local[s].msg
      <3>1. /\ n \in Inbound /\ t \in local[s].topics
            /\ Key(n) \notin expired => delivered[n][t] = 0 /\ Key(n) \in last_seen_cache
        BY <1>6 DEF Notify, OnceInv
      <3>2. /\ UNCHANGED <<last_seen_cache, expired>>
            /\ delivered' = [delivered EXCEPT ![n][t] = @ + 1]
            /\ local' = [local EXCEPT ![s].topics = @ \ {t}]
            /\ Goto(s, IF local[s].topics = {t} THEN "route" ELSE "notify")
        BY <1>6, <2>2 DEF Notify
      <3>3. /\ Key(n) \notin expired => delivered'[n][t] = 1
            /\ \A u \in Topics \ {t} : delivered'[n][u] = delivered[n][u]
            /\ \A o \in Inbound \ {n} : delivered'[o] = delivered[o]
        BY <1>1, <3>1, <3>2
      <3>4. /\ local'[s].msg = n /\ local'[s].topics = local[s].topics \ {t}
            /\ pc'[s] \in {"route", "notify"}
            /\ \A r \in Streams \ {s} : pc'[r] = pc[r] /\ local'[r] = local[r]
        BY <1>1, <3>2 DEF Locals
      <3>5. \A r \in Streams \ {s} : pc[r] = "notify" /\ Key(local[r].msg) \notin expired
               => local[r].msg \in Inbound \ {n}
        BY <1>6 DEF Notify, OnceInv
      <3>6. pc[s] = "notify"
        BY <1>6 DEF Notify
      <3>7. DeliveredOnce'
        BY <1>1, <3>1, <3>2, <3>3 DEF OnceInv, DeliveredOnce
      <3>8. \A m \in Inbound : Key(m) \notin (last_seen_cache \cup expired)'
                => \A u \in Topics : delivered'[m][u] = 0
        <4>1. ASSUME NEW m \in Inbound, Key(m) \notin (last_seen_cache \cup expired)'
              PROVE  m \in Inbound \ {n} /\ Key(m) \notin last_seen_cache \cup expired
          BY <3>1, <3>2, <4>1
        <4> QED
          BY <3>3, <4>1 DEF OnceInv
      <3>9. \A r \in Streams : pc'[r] \in InHand => local'[r].msg \in Inbound
        BY <3>1, <3>4, <3>6 DEF OnceInv
      <3>10. ASSUME NEW r \in Streams, pc'[r] = "notify", Key(local'[r].msg) \notin expired
             PROVE  /\ Key(local'[r].msg) \in last_seen_cache
                    /\ \A u \in local'[r].topics : delivered'[local'[r].msg][u] = 0
        <4>1. CASE r = s
          BY <1>1, <3>1, <3>3, <3>4, <3>10, <4>1, <3>6 DEF OnceInv
        <4>2. CASE r # s
          BY <3>3, <3>4, <3>5, <3>10, <4>2 DEF OnceInv
        <4> QED
          BY <4>1, <4>2
      <3>11. \A s1, s2 \in Streams :
                pc'[s1] = "notify" /\ pc'[s2] = "notify" /\ s1 # s2
                    /\ Key(local'[s1].msg) \notin expired
                    => Key(local'[s1].msg) # Key(local'[s2].msg)
        BY <3>4, <3>6 DEF OnceInv
      <3> QED
        BY <3>2, <3>7, <3>8, <3>9, <3>10, <3>11 DEF OnceInv, Key
    <2> QED
      BY <2>1, <2>2
  <1> QED
    BY <1>3, <1>4, <1>5, <1>6

(* No topic receives a message twice, however many peers relay it          *)
(* (is_msg_seen, notify_subscription).                                     *)
THEOREM DeliveredAtMostOnce == Spec => []DeliveredOnce
  <1>1. Init => OnceInv
    BY FloodsubAssumption DEF Init, OnceInv, DeliveredOnce, InHand, Tasks
  <1>2. TypeOK /\ OnceInv /\ [Next]_vars => OnceInv'
    <2> SUFFICES ASSUME TypeOK, OnceInv, [Next]_vars
                 PROVE  OnceInv'
      OBVIOUS
    <2>1. CASE OnceQuietStep
      BY <2>1, OnceQuietSteps, OnceFrame
    <2>2. CASE CleanUpStep
      BY <2>2 DEF CleanUpStep, CleanUp, OnceInv, DeliveredOnce, InHand
    <2>3. CASE ~OnceQuietStep /\ ~CleanUpStep
      BY <2>3, OnceMessageSteps DEF CleanUpStep, OnceQuietStep, Next, HandlerStep, PeerStep, IntStep
    <2> QED
      BY <2>1, <2>2, <2>3
  <1>3. OnceInv => DeliveredOnce
    BY DEF OnceInv
  <1> QED
    BY <1>1, <1>2, <1>3, TypeCorrect, PTL DEF Spec

-----------------------------------------------------------------------------
(* No announcement is missed.  For a registered handler that has read the  *)
(* topics, each topic was announced, or is in the hello RPC it still has   *)
(* to queue, or is about to be announced by the application.               *)
Covered(t, s) ==
    \/ t \in told[s]
    \/ pc[s] = "greet" /\ t \in local[s].topics
    \/ pc[Api] = "announceSub" /\ t \in local[Api].topics
    \/ pc[Api] = "sendSub" /\ t \in local[Api].topics /\ s \in local[Api].targets

Registered(s) == peers[PeerOf[s]] = s /\ pc[s] \notin {"none", "hello"}

AnnouncedInv ==
    /\ storeHeld <=> pc[Api] \in {"sendSub", "sendUnsub"}
    /\ pc[Api] \in {"announceUnsub", "sendUnsub"}
          => local[Api].topics \cap subscribed_topic_api = {}
    /\ pc[Api] # "panic" =>
          \A s \in Streams : Registered(s) =>
              \A t \in subscribed_topic_api : Covered(t, s)

(* Steps that change neither the topics nor what is announced. *)
AnnouncedQuiet ==
    /\ UNCHANGED <<subscribed_topic_api, storeHeld, told>>
    /\ pc'[Api] = pc[Api] /\ local'[Api] = local[Api]
    /\ \A s \in Streams :
          /\ Registered(s)' => Registered(s)
          /\ pc[s] = "greet" => pc'[s] = "greet" /\ local'[s] = local[s]

(* A step that takes no cover away keeps every topic covered.               *)
LEMMA AnnouncedFrame ==
    ASSUME AnnouncedInv, AnnouncedQuiet
    PROVE  AnnouncedInv'
  BY DEF AnnouncedInv, AnnouncedQuiet, Covered

AnnouncedQuietStep ==
    \/ \E s \in Streams :
          \/ Open(s) \/ Drain(s) \/ Consume(s) \/ CheckSeen(s) \/ StreamEnds(s) \/ Report(s)
          \/ \E t \in Topics : RecvSub(s, t) \/ RecvUnsub(s, t) \/ Notify(s, t)
          \/ \E m \in Inbound : RecvPublish(s, m)
    \/ \E k \in Streams \cup {Int} :
          Route(k) \/ Send(k) \/ \E p \in Peers : Lookup(k, p)
    \/ HandleDeadPeers \/ StartPublish
    \/ CleanUpStep
    \/ UNCHANGED vars

(* Most steps neither announce, nor subscribe, nor register.                *)
LEMMA AnnouncedQuietSteps ==
    ASSUME TypeOK, AnnouncedQuietStep
    PROVE  AnnouncedQuiet
  <1>1. /\ pc \in [Tasks -> Labels] /\ local \in [Tasks -> Locals]
        /\ Streams \subseteq Tasks /\ Int \in Tasks /\ Api \in Tasks
        /\ Int # Api /\ Api \notin Streams /\ NoStream \notin Streams
        /\ peers \in [Peers -> Streams \cup {NoStream}] /\ PeerOf \in [Streams -> Peers]
    BY FloodsubAssumption DEF TypeOK, TasksOK, StoreOK, Tasks
  <1> USE DEF AnnouncedQuiet, Registered, Goto, Return, Panic, history, storeVars
  <1>2. ASSUME NEW s \in Streams, Open(s)
        PROVE  AnnouncedQuiet
    BY <1>1, <1>2 DEF Open, Register
  <1>3. ASSUME NEW s \in Streams, Drain(s) \/ Consume(s) \/ CheckSeen(s)
        PROVE  AnnouncedQuiet
    BY <1>1, <1>3 DEF Drain, Consume, CheckSeen
  <1>4. ASSUME NEW s \in Streams, StreamEnds(s) \/ Report(s)
        PROVE  AnnouncedQuiet
    BY <1>1, <1>4 DEF StreamEnds, Report
  <1>5. ASSUME NEW s \in Streams, NEW t \in Topics,
               RecvSub(s, t) \/ RecvUnsub(s, t) \/ Notify(s, t)
        PROVE  AnnouncedQuiet
    BY <1>1, <1>5 DEF RecvSub, RecvUnsub, Receive, Notify
  <1>6. ASSUME NEW s \in Streams, NEW m \in Inbound, RecvPublish(s, m)
        PROVE  AnnouncedQuiet
    BY <1>1, <1>6 DEF RecvPublish, Receive
  <1>7. ASSUME NEW k \in Streams \cup {Int}, Route(k) \/ Send(k)
        PROVE  AnnouncedQuiet
    BY <1>1, <1>7 DEF Route, Send
  <1>8. ASSUME NEW k \in Streams \cup {Int}, NEW p \in Peers, Lookup(k, p)
        PROVE  AnnouncedQuiet
    BY <1>1, <1>8 DEF Lookup
  <1>9. CASE HandleDeadPeers \/ StartPublish
    BY <1>1, <1>9 DEF HandleDeadPeers, StartPublish
  <1>10. CASE UNCHANGED vars
    BY <1>10 DEF vars
  <1>11. CASE CleanUpStep
    BY <1>11, CleanUpLeaves
  <1> QED
    BY <1>2, <1>3, <1>4, <1>5, <1>6, <1>7, <1>8, <1>9, <1>10, <1>11 DEF AnnouncedQuietStep

(* The hello RPC of a new peer. *)
LEMMA AnnouncedHello ==
    ASSUME TypeOK, AnnouncedInv, NEW s \in Streams, ReadHello(s) \/ SendHello(s)
    PROVE  AnnouncedInv'
  <1>1. /\ pc \in [Tasks -> Labels] /\ local \in [Tasks -> Locals]
        /\ told \in [Streams -> SUBSET Topics]
        /\ Streams \subseteq Tasks /\ Api \in Tasks /\ Api \notin Streams
    BY FloodsubAssumption DEF TypeOK, TasksOK, HistoryOK, Tasks
  <1>2. CASE ReadHello(s)
    <2>1. /\ UNCHANGED <<subscribed_topic_api, storeHeld, told, peers>>
          /\ pc'[Api] = pc[Api] /\ local'[Api] = local[Api]
          /\ \A r \in Streams \ {s} : pc'[r] = pc[r] /\ local'[r] = local[r]
      BY <1>1, <1>2 DEF ReadHello, Goto, storeVars, history
    <2>2. subscribed_topic_api # {}
            => pc'[s] = "greet" /\ local'[s].topics = subscribed_topic_api
      BY <1>1, <1>2 DEF ReadHello, Goto, Locals
    <2> QED
      BY <2>1, <2>2 DEF AnnouncedInv, Registered, Covered
  <1>3. CASE SendHello(s)
    <2>1. /\ UNCHANGED <<subscribed_topic_api, storeHeld, peers>>
          /\ pc'[Api] = pc[Api] /\ local'[Api] = local[Api]
          /\ \A r \in Streams \ {s} :
                pc'[r] = pc[r] /\ local'[r] = local[r] /\ told'[r] = told[r]
      BY <1>1, <1>3 DEF SendHello, Return, storeVars
    <2>2. /\ pc[s] = "greet" /\ pc'[s] = "select"
          /\ told'[s] = told[s] \cup local[s].topics
      BY <1>1, <1>3 DEF SendHello, Return
    <2> QED
      BY <2>1, <2>2 DEF AnnouncedInv, Registered, Covered
  <1> QED
    BY <1>2, <1>3

(* The application's calls and its announcements. *)
LEMMA AnnouncedApi ==
    ASSUME TypeOK, AnnouncedInv, ApiCalls \/ AnnounceStep
    PROVE  AnnouncedInv'
  <1>1. /\ pc \in [Tasks -> Labels] /\ local \in [Tasks -> Locals]
        /\ told \in [Streams -> SUBSET Topics] /\ PeerOf \in [Streams -> Peers]
        /\ Streams \subseteq Tasks /\ Api \in Tasks /\ Api \notin Streams
        /\ NoStream \notin Streams
    BY FloodsubAssumption DEF TypeOK, TasksOK, HistoryOK, Tasks
  <1>2. /\ local[Api] \in Locals
    BY <1>1
  <1> USE DEF Goto, history
  <1>3. ASSUME NEW t \in Topics, ApiSubscribe(t) \/ ApiUnsubscribe(t)
        PROVE  AnnouncedInv'
    <2>1. /\ UNCHANGED <<storeHeld, told, peers>>
          /\ local'[Api].topics = {t} /\ pc[Api] = "idle"
          /\ \A r \in Streams : pc'[r] = pc[r] /\ local'[r] = local[r]
      BY <1>1, <1>2, <1>3 DEF ApiSubscribe, ApiUnsubscribe, ApiCall, Locals
    <2>2. \/ /\ pc'[Api] = "announceSub"
             /\ subscribed_topic_api' = subscribed_topic_api \cup {t}
          \/ /\ pc'[Api] = "announceUnsub"
             /\ subscribed_topic_api' = subscribed_topic_api \ {t}
      BY <1>1, <1>3 DEF ApiSubscribe, ApiUnsubscribe
    <2> QED
      BY <2>1, <2>2 DEF AnnouncedInv, Registered, Covered
  <1>4. ASSUME NEW t \in Topics, ApiPublish(t)
        PROVE  AnnouncedInv'
    <2>1. /\ UNCHANGED <<storeHeld, told, peers, subscribed_topic_api>>
          /\ \/ UNCHANGED <<pc, local>>
             \/ pc[Api] = "idle" /\ Panic(Api)
      BY <1>4 DEF ApiPublish, ApiCall
    <2>2. CASE UNCHANGED <<pc, local>>
      BY <2>1, <2>2 DEF AnnouncedInv, Registered, Covered
    <2>3. CASE pc[Api] = "idle" /\ Panic(Api)
      <3>1. pc'[Api] = "panic"
        BY <1>1, <2>3 DEF Panic
      <3> QED
        BY <2>1, <2>3, <3>1 DEF AnnouncedInv
    <2> QED
      BY <2>1, <2>2, <2>3
  <1>5. CASE AnnounceLock
    <2>1. /\ UNCHANGED <<told, peers, subscribed_topic_api>>
          /\ storeHeld'
          /\ local'[Api].topics = local[Api].topics
          /\ local'[Api].targets = {peers[p] : p \in Peers} \ {NoStream}
          /\ \A r \in Streams : pc'[r] = pc[r] /\ local'[r] = local[r]
      BY <1>1, <1>2, <1>5 DEF AnnounceLock, Locals
    <2>2. \/ pc[Api] = "announceSub" /\ pc'[Api] = "sendSub"
          \/ pc[Api] = "announceUnsub" /\ pc'[Api] = "sendUnsub"
      BY <1>1, <1>5 DEF AnnounceLock
    <2>3. \A r \in Streams : Registered(r) => r \in local'[Api].targets
      BY <1>1, <2>1 DEF Registered
    <2>4. storeHeld' <=> pc'[Api] \in {"sendSub", "sendUnsub"}
      BY <2>1, <2>2
    <2>5. pc'[Api] \in {"announceUnsub", "sendUnsub"}
             => local'[Api].topics \cap subscribed_topic_api' = {}
      BY <2>1, <2>2 DEF AnnouncedInv
    <2>6. ASSUME NEW r \in Streams, Registered(r)', NEW t \in subscribed_topic_api'
          PROVE  Covered(t, r)'
      <3>1. Registered(r) /\ r \in local'[Api].targets
        BY <2>1, <2>3, <2>6 DEF Registered
      <3>2. Covered(t, r)
        BY <2>1, <2>2, <2>6, <3>1 DEF AnnouncedInv
      <3> QED
        BY <2>1, <2>2, <3>1, <3>2 DEF Covered
    <2> QED
      BY <2>4, <2>5, <2>6 DEF AnnouncedInv
  <1>6. ASSUME NEW s \in Streams, AnnounceSend(s)
        PROVE  AnnouncedInv'
    <2>1. CASE Goto(Api, "panic") /\ storeHeld' = FALSE
      <3>1. pc'[Api] = "panic"
        BY <1>1, <2>1
      <3> QED
        BY <2>1, <3>1 DEF AnnouncedInv
    <2>2. ASSUME UNCHANGED <<pc, storeHeld>>,
                 told' = [told EXCEPT ![s] = IF pc[Api] = "sendSub"
                                             THEN @ \cup local[Api].topics
                                             ELSE @ \ local[Api].topics],
                 local' = [local EXCEPT ![Api].targets = @ \ {s}]
          PROVE  AnnouncedInv'
      <3>1. /\ UNCHANGED <<peers, subscribed_topic_api>>
            /\ pc[Api] \in {"sendSub", "sendUnsub"}
        BY <1>6 DEF AnnounceSend
      <3>2. /\ local'[Api].topics = local[Api].topics
            /\ local'[Api].targets = local[Api].targets \ {s}
            /\ \A r \in Streams : local'[r] = local[r]
        BY <1>1, <1>2, <2>2 DEF Locals
      <3>3. /\ \A r \in Streams \ {s} : told'[r] = told[r]
            /\ told'[s] = IF pc[Api] = "sendSub" THEN told[s] \cup local[Api].topics
                                                 ELSE told[s] \ local[Api].topics
        BY <1>1, <2>2
      <3>4. ASSUME NEW r \in Streams, Registered(r)', NEW t \in subscribed_topic_api'
            PROVE  Covered(t, r)'
        <4>1. Covered(t, r)
          BY <2>2, <3>1, <3>4 DEF AnnouncedInv, Registered
        <4>2. pc[Api] = "sendUnsub" => t \notin local[Api].topics
          BY <3>1, <3>4 DEF AnnouncedInv
        <4> QED
          BY <2>2, <3>1, <3>2, <3>3, <4>1, <4>2 DEF Covered
      <3> QED
        BY <2>2, <3>1, <3>2, <3>4 DEF AnnouncedInv
    <2> QED
      BY <1>6, <2>1, <2>2 DEF AnnounceSend
  <1>7. CASE AnnounceDone
    <2>1. /\ UNCHANGED <<told, peers, subscribed_topic_api>>
          /\ pc[Api] \in {"sendSub", "sendUnsub"}
          /\ local[Api].targets = {} /\ pc'[Api] = "idle" /\ storeHeld' = FALSE
          /\ \A r \in Streams : pc'[r] = pc[r] /\ local'[r] = local[r]
      BY <1>1, <1>7 DEF AnnounceDone, Return
    <2> QED
      BY <2>1 DEF AnnouncedInv, Registered, Covered
  <1> QED
    BY <1>3, <1>4, <1>5, <1>6, <1>7 DEF ApiCalls, AnnounceStep

(* A greeted peer has been told of every topic of this node, whatever the  *)
(* interleaving of connecting, subscribing and announcing                  *)
(* (handle_new_peer, subscribe, message_all_peers).                        *)
THEOREM AnnouncementsComplete == Spec => []SubscriptionsAnnounced
  <1>1. Init => AnnouncedInv
    BY FloodsubAssumption DEF Init, AnnouncedInv, Registered, Tasks
  <1>2. TypeOK /\ AnnouncedInv /\ [Next]_vars => AnnouncedInv'
    <2> SUFFICES ASSUME TypeOK, AnnouncedInv, [Next]_vars
                 PROVE  AnnouncedInv'
      OBVIOUS
    <2>1. CASE AnnouncedQuietStep
      BY <2>1, AnnouncedQuietSteps, AnnouncedFrame
    <2>2. CASE ~AnnouncedQuietStep
      BY <2>2, AnnouncedHello, AnnouncedApi
         DEF AnnouncedQuietStep, CleanUpStep, Next, HandlerStep, PeerStep, IntStep
    <2> QED
      BY <2>1, <2>2
  <1>3. AnnouncedInv => SubscriptionsAnnounced
    BY DEF AnnouncedInv, SubscriptionsAnnounced, Greeted, Registered, Covered
  <1> QED
    BY <1>1, <1>2, <1>3, TypeCorrect, PTL DEF Spec

-----------------------------------------------------------------------------
(* Frames queued for the internal task. *)
Queued(q, f) == \E i \in 1..Len(q) : q[i] = f

(* What is queued once a frame is added...                                  *)
LEMMA QueuedAppend ==
    ASSUME NEW q \in Seq(Frames), NEW f \in Frames, NEW g \in Frames
    PROVE  Queued(Append(q, g), f) <=> Queued(q, f) \/ f = g
  <1> DEFINE r == Append(q, g)
  <1>1. Len(r) = Len(q) + 1 /\ r[Len(q) + 1] = g /\ \A i \in 1..Len(q) : r[i] = q[i]
    OBVIOUS
  <1>2. Len(q) \in Nat
    OBVIOUS
  <1> QED
    BY <1>1, <1>2 DEF Queued

(* ... and once the first is taken.                                         *)
LEMMA QueuedTail ==
    ASSUME NEW q \in Seq(Frames), q # <<>>, NEW f
    PROVE  /\ Queued(Tail(q), f) => Queued(q, f)
           /\ Queued(q, f) => Queued(Tail(q), f) \/ f = Head(q)
  <1>1. Len(q) \in Nat \ {0} /\ Len(Tail(q)) = Len(q) - 1 /\ Head(q) = q[1]
    OBVIOUS
  <1>2. \A i \in 1..(Len(q) - 1) : Tail(q)[i] = q[i + 1]
    OBVIOUS
  <1>3. ASSUME Queued(Tail(q), f) PROVE Queued(q, f)
    <2>1. PICK i \in 1..(Len(q) - 1) : Tail(q)[i] = f
      BY <1>1, <1>3 DEF Queued
    <2>2. i + 1 \in 1..Len(q) /\ q[i + 1] = f
      BY <1>1, <1>2, <2>1
    <2> QED
      BY <2>2 DEF Queued
  <1>4. ASSUME Queued(q, f), f # Head(q) PROVE Queued(Tail(q), f)
    <2>1. PICK i \in 1..Len(q) : q[i] = f
      BY <1>4 DEF Queued
    <2>2. i - 1 \in 1..(Len(q) - 1) /\ Tail(q)[i - 1] = f
      BY <1>1, <1>2, <1>4, <2>1
    <2> QED
      BY <1>1, <2>2 DEF Queued
  <1> QED
    BY <1>3, <1>4

(* What a step does to the queue. *)
LEMMA QueueStep ==
    ASSUME TypeOK, [Next]_vars, NEW p \in Peers
    PROVE  /\ Queued(floodsub_mpsc, Dead(p)) =>
                 \/ Queued(floodsub_mpsc, Dead(p))'
                 \/ HandleDeadPeers /\ Head(floodsub_mpsc) = Dead(p)
           /\ Queued(floodsub_mpsc, Dead(p))' =>
                 \/ Queued(floodsub_mpsc, Dead(p))
                 \/ \E s \in Streams : Report(s) /\ pc'[s] = "done" /\ PeerOf[s] = p
  <1>1. /\ floodsub_mpsc \in Seq(Frames) /\ Dead(p) \in Frames
        /\ pc \in [Tasks -> Labels] /\ Streams \subseteq Tasks
        /\ PeerOf \in [Streams -> Peers]
        /\ \A q \in Peers : Dead(q) \in Frames /\ (Dead(q) = Dead(p) => q = p)
        /\ \A t \in Topics : Pub(t) \in Frames /\ Pub(t) # Dead(p)
        /\ Dead(p).kind = "dead"
    BY FloodsubAssumption DEF TypeOK, SharedOK, TasksOK, Tasks, Dead, Pub, Frames
  <1>2. CASE UNCHANGED floodsub_mpsc
    BY <1>2 DEF Queued
  <1>3. ASSUME NEW s \in Streams, Report(s)
        PROVE  /\ Queued(floodsub_mpsc, Dead(p)) => Queued(floodsub_mpsc, Dead(p))'
               /\ Queued(floodsub_mpsc, Dead(p))' =>
                    \/ Queued(floodsub_mpsc, Dead(p))
                    \/ pc'[s] = "done" /\ PeerOf[s] = p
    <2>1. CASE UNCHANGED floodsub_mpsc
      BY <2>1 DEF Queued
    <2>2. CASE Goto(s, "done") /\ floodsub_mpsc' = Append(floodsub_mpsc, Dead(PeerOf[s]))
      <3>1. pc'[s] = "done"
        BY <1>1, <2>2 DEF Goto
      <3>2. Queued(floodsub_mpsc', Dead(p))
              <=> Queued(floodsub_mpsc, Dead(p)) \/ Dead(p) = Dead(PeerOf[s])
        BY <1>1, <2>2, QueuedAppend
      <3>3. Queued(floodsub_mpsc', Dead(p)) <=> Queued(floodsub_mpsc, Dead(p))'
        BY DEF Queued
      <3> QED
        BY <1>1, <3>1, <3>2, <3>3
    <2> QED
      BY <1>3, <2>1, <2>2 DEF Report
  <1>4. ASSUME NEW t \in Topics, floodsub_mpsc' = Append(floodsub_mpsc, Pub(t))
        PROVE  Queued(floodsub_mpsc, Dead(p)) <=> Queued(floodsub_mpsc, Dead(p))'
    <2>1. Queued(floodsub_mpsc', Dead(p)) <=> Queued(floodsub_mpsc, Dead(p))
      BY <1>1, <1>4, QueuedAppend
    <2> QED
      BY <2>1 DEF Queued
  <1>5. CASE HandleDeadPeers \/ StartPublish
    <2>1. /\ floodsub_mpsc # <<>> /\ floodsub_mpsc' = Tail(floodsub_mpsc)
          /\ StartPublish => Head(floodsub_mpsc).kind = "publish"
      BY <1>5 DEF HandleDeadPeers, StartPublish
    <2>2. /\ Queued(floodsub_mpsc', Dead(p)) => Queued(floodsub_mpsc, Dead(p))
          /\ Queued(floodsub_mpsc, Dead(p)) =>
                Queued(floodsub_mpsc', Dead(p)) \/ Dead(p) = Head(floodsub_mpsc)
      BY <1>1, <2>1, QueuedTail
    <2>3. Queued(floodsub_mpsc', Dead(p)) <=> Queued(floodsub_mpsc, Dead(p))'
      BY DEF Queued
    <2> QED
      BY <1>1, <1>5, <2>1, <2>2, <2>3
  <1>6. \/ UNCHANGED floodsub_mpsc
        \/ \E s \in Streams : Report(s)
        \/ \E t \in Topics : floodsub_mpsc' = Append(floodsub_mpsc, Pub(t))
        \/ HandleDeadPeers \/ StartPublish
    <2>1. CASE UNCHANGED vars
      BY <2>1 DEF vars
    <2>2. ASSUME NEW s \in Streams, HandlerStep(s)
          PROVE  UNCHANGED floodsub_mpsc \/ Report(s)
      BY <2>2 DEF HandlerStep, ReadHello, SendHello, Drain, Consume, CheckSeen, Notify,
                  Route, Lookup, Send
    <2>3. ASSUME NEW s \in Streams, PeerStep(s)
          PROVE  UNCHANGED floodsub_mpsc
      BY <2>3 DEF PeerStep, Open, RecvSub, RecvUnsub, RecvPublish, Receive, StreamEnds
    <2>4. CASE IntStep
      BY <2>4 DEF IntStep, Route, Lookup, Send
    <2>5. CASE AnnounceStep
      BY <2>5 DEF AnnounceStep, AnnounceLock, AnnounceSend, AnnounceDone
    <2>6. CASE ApiCalls
      BY <2>6 DEF ApiCalls, ApiSubscribe, ApiUnsubscribe, ApiPublish
    <2>7. CASE CleanUpStep
      BY <2>7, CleanUpLeaves
    <2> QED
      BY <2>1, <2>2, <2>3, <2>4, <2>5, <2>6, <2>7 DEF Next, CleanUpStep
  <1> QED
    BY <1>2, <1>3, <1>4, <1>5, <1>6

(* What a step does to the map of peers and to the handlers' labels. *)
LEMMA RegistryStep ==
    ASSUME TypeOK, [Next]_vars, NEW s \in Streams
    PROVE  /\ peers'[PeerOf[s]] # peers[PeerOf[s]] =>
                \/ \E r \in Streams : Open(r) /\ PeerOf[r] = PeerOf[s]
                \/ HandleDeadPeers /\ Head(floodsub_mpsc) = Dead(PeerOf[s])
           /\ pc[s] \in {"done", "panic"} => pc'[s] = pc[s]
           /\ pc[s] = "none" => pc'[s] = "none" \/ Open(s)
           /\ pc'[s] = "none" => pc[s] = "none"
           /\ pc'[s] = "done" /\ pc[s] # "done" => Report(s) /\ ~IntDown
  <1>1. /\ pc \in [Tasks -> Labels] /\ local \in [Tasks -> Locals]
        /\ Streams \subseteq Tasks /\ Int \in Tasks /\ Api \in Tasks
        /\ Int \notin Streams /\ Api \notin Streams
        /\ peers \in [Peers -> Streams \cup {NoStream}] /\ PeerOf \in [Streams -> Peers]
        /\ floodsub_mpsc \in Seq(Frames)
    BY FloodsubAssumption DEF TypeOK, TasksOK, StoreOK, SharedOK, Tasks
  <1> DEFINE Goal ==
           /\ peers'[PeerOf[s]] # peers[PeerOf[s]] =>
                \/ \E r \in Streams : Open(r) /\ PeerOf[r] = PeerOf[s]
                \/ HandleDeadPeers /\ Head(floodsub_mpsc) = Dead(PeerOf[s])
           /\ pc[s] \in {"done", "panic"} => pc'[s] = pc[s]
           /\ pc[s] = "none" => pc'[s] = "none" \/ Open(s)
           /\ pc'[s] = "none" => pc[s] = "none"
           /\ pc'[s] = "done" /\ pc[s] # "done" => Report(s) /\ ~IntDown
  <1> USE DEF Goto, Return, Panic, storeVars
  <1>2. CASE UNCHANGED vars
    BY <1>2 DEF vars
  <1>3. ASSUME NEW r \in Streams, ReadHello(r) \/ SendHello(r) \/ Drain(r)
        PROVE  Goal
    BY <1>1, <1>3 DEF ReadHello, SendHello, Drain
  <1>4. ASSUME NEW r \in Streams, Consume(r) \/ CheckSeen(r) \/ \E t \in Topics : Notify(r, t)
        PROVE  Goal
    BY <1>1, <1>4 DEF Consume, CheckSeen, Notify
  <1>5. ASSUME NEW k \in Streams \cup {Int},
               Route(k) \/ Send(k) \/ \E p \in Peers : Lookup(k, p)
        PROVE  Goal
    BY <1>1, <1>5 DEF Route, Send, Lookup
  <1>6. ASSUME NEW r \in Streams, Report(r) \/ StreamEnds(r)
        PROVE  Goal
    BY <1>1, <1>6 DEF Report, StreamEnds
  <1>7. ASSUME NEW r \in Streams,
               \/ \E t \in Topics : RecvSub(r, t) \/ RecvUnsub(r, t)
               \/ \E m \in Inbound : RecvPublish(r, m)
        PROVE  Goal
    BY <1>1, <1>7 DEF RecvSub, RecvUnsub, RecvPublish, Receive
  <1>8. ASSUME NEW r \in Streams, Open(r)
        PROVE  Goal
    <2>1. peers'[PeerOf[s]] # peers[PeerOf[s]] => PeerOf[r] = PeerOf[s]
      BY <1>1, <1>8 DEF Open, Register
    <2>2. \A x \in Streams : IF x = r THEN pc[x] = "none" /\ pc'[x] = "hello"
                                     ELSE pc'[x] = pc[x]
      BY <1>1, <1>8 DEF Open
    <2> QED
      BY <1>8, <2>1, <2>2
  <1>9. CASE HandleDeadPeers
    <2>1. floodsub_mpsc # <<>> /\ Head(floodsub_mpsc).kind = "dead"
          /\ peers' = [peers EXCEPT ![Head(floodsub_mpsc).peer] = NoStream] /\ UNCHANGED pc
      BY <1>9 DEF HandleDeadPeers
    <2>2. Head(floodsub_mpsc) = Dead(Head(floodsub_mpsc).peer)
      <3>1. Head(floodsub_mpsc) \in Frames
        BY <1>1, <2>1
      <3> QED
        BY <2>1, <3>1 DEF Frames, Dead
    <2> QED
      BY <1>1, <1>9, <2>1, <2>2
  <1>10. CASE StartPublish
    BY <1>1, <1>10 DEF StartPublish
  <1>11. CASE ApiCalls
    BY <1>1, <1>11 DEF ApiCalls, ApiSubscribe, ApiUnsubscribe, ApiPublish, ApiCall
  <1>12. CASE AnnounceStep
    BY <1>1, <1>12 DEF AnnounceStep, AnnounceLock, AnnounceSend, AnnounceDone
  <1>13. CASE CleanUpStep
    BY <1>13, CleanUpLeaves
  <1> QED
    BY <1>2, <1>3, <1>4, <1>5, <1>6, <1>7, <1>8, <1>9, <1>10, <1>11, <1>12, <1>13
       DEF CleanUpStep, Next, HandlerStep, PeerStep, IntStep

(* An entry of the map never points to a handler that has returned without *)
(* a report of its end being queued, however often the peer comes back     *)
(* (stream_handler, handle_dead_peers).                                    *)
THEOREM EndsAreReported == Spec => []EndIsReported
  <1>1. Init => EndIsReported
    BY FloodsubAssumption DEF Init, EndIsReported, Tasks
  <1>2. TypeOK /\ EndIsReported /\ [Next]_vars => EndIsReported'
    <2> SUFFICES ASSUME TypeOK, EndIsReported, [Next]_vars,
                        NEW s \in Streams, pc'[s] = "done", peers'[PeerOf[s]] = s
                 PROVE  Queued(floodsub_mpsc, Dead(PeerOf[s]))'
      BY DEF EndIsReported, Queued
    <2>1. /\ PeerOf[s] \in Peers /\ NoStream # s /\ s \in Tasks
          /\ peers \in [Peers -> Streams \cup {NoStream}]
          /\ pc \in [Tasks -> Labels] /\ Streams \subseteq Tasks
          /\ floodsub_mpsc \in Seq(Frames)
      BY FloodsubAssumption DEF TypeOK, StoreOK, SharedOK, TasksOK, Tasks
    <2>2. CASE pc[s] = "done" /\ peers[PeerOf[s]] = s
      <3>1. Queued(floodsub_mpsc, Dead(PeerOf[s]))
        BY <2>2 DEF EndIsReported, Queued
      <3>2. ~(HandleDeadPeers /\ Head(floodsub_mpsc) = Dead(PeerOf[s]))
        BY <2>1 DEF HandleDeadPeers, Dead
      <3> QED
        BY <2>1, <3>1, <3>2, QueueStep
    <2>3. CASE pc[s] = "done" /\ peers[PeerOf[s]] # s
      <3>1. CASE \E r \in Streams : Open(r) /\ PeerOf[r] = PeerOf[s]
        <4>1. PICK r \in Streams : Open(r) /\ PeerOf[r] = PeerOf[s]
          BY <3>1
        <4>2. peers'[PeerOf[s]] = r /\ pc'[r] = "hello"
          BY <2>1, <4>1 DEF Open, Register, Goto
        <4> QED
          BY <4>2
      <3>2. CASE HandleDeadPeers /\ Head(floodsub_mpsc) = Dead(PeerOf[s])
        BY <2>1, <3>2 DEF HandleDeadPeers, Dead
      <3> QED
        BY <2>3, <3>1, <3>2, RegistryStep
    <2>4. CASE pc[s] # "done"
      <3>1. Report(s) /\ ~IntDown
        BY <2>4, RegistryStep
      <3>2. floodsub_mpsc' = Append(floodsub_mpsc, Dead(PeerOf[s]))
        BY <3>1 DEF Report
      <3>3. Dead(PeerOf[s]) \in Frames
        BY <2>1 DEF Dead, Frames
      <3>4. Queued(floodsub_mpsc', Dead(PeerOf[s]))
        BY <2>1, <3>2, <3>3, QueuedAppend
      <3> QED
        BY <3>4 DEF Queued
    <2> QED
      BY <2>2, <2>3, <2>4
  <1> QED
    BY <1>1, <1>2, TypeCorrect, PTL DEF Spec

-----------------------------------------------------------------------------
(* While every peer connects on one stream only, the map of peers and the  *)
(* running handlers agree, and so do the maps of topics and peers.         *)
OneStreamPerPeer == \A s1, s2 \in Streams : PeerOf[s1] = PeerOf[s2] => s1 = s2

TrackedInv ==
    /\ LivePeersTracked
    /\ \A s \in Streams : Queued(floodsub_mpsc, Dead(PeerOf[s])) => pc[s] = "done"
    /\ RoutablePeers

(* Every step leaves running handlers in the map of peers.                  *)
LEMMA TrackedStep ==
    ASSUME OneStreamPerPeer, TypeOK, TrackedInv, [Next]_vars
    PROVE  TrackedInv'
  <1>1. /\ PeerOf \in [Streams -> Peers] /\ NoStream \notin Streams
        /\ peers \in [Peers -> Streams \cup {NoStream}]
        /\ peer_topics \in [Topics -> SUBSET Peers]
        /\ pc \in [Tasks -> Labels] /\ Streams \subseteq Tasks
    BY FloodsubAssumption DEF TypeOK, StoreOK, TasksOK, Tasks
  <1>2. ASSUME NEW s \in Streams, pc'[s] \notin {"none", "done", "panic"}
        PROVE  peers'[PeerOf[s]] = s
    <2>1. CASE Open(s)
      BY <1>1, <2>1 DEF Open, Register
    <2>2. CASE ~Open(s)
      <3>1. pc[s] \notin {"none", "done", "panic"} /\ peers[PeerOf[s]] = s
        BY <1>2, <2>2, RegistryStep DEF TrackedInv, LivePeersTracked
      <3>2. ~\E r \in Streams : Open(r) /\ PeerOf[r] = PeerOf[s]
        BY <2>2 DEF OneStreamPerPeer
      <3>3. ~(HandleDeadPeers /\ Head(floodsub_mpsc) = Dead(PeerOf[s]))
        <4> SUFFICES ASSUME HandleDeadPeers, Head(floodsub_mpsc) = Dead(PeerOf[s])
                     PROVE  FALSE
          OBVIOUS
        <4>1. floodsub_mpsc # <<>> /\ floodsub_mpsc \in Seq(Frames)
          BY DEF HandleDeadPeers, TypeOK, SharedOK
        <4>2. Len(floodsub_mpsc) \in Nat \ {0} /\ floodsub_mpsc[1] = Dead(PeerOf[s])
          BY <4>1
        <4>3. Queued(floodsub_mpsc, Dead(PeerOf[s]))
          BY <4>2 DEF Queued
        <4> QED
          BY <3>1, <4>3 DEF TrackedInv
      <3> QED
        BY <3>1, <3>2, <3>3, RegistryStep
    <2> QED
      BY <2>1, <2>2
  <1>3. ASSUME NEW s \in Streams, Queued(floodsub_mpsc, Dead(PeerOf[s]))'
        PROVE  pc'[s] = "done"
    <2>1. CASE Queued(floodsub_mpsc, Dead(PeerOf[s]))
      BY <2>1, RegistryStep DEF TrackedInv
    <2>2. CASE ~Queued(floodsub_mpsc, Dead(PeerOf[s]))
      <3>1. PeerOf[s] \in Peers
        BY <1>1
      <3>2. PICK r \in Streams : pc'[r] = "done" /\ PeerOf[r] = PeerOf[s]
        BY <1>3, <2>2, <3>1, QueueStep
      <3> QED
        BY <3>2 DEF OneStreamPerPeer
    <2> QED
      BY <2>1, <2>2
  <1>4. ASSUME NEW t \in Topics, NEW p \in peer_topics'[t]
        PROVE  peers'[p] # NoStream
    <2> USE DEF storeVars, TrackedInv, RoutablePeers
    <2>1. CASE UNCHANGED vars
      BY <1>4, <2>1 DEF vars
    <2>2. ASSUME NEW s \in Streams, HandlerStep(s)
          PROVE  peers'[p] # NoStream
      BY <1>4, <2>2 DEF HandlerStep, ReadHello, SendHello, Drain, Consume, CheckSeen, Notify,
                        Route, Lookup, Send, Report
    <2>3. ASSUME NEW s \in Streams, Open(s)
          PROVE  peers'[p] # NoStream
      <3>1. UNCHANGED peer_topics /\ peers[p] # NoStream /\ p \in Peers
        BY <1>1, <1>4, <2>3 DEF Open
      <3> QED
        BY <1>1, <2>3, <3>1 DEF Open, Register
    <2>4. ASSUME NEW s \in Streams, NEW u \in Topics, RecvSub(s, u) \/ RecvUnsub(s, u)
          PROVE  peers'[p] # NoStream
      <3>1. UNCHANGED peers /\ pc[s] = "select"
        BY <2>4 DEF RecvSub, RecvUnsub, Receive
      <3>2. peers[PeerOf[s]] # NoStream
        BY <1>1, <3>1 DEF LivePeersTracked
      <3>3. p \in peer_topics[t] \/ p = PeerOf[s]
        BY <1>1, <1>4, <2>4 DEF RecvSub, RecvUnsub
      <3> QED
        BY <3>1, <3>2, <3>3
    <2>5. ASSUME NEW s \in Streams,
                 StreamEnds(s) \/ \E m \in Inbound : RecvPublish(s, m)
          PROVE  peers'[p] # NoStream
      BY <1>4, <2>5 DEF StreamEnds, RecvPublish, Receive
    <2>6. CASE HandleDeadPeers
      <3> DEFINE d == Head(floodsub_mpsc).peer
      <3>1. /\ peers' = [peers EXCEPT ![d] = NoStream]
            /\ peer_topics' = IF peers[d] = NoStream THEN peer_topics
                              ELSE [u \in Topics |-> peer_topics[u] \ {d}]
        BY <2>6 DEF HandleDeadPeers, TopicsWithout
      <3>2. p \in peer_topics[t] /\ peers[p] # NoStream /\ p # d
        BY <1>1, <1>4, <3>1
      <3> QED
        BY <1>1, <3>1, <3>2
    <2>7. CASE StartPublish \/ Route(Int) \/ Send(Int) \/ \E q \in Peers : Lookup(Int, q)
      BY <1>4, <2>7 DEF StartPublish, Route, Send, Lookup
    <2>8. CASE ApiCalls \/ AnnounceStep
      BY <1>4, <2>8 DEF ApiCalls, ApiSubscribe, ApiUnsubscribe, ApiPublish, ApiCall,
                        AnnounceStep, AnnounceLock, AnnounceSend, AnnounceDone
    <2>9. CASE CleanUpStep
      BY <1>4, <2>9, CleanUpLeaves
    <2> QED
      BY <2>1, <2>2, <2>3, <2>4, <2>5, <2>6, <2>7, <2>8, <2>9
         DEF CleanUpStep, Next, PeerStep, IntStep
  <1> QED
    BY <1>2, <1>3, <1>4 DEF TrackedInv, LivePeersTracked, RoutablePeers

(* At the start no handler runs.                                            *)
LEMMA TrackedInit ==
    ASSUME Init
    PROVE  TrackedInv
  BY FloodsubAssumption DEF Init, TrackedInv, LivePeersTracked, RoutablePeers, Queued, Tasks

(* A running handler owns its peer's entry (handle_new_peer,               *)
(* handle_dead_peers).                                                     *)
THEOREM PeersStayTracked ==
    ASSUME OneStreamPerPeer
    PROVE  Spec => []LivePeersTracked
  <1>1. TrackedInv => LivePeersTracked
    BY DEF TrackedInv
  <1>2. TypeOK /\ TrackedInv /\ [Next]_vars => TrackedInv'
    BY TrackedStep
  <1> QED
    BY <1>1, <1>2, TrackedInit, TypeCorrect, PTL DEF Spec

(* Every peer announced for a topic has an entry (handle_subopts,          *)
(* handle_dead_peers, get_peers_to_send).                                  *)
THEOREM TopicsStayRoutable ==
    ASSUME OneStreamPerPeer
    PROVE  Spec => []RoutablePeers
  <1>1. TrackedInv => RoutablePeers
    BY DEF TrackedInv
  <1>2. TypeOK /\ TrackedInv /\ [Next]_vars => TrackedInv'
    BY TrackedStep
  <1> QED
    BY <1>1, <1>2, TrackedInit, TypeCorrect, PTL DEF Spec

-----------------------------------------------------------------------------
(* While no stream has ended and no topic has been given up, nothing is    *)
(* removed from the store, so what a task has read stays true and every    *)
(* unwrap finds what it looks for.                                         *)
Calm == ~unsubscribed /\ \A s \in Streams : pc[s] # "done"

Writers == Streams \cup {Int}

StoreKnown ==
    /\ \A p \in Peers : ~Queued(floodsub_mpsc, Dead(p))
    /\ RoutablePeers
    /\ \A s \in Streams : pc[s] # "none" => peers[PeerOf[s]] # NoStream

TasksKnow ==
    /\ \A k \in Tasks : pc[k] # "panic"
    /\ \A k \in Writers : pc[k] \in {"lookup", "send"} =>
          \A p \in local[k].targets : p \in Peers /\ peers[p] # NoStream
    /\ \A k \in Writers : pc[k] = "send" => local[k].dest \in Streams
    /\ \A s \in Streams : pc[s] = "consume" => subscribed_topic_api # {}
    /\ \A s \in Streams : pc[s] \in {"seen", "notify"} =>
          local[s].topics \subseteq subscribed_topic_api

CalmInv == Calm => StoreKnown /\ TasksKnow

(* Under these facts a step removes nothing from the store. *)
LEMMA CalmStore ==
    ASSUME TypeOK, StoreKnown, TasksKnow, [Next]_vars, Calm'
    PROVE  /\ StoreKnown'
           /\ \A p \in Peers : peers[p] # NoStream => peers'[p] # NoStream
           /\ subscribed_topic_api \subseteq subscribed_topic_api'
           /\ ~HandleDeadPeers
  <1>1. /\ PeerOf \in [Streams -> Peers] /\ NoStream \notin Streams
        /\ peers \in [Peers -> Streams \cup {NoStream}]
        /\ peer_topics \in [Topics -> SUBSET Peers]
        /\ pc \in [Tasks -> Labels] /\ Streams \subseteq Tasks
        /\ floodsub_mpsc \in Seq(Frames)
    BY FloodsubAssumption DEF TypeOK, StoreOK, SharedOK, TasksOK, Tasks
  <1>2. ~HandleDeadPeers
    <2> SUFFICES ASSUME HandleDeadPeers PROVE FALSE
      OBVIOUS
    <2>1. /\ floodsub_mpsc # <<>> /\ Head(floodsub_mpsc).kind = "dead"
          /\ Head(floodsub_mpsc) \in Frames
      BY <1>1 DEF HandleDeadPeers
    <2>2. Head(floodsub_mpsc).peer \in Peers
          /\ Head(floodsub_mpsc) = Dead(Head(floodsub_mpsc).peer)
      BY <2>1 DEF Frames, Dead
    <2>3. Len(floodsub_mpsc) \in Nat \ {0} /\ floodsub_mpsc[1] = Head(floodsub_mpsc)
      BY <1>1, <2>1
    <2>4. Queued(floodsub_mpsc, Dead(Head(floodsub_mpsc).peer))
      BY <2>2, <2>3 DEF Queued
    <2> QED
      BY <2>2, <2>4 DEF StoreKnown
  <1>3. \/ UNCHANGED peers
        \/ \E s \in Streams : Open(s)
    <2>1. ASSUME NEW s \in Streams, HandlerStep(s)
          PROVE  UNCHANGED peers
      BY <2>1 DEF HandlerStep, ReadHello, SendHello, Drain, Consume, CheckSeen, Notify,
                  Route, Lookup, Send, Report, storeVars
    <2>2. ASSUME NEW s \in Streams, PeerStep(s)
          PROVE  UNCHANGED peers \/ Open(s)
      BY <2>2 DEF PeerStep, RecvSub, RecvUnsub, RecvPublish, Receive, StreamEnds, storeVars
    <2>3. CASE IntStep
      BY <1>2, <2>3 DEF IntStep, StartPublish, Route, Lookup, Send, storeVars
    <2>4. CASE ApiCalls \/ AnnounceStep
      BY <2>4 DEF ApiCalls, ApiSubscribe, ApiUnsubscribe, ApiPublish, ApiCall,
                  AnnounceStep, AnnounceLock, AnnounceSend, AnnounceDone
    <2>5. CASE UNCHANGED vars \/ CleanUpStep
      BY <2>5, CleanUpLeaves DEF vars
    <2> QED
      BY <2>1, <2>2, <2>3, <2>4, <2>5 DEF CleanUpStep, Next
  <1>4. \A p \in Peers : peers[p] # NoStream => peers'[p] # NoStream
    BY <1>1, <1>3 DEF Open, Register
  <1>5. subscribed_topic_api \subseteq subscribed_topic_api'
    <2>1. ASSUME NEW s \in Streams, HandlerStep(s)
          PROVE  UNCHANGED subscribed_topic_api
      BY <2>1 DEF HandlerStep, ReadHello, SendHello, Drain, Consume, CheckSeen, Notify,
                  Route, Lookup, Send, Report, storeVars
    <2>2. ASSUME NEW s \in Streams, PeerStep(s)
          PROVE  UNCHANGED subscribed_topic_api
      BY <2>2 DEF PeerStep, Open, RecvSub, RecvUnsub, RecvPublish, Receive, StreamEnds, storeVars
    <2>3. CASE IntStep
      BY <1>2, <2>3 DEF IntStep, StartPublish, Route, Lookup, Send, storeVars
    <2>4. CASE ApiCalls
      BY <2>4 DEF ApiCalls, ApiSubscribe, ApiUnsubscribe, ApiPublish, ApiCall, Calm
    <2>5. CASE AnnounceStep
      BY <2>5 DEF AnnounceStep, AnnounceLock, AnnounceSend, AnnounceDone
    <2>6. CASE UNCHANGED vars \/ CleanUpStep
      BY <2>6, CleanUpLeaves DEF vars
    <2> QED
      BY <2>1, <2>2, <2>3, <2>4, <2>5, <2>6 DEF CleanUpStep, Next
  <1>6. \A p \in Peers : ~Queued(floodsub_mpsc, Dead(p))'
    BY QueueStep DEF StoreKnown, Calm
  <1>7. \A s \in Streams : pc'[s] # "none" => peers'[PeerOf[s]] # NoStream
    <2> SUFFICES ASSUME NEW s \in Streams, pc'[s] # "none"
                 PROVE  peers'[PeerOf[s]] # NoStream
      OBVIOUS
    <2>1. CASE Open(s)
      BY <1>1, <2>1 DEF Open, Register
    <2>2. CASE ~Open(s)
      <3>1. pc[s] # "none"
        BY <2>2, RegistryStep
      <3> QED
        BY <1>1, <1>4, <3>1 DEF StoreKnown
    <2> QED
      BY <2>1, <2>2
  <1>8. RoutablePeers'
    <2> SUFFICES ASSUME NEW t \in Topics, NEW p \in peer_topics'[t]
                 PROVE  peers'[p] # NoStream
      BY DEF RoutablePeers
    <2>1. p \in peer_topics[t] \/ \E s \in Streams : (p = PeerOf[s] /\ pc[s] # "none")
      <3>1. CASE UNCHANGED peer_topics
        BY <3>1
      <3>2. ASSUME NEW s \in Streams, NEW u \in Topics, RecvSub(s, u) \/ RecvUnsub(s, u)
            PROVE  p \in peer_topics[t] \/ (p = PeerOf[s] /\ pc[s] # "none")
        BY <1>1, <3>2 DEF RecvSub, RecvUnsub, Receive
      <3>3. ASSUME NEW s \in Streams, HandlerStep(s)
            PROVE  UNCHANGED peer_topics
        BY <3>3 DEF HandlerStep, ReadHello, SendHello, Drain, Consume, CheckSeen, Notify,
                    Route, Lookup, Send, Report, storeVars
      <3>4. ASSUME NEW s \in Streams,
                   Open(s) \/ StreamEnds(s) \/ \E m \in Inbound : RecvPublish(s, m)
            PROVE  UNCHANGED peer_topics
        BY <3>4 DEF Open, RecvPublish, StreamEnds, storeVars
      <3>5. CASE IntStep
        BY <1>2, <3>5 DEF IntStep, StartPublish, Route, Lookup, Send, storeVars
      <3>6. CASE ApiCalls \/ AnnounceStep
        BY <3>6 DEF ApiCalls, ApiSubscribe, ApiUnsubscribe, ApiPublish, ApiCall,
                    AnnounceStep, AnnounceLock, AnnounceSend, AnnounceDone
      <3>7. CASE UNCHANGED vars \/ CleanUpStep
        BY <3>7, CleanUpLeaves DEF vars
      <3> QED
        BY <3>1, <3>2, <3>3, <3>4, <3>5, <3>6, <3>7 DEF CleanUpStep, Next, PeerStep
    <2> QED
      BY <1>1, <1>4, <2>1 DEF StoreKnown, RoutablePeers
  <1> QED
    BY <1>2, <1>4, <1>5, <1>6, <1>7, <1>8 DEF StoreKnown

(* A task that did not move knows what it knew. *)
Still(k) == pc'[k] = pc[k] /\ local'[k] = local[k]

KnowsTask(k) ==
    /\ pc[k] # "panic"
    /\ k \in Writers /\ pc[k] \in {"lookup", "send"} =>
          \A p \in local[k].targets : p \in Peers /\ peers[p] # NoStream
    /\ k \in Writers /\ pc[k] = "send" => local[k].dest \in Streams
    /\ k \in Streams /\ pc[k] = "consume" => subscribed_topic_api # {}
    /\ k \in Streams /\ pc[k] \in {"seen", "notify"} =>
          local[k].topics \subseteq subscribed_topic_api

(* What all tasks know, task by task.                                       *)
LEMMA KnowsParts == TasksKnow <=> \A k \in Tasks : KnowsTask(k)
  BY DEF TasksKnow, KnowsTask, Writers, Tasks

(* The steps of publish and write_msg. *)
LEMMA WritesKnow ==
    ASSUME TypeOK, StoreKnown, TasksKnow, [Next]_vars, Calm', NEW k \in Writers,
           Route(k) \/ Send(k) \/ \E p \in Peers : Lookup(k, p)
    PROVE  KnowsTask(k)' /\ \A r \in Tasks \ {k} : Still(r)
  <1>1. /\ pc \in [Tasks -> Labels] /\ local \in [Tasks -> Locals]
        /\ k \in Tasks /\ local[k] \in Locals
        /\ peers \in [Peers -> Streams \cup {NoStream}]
        /\ peer_topics \in [Topics -> SUBSET Peers]
        /\ \A s \in Streams : s \in Tasks
    BY DEF TypeOK, StoreOK, TasksOK, Tasks, Writers
  <1>2. \A p \in Peers : peers[p] # NoStream => peers'[p] # NoStream
    BY CalmStore
  <1>3. \A s \in Streams : pc[s] \notin {"done", "panic"}
    BY <1>1, RegistryStep DEF TasksKnow, Calm
  <1> USE DEF Goto, Return, Panic, KnowsTask, Still
  <1>4. CASE Return(k)
    BY <1>1, <1>4
  <1>5. CASE Route(k)
    <2>1. ASSUME Goto(k, "lookup"),
                 local' = [local EXCEPT ![k].targets = GetPeersToSend(local[k].msg, Forwarder(k))]
          PROVE  KnowsTask(k)' /\ \A r \in Tasks \ {k} : Still(r)
      <3>1. /\ pc'[k] = "lookup"
            /\ local'[k].targets = GetPeersToSend(local[k].msg, Forwarder(k))
            /\ \A r \in Tasks \ {k} : Still(r)
        BY <1>1, <2>1 DEF Locals
      <3>2. \A t \in local[k].msg.topics : t \in Topics
        BY <1>1, FloodsubAssumption DEF Locals, Messages, OwnMsg, NoMsg
      <3>3. \A p \in GetPeersToSend(local[k].msg, Forwarder(k)) :
               p \in Peers /\ peers[p] # NoStream
        BY <1>1, <3>2 DEF GetPeersToSend, StoreKnown, RoutablePeers
      <3> QED
        BY <1>2, <3>1, <3>3
    <2> QED
      BY <1>4, <1>5, <2>1 DEF Route
  <1>6. ASSUME NEW p \in Peers, Lookup(k, p)
        PROVE  KnowsTask(k)' /\ \A r \in Tasks \ {k} : Still(r)
    <2>1. peers[p] # NoStream
      BY <1>6 DEF Lookup, TasksKnow
    <2>2. /\ pc'[k] = "send" /\ local'[k].targets = local[k].targets \ {p}
          /\ local'[k].dest = peers[p]
          /\ \A r \in Tasks \ {k} : Still(r)
      BY <1>1, <1>6, <2>1 DEF Lookup, Locals
    <2>3. \A q \in local[k].targets : q \in Peers /\ peers[q] # NoStream
      BY <1>6 DEF Lookup, TasksKnow
    <2> QED
      BY <1>1, <1>2, <2>1, <2>2, <2>3
  <1>7. CASE Send(k)
    <2>1. local[k].dest \in Streams
      BY <1>7 DEF Send, TasksKnow
    <2>2. ~Closed(local[k].dest)
      BY <1>3, <2>1 DEF Closed
    <2>3. \A q \in local[k].targets : q \in Peers /\ peers[q] # NoStream
      BY <1>7 DEF Send, TasksKnow
    <2>4. CASE Goto(k, "lookup") /\ UNCHANGED local
      BY <1>1, <1>2, <2>3, <2>4
    <2> QED
      BY <1>4, <1>7, <2>2, <2>4 DEF Send
  <1> QED
    BY <1>5, <1>6, <1>7

(* No task panics in the absence of ended streams.                          *)
LEMMA CalmTasks ==
    ASSUME TypeOK, StoreKnown, TasksKnow, [Next]_vars, Calm'
    PROVE  TasksKnow'
  <1>1. /\ PeerOf \in [Streams -> Peers] /\ NoStream \notin Streams
        /\ peers \in [Peers -> Streams \cup {NoStream}]
        /\ peer_topics \in [Topics -> SUBSET Peers]
        /\ pc \in [Tasks -> Labels] /\ local \in [Tasks -> Locals]
        /\ Streams \subseteq Tasks /\ Int \in Tasks /\ Api \in Tasks
        /\ Int \notin Streams /\ Api \notin Writers
        /\ \A k \in Tasks : local[k] \in Locals
    BY FloodsubAssumption DEF TypeOK, StoreOK, TasksOK, Tasks, Writers
  <1>2. /\ \A p \in Peers : peers[p] # NoStream => peers'[p] # NoStream
        /\ subscribed_topic_api \subseteq subscribed_topic_api'
        /\ ~HandleDeadPeers
    BY CalmStore
  <1>3. \A k \in Tasks : KnowsTask(k)
    BY KnowsParts
  <1>4. ASSUME NEW k \in Tasks, Still(k)
        PROVE  KnowsTask(k)'
    BY <1>2, <1>3, <1>4 DEF KnowsTask, Still
  <1>5. \A s \in Streams : pc[s] \notin {"done", "panic"}
    BY <1>1, RegistryStep DEF TasksKnow, Calm
  <1> USE DEF Goto, Return
  <1>6. ASSUME NEW s \in Streams, HandlerStep(s) \/ PeerStep(s)
        PROVE  \A k \in Tasks : KnowsTask(k)'
    <2>1. s \in Tasks /\ local[s] \in Locals /\ s \in Writers
      BY <1>1 DEF Writers
    <2>2. ASSUME NEW k \in Tasks \ {s}
          PROVE  Still(k)
      BY <1>1, <1>6, <2>1 DEF Still, HandlerStep, PeerStep, ReadHello, SendHello, Drain, Consume,
         CheckSeen, Notify, Route, Lookup, Send, Report, Open, RecvSub, RecvUnsub, RecvPublish,
         Receive, StreamEnds, Panic
    <2>3. KnowsTask(s)'
      <3>1. CASE Open(s) \/ ReadHello(s) \/ SendHello(s) \/ StreamEnds(s) \/ Report(s)
        <4>1. ~IntDown
          BY <1>1 DEF TasksKnow, IntDown
        <4>2. pc'[s] \in {"hello", "greet", "select", "report", "done"}
          BY <2>1, <1>1, <3>1, <4>1 DEF Open, ReadHello, SendHello, StreamEnds, Report
        <4> QED
          BY <4>2 DEF KnowsTask
      <3>2. ASSUME NEW t \in Topics, RecvSub(s, t) \/ RecvUnsub(s, t)
            PROVE  KnowsTask(s)'
        BY <1>4, <2>1, <3>2 DEF RecvSub, RecvUnsub, Still
      <3>3. CASE Drain(s)
        BY <1>4, <2>1, <3>3 DEF Drain, Still
      <3>4. ASSUME NEW m \in Inbound, RecvPublish(s, m)
            PROVE  KnowsTask(s)'
        <4>1. CASE UNCHANGED <<pc, local>>
          BY <1>4, <2>1, <4>1 DEF Still
        <4>2. CASE Goto(s, "consume") /\ m.topics \cap subscribed_topic_api # {}
          <5>1. pc'[s] = "consume" /\ subscribed_topic_api' # {}
            BY <1>1, <1>2, <2>1, <4>2
          <5> QED
            BY <5>1 DEF KnowsTask
        <4> QED
          BY <3>4, <4>1, <4>2 DEF RecvPublish
      <3>5. CASE Consume(s)
        <4>1. subscribed_topic_api # {}
          BY <2>1, <3>5 DEF Consume, TasksKnow
        <4>2. CASE Return(s)
          BY <1>1, <2>1, <4>2 DEF KnowsTask
        <4>3. CASE Goto(s, "seen") /\ local' = [local EXCEPT ![s].topics =
                                        local[s].msg.topics \cap subscribed_topic_api]
          <5>1. pc'[s] = "seen"
                /\ local'[s].topics = local[s].msg.topics \cap subscribed_topic_api
            BY <1>1, <2>1, <4>3 DEF Locals
          <5> QED
            BY <1>2, <5>1 DEF KnowsTask
        <4> QED
          BY <3>5, <4>1, <4>2, <4>3 DEF Consume
      <3>6. CASE CheckSeen(s)
        <4>1. CASE Return(s)
          BY <1>1, <2>1, <4>1 DEF KnowsTask
        <4>2. CASE Goto(s, IF local[s].topics = {} THEN "route" ELSE "notify") /\ UNCHANGED local
          <5>1. local[s].topics \subseteq subscribed_topic_api
            BY <3>6 DEF CheckSeen, TasksKnow
          <5>2. pc'[s] \in {"route", "notify"} /\ local'[s] = local[s]
            BY <1>1, <2>1, <4>2
          <5> QED
            BY <1>2, <5>1, <5>2 DEF KnowsTask
        <4> QED
          BY <3>6, <4>1, <4>2 DEF CheckSeen
      <3>7. ASSUME NEW t \in Topics, Notify(s, t)
            PROVE  KnowsTask(s)'
        <4>1. t \in subscribed_topic_api /\ Listening(t)
          BY <1>1, <3>7 DEF Notify, TasksKnow, Listening
        <4>2. local[s].topics \subseteq subscribed_topic_api
          BY <3>7 DEF Notify, TasksKnow
        <4>3. pc'[s] \in {"route", "notify"} /\ local'[s].topics = local[s].topics \ {t}
          BY <1>1, <2>1, <3>7, <4>1 DEF Notify, Locals
        <4> QED
          BY <1>2, <4>2, <4>3 DEF KnowsTask
      <3> QED
        BY <1>6, <3>1, <3>2, <3>4, <3>5, <3>6, <3>7, <3>3, <2>1, <1>1, WritesKnow
           DEF HandlerStep, PeerStep
    <2> QED
      BY <1>4, <2>2, <2>3
  <1>7. ASSUME IntStep
        PROVE  \A k \in Tasks : KnowsTask(k)'
    <2>1. ASSUME StartPublish
          PROVE  \A k \in Tasks : KnowsTask(k)'
      <3>1. /\ pc'[Int] = "route"
            /\ \A k \in Tasks \ {Int} : Still(k)
        BY <1>1, <2>1 DEF StartPublish, Still
      <3>2. KnowsTask(Int)'
        BY <1>1, <3>1 DEF KnowsTask
      <3>3. ASSUME NEW k \in Tasks \ {Int} PROVE KnowsTask(k)'
        BY <1>4, <3>1
      <3> QED
        BY <3>2, <3>3
    <2>2. ASSUME Route(Int) \/ Send(Int) \/ \E p \in Peers : Lookup(Int, p)
          PROVE  \A k \in Tasks : KnowsTask(k)'
      <3>1. Int \in Writers
        BY DEF Writers
      <3>2. KnowsTask(Int)' /\ \A r \in Tasks \ {Int} : Still(r)
        BY <2>2, <3>1, WritesKnow
      <3>3. ASSUME NEW k \in Tasks \ {Int} PROVE KnowsTask(k)'
        BY <1>4, <3>2
      <3> QED
        BY <3>2, <3>3
    <2> QED
      BY <1>2, <1>7, <2>1, <2>2 DEF IntStep
  <1>8. ASSUME ApiCalls
        PROVE  \A k \in Tasks : KnowsTask(k)'
    <2>1. ~IntDown
      BY <1>1 DEF TasksKnow, IntDown
    <2>2. /\ pc'[Api] \in Labels \ {"panic"}
          /\ \A k \in Tasks \ {Api} : Still(k)
      BY <1>1, <1>8, <2>1
         DEF ApiCalls, ApiSubscribe, ApiUnsubscribe, ApiPublish, ApiCall, Labels, Still
    <2>3. KnowsTask(Api)'
      BY <1>1, <2>2 DEF KnowsTask, Writers
    <2>4. ASSUME NEW k \in Tasks \ {Api} PROVE KnowsTask(k)'
      BY <1>4, <2>2
    <2> QED
      BY <2>3, <2>4
  <1>9. ASSUME AnnounceStep
        PROVE  \A k \in Tasks : KnowsTask(k)'
    <2>1. \A s \in Streams : ~Closed(s)
      BY <1>5 DEF Closed
    <2>2. /\ pc'[Api] \in Labels \ {"panic"}
          /\ \A k \in Tasks \ {Api} : Still(k)
      BY <1>1, <1>9, <2>1
         DEF AnnounceStep, AnnounceLock, AnnounceSend, AnnounceDone, Labels, Still
    <2>3. KnowsTask(Api)'
      BY <1>1, <2>2 DEF KnowsTask, Writers
    <2>4. ASSUME NEW k \in Tasks \ {Api} PROVE KnowsTask(k)'
      BY <1>4, <2>2
    <2> QED
      BY <2>3, <2>4
  <1>10. ASSUME UNCHANGED vars \/ CleanUpStep
        PROVE  \A k \in Tasks : KnowsTask(k)'
    <2>1. ASSUME NEW k \in Tasks PROVE KnowsTask(k)'
      <3>1. Still(k)
        BY <1>10, CleanUpLeaves DEF vars, Still
      <3> QED
        BY <1>4, <3>1
    <2> QED
      BY <2>1
  <1>11. \A k \in Tasks : KnowsTask(k)'
    BY <1>6, <1>7, <1>8, <1>9, <1>10 DEF CleanUpStep, Next
  <1> QED
    BY <1>11 DEF TasksKnow, KnowsTask, Writers, Tasks

(* Calm can only be lost. *)
LEMMA CalmBefore ==
    ASSUME TypeOK, [Next]_vars, Calm'
    PROVE  Calm
  <1>1. \A s \in Streams : pc[s] # "done"
    BY RegistryStep DEF Calm
  <1>2. unsubscribed => unsubscribed'
    <2>1. ASSUME NEW s \in Streams, HandlerStep(s) \/ PeerStep(s)
          PROVE  UNCHANGED unsubscribed
      BY <2>1 DEF HandlerStep, PeerStep, ReadHello, SendHello, Drain, Consume, CheckSeen, Notify,
         Route, Lookup, Send, Report, Open, RecvSub, RecvUnsub, RecvPublish, Receive, StreamEnds,
         history
    <2>2. CASE IntStep
      BY <2>2 DEF IntStep, HandleDeadPeers, StartPublish, Route, Lookup, Send, history
    <2>3. CASE ApiCalls
      BY <2>3 DEF ApiCalls, ApiSubscribe, ApiUnsubscribe, ApiPublish
    <2>4. CASE AnnounceStep
      BY <2>4 DEF AnnounceStep, AnnounceLock, AnnounceSend, AnnounceDone, history
    <2>5. CASE UNCHANGED vars \/ CleanUpStep
      BY <2>5, CleanUpLeaves DEF vars
    <2> QED
      BY <2>1, <2>2, <2>3, <2>4, <2>5 DEF CleanUpStep, Next
  <1> QED
    BY <1>1, <1>2 DEF Calm

(* No task panics before a stream has ended or a topic has been given up:  *)
(* until then every unwrap in stream_handler, handle_internal_api and      *)
(* subscribe finds what it looks for, for any number of peers and streams. *)
THEOREM PanicsNeedACause == Spec => []NoSpontaneousPanic
  <1>1. Init => CalmInv
    BY FloodsubAssumption
       DEF Init, CalmInv, Calm, StoreKnown, TasksKnow, RoutablePeers, Queued, Tasks, Writers
  <1>2. TypeOK /\ CalmInv /\ [Next]_vars => CalmInv'
    BY CalmBefore, CalmStore, CalmTasks DEF CalmInv
  <1>3. CalmInv => NoSpontaneousPanic
    BY DEF CalmInv, Calm, TasksKnow, NoSpontaneousPanic
  <1> QED
    BY <1>1, <1>2, <1>3, TypeCorrect, PTL DEF Spec

-----------------------------------------------------------------------------
(* No echo.  As long as its key has not expired, a message is in the hands  *)
(* of one forwarding handler, which accepted it from its own peer and has   *)
(* sent nothing to the peers still on its list.  The list never names the   *)
(* origin, and the channel a handler sends into is that of the peer it      *)
(* looked up, whoever has come and gone since.                              *)
Forwarding == {"notify", "route", "lookup", "send"}
Carrying == {"consume", "seen"} \cup Forwarding

Entries == \A p \in Peers : peers[p] # NoStream => PeerOf[peers[p]] = p

OwnOnly == pc[Int] \in {"route", "lookup", "send"} => local[Int].msg \notin Inbound

NewUnsent ==
    \A m \in Inbound : Key(m) \notin last_seen_cache \cup expired =>
        via[m] = {} /\ \A p \in Peers : copies[m][p] = 0

OneHand ==
    \A s1, s2 \in Streams :
        /\ s1 # s2 /\ pc[s1] \in Forwarding /\ pc[s2] \in Forwarding
        /\ Key(local[s1].msg) = Key(local[s2].msg)
        => Key(local[s1].msg) \in expired

(* A handler with a message in hand: its origin is kept out for good... *)
Away(s) ==
    /\ pc[s] \in Carrying => local[s].msg \in Inbound
    /\ pc[s] \in {"lookup", "send"} => local[s].msg.from \notin local[s].targets
    /\ pc[s] = "send" => /\ local[s].dest \in Streams
                         /\ PeerOf[local[s].dest] # local[s].msg.from

(* ... and the peers it is still to go to have not had it. *)
Fresh(s) ==
    LET m == local[s].msg
        q == PeerOf[local[s].dest]
    IN  pc[s] \in Forwarding /\ Key(m) \notin expired =>
            /\ Key(m) \in last_seen_cache /\ via[m] \subseteq {PeerOf[s]}
            /\ pc[s] \in {"notify", "route"} => \A p \in Peers : copies[m][p] = 0
            /\ pc[s] \in {"lookup", "send"} =>
                   /\ PeerOf[s] \notin local[s].targets
                   /\ \A p \in Peers \cap local[s].targets : copies[m][p] = 0
            /\ pc[s] = "send" => q \notin local[s].targets \cup via[m] /\ copies[m][q] = 0

EchoInv ==
    /\ Entries /\ OwnOnly /\ NewUnsent /\ OneHand /\ NoEcho
    /\ \A s \in Streams : Away(s) /\ Fresh(s)

(* A step that lets go of messages at most, sends none and accepts none. *)
EchoQuiet ==
    /\ UNCHANGED <<last_seen_cache, expired, copies, via>>
    /\ \A s \in Streams : pc'[s] \in Carrying => pc'[s] = pc[s] /\ local'[s] = local[s]

(* Such a step keeps the invariant.                                         *)
LEMMA EchoFrame ==
    ASSUME EchoInv, EchoQuiet, Entries', OwnOnly'
    PROVE  EchoInv'
  <1>1. NewUnsent' /\ NoEcho'
    BY DEF EchoInv, EchoQuiet, NewUnsent, NoEcho
  <1>2. OneHand'
    BY DEF EchoInv, EchoQuiet, OneHand, Carrying
  <1>3. ASSUME NEW s \in Streams PROVE Away(s)' /\ Fresh(s)'
    <2>1. Away(s) /\ Fresh(s)
      BY DEF EchoInv
    <2>2. CASE pc'[s] \in Carrying
      <3>1. /\ pc'[s] = pc[s] /\ local'[s] = local[s]
            /\ UNCHANGED <<last_seen_cache, expired, copies, via>>
        BY <2>2 DEF EchoQuiet
      <3> QED
        BY <2>1, <3>1 DEF Away, Fresh
    <2>3. CASE pc'[s] \notin Carrying
      BY <2>3 DEF Away, Fresh, Carrying, Forwarding
    <2> QED
      BY <2>2, <2>3
  <1> QED
    BY <1>1, <1>2, <1>3 DEF EchoInv

(* A step of one handler with a message of its own. *)
LEMMA EchoOne ==
    ASSUME EchoInv, NEW s \in Streams, Entries', OwnOnly', NewUnsent', NoEcho',
           Away(s)', Fresh(s)',
           \A r \in Streams \ {s} : Still(r),
           last_seen_cache \subseteq last_seen_cache', UNCHANGED expired,
           \A m \in Inbound : Key(m) # Key(local[s].msg) =>
               via'[m] = via[m] /\ copies'[m] = copies[m],
           \/ pc[s] \in Forwarding
           \/ Key(local[s].msg) \notin last_seen_cache
           \/ UNCHANGED <<via, copies>> /\ pc'[s] \notin Forwarding,
           pc'[s] \in Forwarding => local'[s].msg = local[s].msg
    PROVE  EchoInv'
  <1>1. ASSUME NEW r \in Streams, r # s PROVE Away(r)' /\ Fresh(r)'
    <2>1. Away(r) /\ Fresh(r) /\ pc'[r] = pc[r] /\ local'[r] = local[r]
      BY <1>1 DEF EchoInv, Still
    <2>2. Away(r)'
      BY <2>1 DEF Away
    <2>3. ASSUME pc[r] \in Forwarding, Key(local[r].msg) \notin expired PROVE Fresh(r)'
      <3>1. local[r].msg \in Inbound /\ Key(local[r].msg) \in last_seen_cache
        BY <2>1, <2>3 DEF Away, Carrying, Fresh
      <3>2. CASE Key(local[r].msg) = Key(local[s].msg)
        <4>1. UNCHANGED <<via, copies>>
          BY <1>1, <2>3, <3>1, <3>2 DEF EchoInv, OneHand
        <4> QED
          BY <2>1, <3>1, <4>1 DEF Fresh
      <3>3. CASE Key(local[r].msg) # Key(local[s].msg)
        <4>1. via'[local[r].msg] = via[local[r].msg] /\ copies'[local[r].msg] = copies[local[r].msg]
          BY <3>1, <3>3
        <4> QED
          BY <2>1, <3>1, <4>1 DEF Fresh
      <3> QED
        BY <3>2, <3>3
    <2>4. CASE ~(pc[r] \in Forwarding /\ Key(local[r].msg) \notin expired)
      BY <2>1, <2>2, <2>4 DEF Fresh
    <2> QED
      BY <2>2, <2>3, <2>4
  <1>2. OneHand'
    <2> SUFFICES ASSUME NEW r \in Streams, r # s, pc[r] \in Forwarding, pc'[s] \in Forwarding,
                        Key(local[r].msg) = Key(local[s].msg)
                 PROVE  Key(local[r].msg) \in expired
      BY DEF EchoInv, OneHand, Still
    <2>1. CASE pc[s] \in Forwarding
      BY <2>1 DEF EchoInv, OneHand
    <2>2. CASE Key(local[s].msg) \notin last_seen_cache
      BY <2>2 DEF EchoInv, Fresh
    <2> QED
      BY <2>1, <2>2
  <1> QED
    BY <1>1, <1>2 DEF EchoInv

(* The map of peers names streams of those peers. *)
LEMMA EntriesStep ==
    ASSUME TypeOK, Entries, [Next]_vars
    PROVE  Entries'
  <1>1. /\ peers \in [Peers -> Streams \cup {NoStream}]
        /\ PeerOf \in [Streams -> Peers] /\ NoStream \notin Streams
    BY FloodsubAssumption DEF TypeOK, StoreOK
  <1>2. CASE UNCHANGED peers
    BY <1>2 DEF Entries
  <1>3. ASSUME NEW s \in Streams, Open(s) PROVE Entries'
    BY <1>1, <1>3 DEF Open, Register, Entries
  <1>4. CASE HandleDeadPeers
    BY <1>1, <1>4 DEF HandleDeadPeers, Entries
  <1>5. ASSUME NEW s \in Streams, HandlerStep(s) PROVE UNCHANGED peers
    BY <1>5 DEF HandlerStep, ReadHello, SendHello, Drain, Consume, CheckSeen, Notify,
                Route, Lookup, Send, Report, storeVars
  <1>6. ASSUME NEW s \in Streams, PeerStep(s) PROVE UNCHANGED peers \/ Open(s)
    BY <1>6 DEF PeerStep, RecvSub, RecvUnsub, RecvPublish, Receive, StreamEnds, storeVars
  <1>7. CASE IntStep
    BY <1>2, <1>4, <1>7 DEF IntStep, StartPublish, Route, Lookup, Send, storeVars
  <1>8. CASE AnnounceStep \/ ApiCalls
    BY <1>2, <1>8 DEF AnnounceStep, AnnounceLock, AnnounceSend, AnnounceDone,
                      ApiCalls, ApiSubscribe, ApiUnsubscribe, ApiPublish, ApiCall, storeVars
  <1>9. CASE CleanUpStep \/ UNCHANGED vars
    BY <1>2, <1>9, CleanUpLeaves DEF vars
  <1> QED
    BY <1>2, <1>3, <1>5, <1>6, <1>7, <1>8, <1>9 DEF Next, CleanUpStep

(* What a peer relays is none of the messages this node publishes itself, *)
(* which carry a number of their own.                                     *)
OwnApart == \A t \in Topics : OwnMsg(t) \notin Inbound

(* The internal task sends nothing that a peer relayed.                     *)
LEMMA OwnStep ==
    ASSUME OwnApart, TypeOK, OwnOnly, [Next]_vars
    PROVE  OwnOnly'
  <1>1. /\ pc \in [Tasks -> Labels] /\ local \in [Tasks -> Locals]
        /\ Int \in Tasks /\ Api \in Tasks /\ Api # Int /\ Int \notin Streams
        /\ floodsub_mpsc \in Seq(Frames)
    BY FloodsubAssumption DEF TypeOK, TasksOK, SharedOK, Tasks
  <1>2. CASE UNCHANGED <<pc[Int], local[Int]>>
    BY <1>2 DEF OwnOnly
  <1> USE DEF Goto, Return, Panic, storeVars
  <1>3. ASSUME NEW s \in Streams, HandlerStep(s) PROVE UNCHANGED <<pc[Int], local[Int]>>
    BY <1>1, <1>3 DEF HandlerStep, ReadHello, SendHello, Drain, Consume, CheckSeen, Notify,
                      Route, Lookup, Send, Report
  <1>4. ASSUME NEW s \in Streams, PeerStep(s) PROVE UNCHANGED <<pc[Int], local[Int]>>
    BY <1>1, <1>4 DEF PeerStep, Open, RecvSub, RecvUnsub, RecvPublish, Receive, StreamEnds
  <1>5. CASE StartPublish
    <2>1. floodsub_mpsc # <<>> /\ Head(floodsub_mpsc).kind = "publish"
          /\ local' = [local EXCEPT ![Int].msg = OwnMsg(Head(floodsub_mpsc).topic)]
      BY <1>5 DEF StartPublish
    <2>2. Head(floodsub_mpsc) \in Frames
      BY <1>1, <2>1
    <2>3. Head(floodsub_mpsc).topic \in Topics
      BY <2>1, <2>2 DEF Frames
    <2>4. local'[Int].msg = OwnMsg(Head(floodsub_mpsc).topic)
      BY <1>1, <2>1 DEF Locals
    <2> QED
      BY <2>3, <2>4 DEF OwnApart, OwnOnly
  <1>6. CASE HandleDeadPeers
    BY <1>2, <1>6 DEF HandleDeadPeers
  <1>7. CASE Route(Int) \/ Send(Int) \/ \E p \in Peers : Lookup(Int, p)
    <2>1. CASE Return(Int) \/ Panic(Int)
      BY <1>1, <2>1 DEF OwnOnly
    <2>2. CASE Route(Int) /\ ~Return(Int)
      <3>1. local'[Int].msg = local[Int].msg /\ pc[Int] = "route"
        BY <1>1, <2>2 DEF Route, Locals
      <3> QED
        BY <3>1 DEF OwnOnly
    <2>3. ASSUME NEW p \in Peers, Lookup(Int, p), ~Panic(Int) PROVE OwnOnly'
      <3>1. local'[Int].msg = local[Int].msg /\ pc[Int] = "lookup"
        BY <1>1, <2>3 DEF Lookup, Locals
      <3> QED
        BY <3>1 DEF OwnOnly
    <2>4. CASE Send(Int)
      BY <1>1, <2>1, <2>4 DEF Send, OwnOnly
    <2> QED
      BY <1>7, <2>1, <2>2, <2>3, <2>4
  <1>8. CASE AnnounceStep \/ ApiCalls
    <2>1. UNCHANGED <<pc[Int], local[Int]>>
      BY <1>1, <1>8 DEF AnnounceStep, AnnounceLock, AnnounceSend, AnnounceDone,
                      ApiCalls, ApiSubscribe, ApiUnsubscribe, ApiPublish, ApiCall
    <2> QED
      BY <1>2, <2>1
  <1>9. CASE CleanUpStep \/ UNCHANGED vars
    BY <1>2, <1>9, CleanUpLeaves DEF vars
  <1> QED
    BY <1>2, <1>3, <1>4, <1>5, <1>6, <1>7, <1>8, <1>9 DEF Next, CleanUpStep, IntStep

EchoQuietStep ==
    \/ \E s \in Streams :
          \/ Open(s) \/ ReadHello(s) \/ SendHello(s) \/ Drain(s) \/ StreamEnds(s) \/ Report(s)
          \/ \E t \in Topics : RecvSub(s, t) \/ RecvUnsub(s, t)
    \/ IntStep
    \/ ApiCalls
    \/ AnnounceStep
    \/ UNCHANGED vars

(* The steps without a message of a peer in hand.                           *)
LEMMA EchoQuietSteps ==
    ASSUME TypeOK, OwnOnly, EchoQuietStep
    PROVE  EchoQuiet
  <1>1. /\ pc \in [Tasks -> Labels] /\ local \in [Tasks -> Locals]
        /\ Streams \subseteq Tasks /\ Int \in Tasks /\ Api \in Tasks
        /\ Int \notin Streams /\ Api \notin Streams
    BY FloodsubAssumption DEF TypeOK, TasksOK, Tasks
  <1> USE DEF EchoQuiet, Carrying, Forwarding, Goto, Return, Panic, history
  <1>2. ASSUME NEW s \in Streams, Open(s) \/ ReadHello(s) \/ SendHello(s) \/ Drain(s)
        PROVE  EchoQuiet
    BY <1>1, <1>2 DEF Open, ReadHello, SendHello, Drain
  <1>3. ASSUME NEW s \in Streams, StreamEnds(s) \/ Report(s)
        PROVE  EchoQuiet
    BY <1>1, <1>3 DEF StreamEnds, Report
  <1>4. ASSUME NEW s \in Streams, NEW t \in Topics, RecvSub(s, t) \/ RecvUnsub(s, t)
        PROVE  EchoQuiet
    BY <1>1, <1>4 DEF RecvSub, RecvUnsub, Receive
  <1>5. CASE Route(Int) \/ \E p \in Peers : Lookup(Int, p)
    BY <1>1, <1>5 DEF Route, Lookup
  <1>6. CASE Send(Int)
    BY <1>1, <1>6 DEF Send, OwnOnly
  <1>7. CASE HandleDeadPeers \/ StartPublish
    BY <1>1, <1>7 DEF HandleDeadPeers, StartPublish
  <1>8. CASE ApiCalls
    BY <1>1, <1>8 DEF ApiCalls, ApiSubscribe, ApiUnsubscribe, ApiPublish, ApiCall
  <1>9. CASE AnnounceStep
    BY <1>1, <1>9 DEF AnnounceStep, AnnounceLock, AnnounceSend, AnnounceDone
  <1>10. CASE UNCHANGED vars
    BY <1>10 DEF vars
  <1> QED
    BY <1>2, <1>3, <1>4, <1>5, <1>6, <1>7, <1>8, <1>9, <1>10 DEF EchoQuietStep, IntStep

(* A handler that lets go of its message. *)
LEMMA EchoLetsGo ==
    ASSUME TypeOK, EchoInv, Entries', OwnOnly', NEW s \in Streams, Return(s) \/ Panic(s),
           UNCHANGED <<last_seen_cache, expired, copies, via>>
    PROVE  EchoInv'
  <1>1. /\ pc \in [Tasks -> Labels] /\ local \in [Tasks -> Locals] /\ Streams \subseteq Tasks
    BY DEF TypeOK, TasksOK, Tasks
  <1>2. pc'[s] \in {"select", "panic"}
        /\ \A r \in Streams \ {s} : pc'[r] = pc[r] /\ local'[r] = local[r]
    BY <1>1 DEF Return, Panic, Goto
  <1> QED
    BY <1>2, EchoFrame DEF EchoQuiet, Carrying, Forwarding

(* A relayed message is read, found to be another node's, and found new. *)
LEMMA EchoReceives ==
    ASSUME TypeOK, EchoInv, Entries', OwnOnly', NEW s \in Streams, NEW m \in Inbound,
           RecvPublish(s, m)
    PROVE  EchoInv'
  <1>1. /\ pc \in [Tasks -> Labels] /\ local \in [Tasks -> Locals] /\ Streams \subseteq Tasks
    BY DEF TypeOK, TasksOK, Tasks
  <1>2. UNCHANGED <<last_seen_cache, expired, copies, via>>
    BY DEF RecvPublish, Receive, history
  <1>3. CASE UNCHANGED <<pc, local>>
    BY <1>2, <1>3, EchoFrame DEF EchoQuiet
  <1>4. CASE Goto(s, "consume") /\ local' = [local EXCEPT ![s].msg = m]
    <2>1. pc'[s] = "consume" /\ local'[s].msg = m
          /\ \A r \in Streams \ {s} : Still(r)
      BY <1>1, <1>4 DEF Locals, Goto, Still
    <2>2. Away(s)' /\ Fresh(s)'
      BY <2>1 DEF Away, Fresh, Forwarding
    <2>3. NewUnsent' /\ NoEcho'
      BY <1>2 DEF EchoInv, NewUnsent, NoEcho
    <2>4. pc'[s] \notin Forwarding
      BY <2>1 DEF Forwarding
    <2> QED
      BY <1>2, <2>1, <2>2, <2>3, <2>4, EchoOne
  <1> QED
    BY <1>3, <1>4 DEF RecvPublish

(* A message of another node is looked up in the cache.                     *)
LEMMA EchoConsumes ==
    ASSUME TypeOK, EchoInv, Entries', OwnOnly', NEW s \in Streams, Consume(s)
    PROVE  EchoInv'
  <1>1. /\ pc \in [Tasks -> Labels] /\ local \in [Tasks -> Locals] /\ Streams \subseteq Tasks
    BY DEF TypeOK, TasksOK, Tasks
  <1>2. UNCHANGED <<last_seen_cache, expired, copies, via>> /\ pc[s] = "consume"
    BY DEF Consume, history
  <1>3. CASE Return(s) \/ Panic(s)
    BY <1>2, <1>3, EchoLetsGo
  <1>4. CASE Goto(s, "seen") /\ local' = [local EXCEPT ![s].topics =
                                   local[s].msg.topics \cap subscribed_topic_api]
    <2>1. pc'[s] = "seen" /\ local'[s].msg = local[s].msg
          /\ \A r \in Streams \ {s} : Still(r)
      BY <1>1, <1>4 DEF Locals, Goto, Still
    <2>2. local[s].msg \in Inbound
      BY <1>2 DEF EchoInv, Away, Carrying
    <2>3. Away(s)' /\ Fresh(s)'
      BY <2>1, <2>2 DEF Away, Fresh, Forwarding
    <2>4. NewUnsent' /\ NoEcho'
      BY <1>2 DEF EchoInv, NewUnsent, NoEcho
    <2>5. pc'[s] \notin Forwarding
      BY <2>1 DEF Forwarding
    <2> QED
      BY <1>2, <2>1, <2>3, <2>4, <2>5, EchoOne
  <1> QED
    BY <1>3, <1>4 DEF Consume

(* The first to find it new has it in hand; nothing was sent of it yet. *)
LEMMA EchoSees ==
    ASSUME TypeOK, EchoInv, Entries', OwnOnly', NEW s \in Streams, CheckSeen(s)
    PROVE  EchoInv'
  <1>1. /\ pc \in [Tasks -> Labels] /\ local \in [Tasks -> Locals] /\ Streams \subseteq Tasks
        /\ via \in [Inbound -> SUBSET Peers]
    BY DEF TypeOK, TasksOK, Tasks, HistoryOK
  <1> DEFINE m == local[s].msg
  <1>2. m \in Inbound
    BY DEF CheckSeen, EchoInv, Away, Carrying
  <1>3. CASE Key(m) \in last_seen_cache
    <2>1. Return(s) /\ UNCHANGED <<last_seen_cache, expired, copies, via>>
      BY <1>3 DEF CheckSeen
    <2> QED
      BY <2>1, EchoLetsGo
  <1>4. CASE Key(m) \notin last_seen_cache
    <2>1. /\ last_seen_cache' = last_seen_cache \cup {Key(m)}
          /\ via' = [via EXCEPT ![m] = @ \cup {PeerOf[s]}]
          /\ UNCHANGED <<local, copies, expired>>
          /\ pc'[s] \in {"route", "notify"}
          /\ \A r \in Streams \ {s} : Still(r)
      BY <1>1, <1>4 DEF CheckSeen, Remember, Goto, Still
    <2>2. Key(m) \notin expired => via[m] = {} /\ \A p \in Peers : copies[m][p] = 0
      BY <1>2, <1>4 DEF EchoInv, NewUnsent
    <2>3. /\ via'[m] = via[m] \cup {PeerOf[s]}
          /\ \A o \in Inbound : o # m => via'[o] = via[o]
      BY <1>1, <1>2, <2>1
    <2>4. NewUnsent'
      BY <2>1, <2>3 DEF EchoInv, NewUnsent
    <2>5. NoEcho'
      <3> SUFFICES ASSUME NEW o \in Inbound, NEW p \in Peers
                   PROVE  /\ p = o.from => copies'[o][p] = 0
                          /\ Key(o) \notin expired' =>
                                 copies'[o][p] <= 1 /\ (p \in via'[o] => copies'[o][p] = 0)
        BY DEF NoEcho
      <3>1. /\ p = o.from => copies[o][p] = 0
            /\ Key(o) \notin expired =>
                   copies[o][p] <= 1 /\ (p \in via[o] => copies[o][p] = 0)
        BY DEF EchoInv, NoEcho
      <3> QED
        BY <2>1, <2>2, <2>3, <3>1
    <2>6. Away(s)'
      BY <1>2, <2>1 DEF Away
    <2>7. Fresh(s)'
      BY <2>1, <2>2, <2>3 DEF Fresh
    <2> HIDE DEF m
    <2>8. pc'[s] \in Forwarding => local'[s].msg = local[s].msg
      BY <2>1
    <2>9. \A o \in Inbound : Key(o) # Key(local[s].msg) =>
               via'[o] = via[o] /\ copies'[o] = copies[o]
      BY <2>1, <2>3 DEF m
    <2>10. last_seen_cache \subseteq last_seen_cache'
      BY <2>1
    <2>11. Key(local[s].msg) \notin last_seen_cache
      BY <1>4 DEF m
    <2> QED
      BY <2>1, <2>4, <2>5, <2>6, <2>7, <2>8, <2>9, <2>10, <2>11, EchoOne
  <1> QED
    BY <1>3, <1>4

(* Deliveries send nothing.                                                 *)
LEMMA EchoNotifies ==
    ASSUME TypeOK, EchoInv, Entries', OwnOnly', NEW s \in Streams, NEW t \in Topics, Notify(s, t)
    PROVE  EchoInv'
  <1>1. /\ pc \in [Tasks -> Labels] /\ local \in [Tasks -> Locals] /\ Streams \subseteq Tasks
    BY DEF TypeOK, TasksOK, Tasks
  <1>2. UNCHANGED <<last_seen_cache, expired, copies, via>> /\ pc[s] = "notify"
    BY DEF Notify
  <1>3. CASE Panic(s)
    BY <1>2, <1>3, EchoLetsGo
  <1>4. CASE ~Panic(s)
    <2>1. /\ pc'[s] \in {"route", "notify"} /\ local'[s].msg = local[s].msg
          /\ \A r \in Streams \ {s} : Still(r)
      BY <1>1, <1>4 DEF Notify, Locals, Goto, Still
    <2>2. Away(s) /\ Fresh(s)
      BY DEF EchoInv
    <2>3. Away(s)' /\ Fresh(s)'
      BY <1>2, <2>1, <2>2 DEF Away, Fresh, Carrying, Forwarding
    <2>4. NewUnsent' /\ NoEcho'
      BY <1>2 DEF EchoInv, NewUnsent, NoEcho
    <2>5. pc[s] \in Forwarding
      BY <1>2 DEF Forwarding
    <2> QED
      BY <1>2, <2>1, <2>3, <2>4, <2>5, EchoOne
  <1> QED
    BY <1>3, <1>4

(* The targets leave out the peer the message came from and its origin. *)
LEMMA EchoRoutes ==
    ASSUME TypeOK, EchoInv, Entries', OwnOnly', NEW s \in Streams, Route(s)
    PROVE  EchoInv'
  <1>1. /\ pc \in [Tasks -> Labels] /\ local \in [Tasks -> Locals] /\ Streams \subseteq Tasks
        /\ Int \notin Streams
    BY FloodsubAssumption DEF TypeOK, TasksOK, Tasks
  <1> DEFINE ps == GetPeersToSend(local[s].msg, Forwarder(s))
  <1>2. UNCHANGED <<last_seen_cache, expired, copies, via>> /\ pc[s] = "route"
    BY DEF Route, history
  <1>3. CASE Return(s)
    BY <1>2, <1>3, EchoLetsGo
  <1>4. CASE Goto(s, "lookup") /\ local' = [local EXCEPT ![s].targets = ps]
    <2>1. local[s].msg.from \notin ps /\ PeerOf[s] \notin ps
      <3>1. Forwarder(s) = PeerOf[s]
        BY <1>1 DEF Forwarder
      <3>2. \A p \in ps : p # Forwarder(s) /\ p # local[s].msg.from
        BY DEF GetPeersToSend
      <3> QED
        BY <3>1, <3>2
    <2> HIDE DEF ps
    <2>2. /\ pc'[s] = "lookup" /\ local'[s].msg = local[s].msg /\ local'[s].targets = ps
          /\ \A r \in Streams \ {s} : Still(r)
      BY <1>1, <1>4 DEF Locals, Goto, Still
    <2>3. Away(s) /\ Fresh(s)
      BY DEF EchoInv
    <2>4. Away(s)'
      BY <1>2, <2>2, <2>1, <2>3 DEF Away, Carrying, Forwarding
    <2>5. Fresh(s)'
      BY <1>2, <2>2, <2>1, <2>3 DEF Fresh, Forwarding
    <2>6. NewUnsent' /\ NoEcho'
      BY <1>2 DEF EchoInv, NewUnsent, NoEcho
    <2>7. pc[s] \in Forwarding
      BY <1>2 DEF Forwarding
    <2> QED
      BY <1>2, <2>2, <2>4, <2>5, <2>6, <2>7, EchoOne
  <1> QED
    BY <1>3, <1>4 DEF Route

(* The channel looked up is that of the target that is struck off. *)
LEMMA EchoLooksUp ==
    ASSUME TypeOK, EchoInv, Entries', OwnOnly', NEW s \in Streams, NEW p \in Peers, Lookup(s, p)
    PROVE  EchoInv'
  <1>1. /\ pc \in [Tasks -> Labels] /\ local \in [Tasks -> Locals] /\ Streams \subseteq Tasks
        /\ peers \in [Peers -> Streams \cup {NoStream}]
    BY DEF TypeOK, TasksOK, Tasks, StoreOK
  <1>2. UNCHANGED <<last_seen_cache, expired, copies, via>> /\ pc[s] = "lookup"
        /\ p \in local[s].targets
    BY DEF Lookup, history
  <1>3. CASE Panic(s)
    BY <1>2, <1>3, EchoLetsGo
  <1>4. CASE ~Panic(s)
    <2>1. /\ pc'[s] = "send" /\ local'[s].msg = local[s].msg
          /\ local'[s].targets = local[s].targets \ {p} /\ local'[s].dest = peers[p]
          /\ peers[p] # NoStream
          /\ \A r \in Streams \ {s} : Still(r)
      BY <1>1, <1>4 DEF Lookup, Locals, Goto, Still
    <2>2. peers[p] \in Streams /\ PeerOf[peers[p]] = p
      BY <1>1, <2>1 DEF EchoInv, Entries
    <2>3. Away(s) /\ Fresh(s)
      BY DEF EchoInv
    <2>4. Away(s)'
      BY <1>2, <2>1, <2>2, <2>3 DEF Away, Carrying, Forwarding
    <2>5. Fresh(s)'
      <3> SUFFICES ASSUME Key(local'[s].msg) \notin expired'
                   PROVE  Fresh(s)'
        BY DEF Fresh
      <3>1. /\ Key(local[s].msg) \in last_seen_cache /\ via[local[s].msg] \subseteq {PeerOf[s]}
            /\ PeerOf[s] \notin local[s].targets
            /\ \A q \in Peers \cap local[s].targets : copies[local[s].msg][q] = 0
        BY <1>2, <2>1, <2>3 DEF Fresh, Forwarding
      <3>2. /\ PeerOf[s] \notin local'[s].targets
            /\ \A q \in Peers \cap local'[s].targets : copies[local[s].msg][q] = 0
            /\ p \notin local'[s].targets \cup via[local[s].msg] /\ copies[local[s].msg][p] = 0
        BY <1>2, <2>1, <3>1
      <3> QED
        BY <1>2, <2>1, <2>2, <3>1, <3>2 DEF Fresh
    <2>6. NewUnsent' /\ NoEcho'
      BY <1>2 DEF EchoInv, NewUnsent, NoEcho
    <2>7. pc[s] \in Forwarding
      BY <1>2 DEF Forwarding
    <2> QED
      BY <1>2, <2>1, <2>4, <2>5, <2>6, <2>7, EchoOne
  <1> QED
    BY <1>3, <1>4

(* The one copy to a peer is sent, unless its handler is gone. *)
LEMMA EchoSends ==
    ASSUME TypeOK, EchoInv, Entries', OwnOnly', NEW s \in Streams, Send(s)
    PROVE  EchoInv'
  <1>1. /\ pc \in [Tasks -> Labels] /\ local \in [Tasks -> Locals] /\ Streams \subseteq Tasks
        /\ copies \in [Inbound -> [Peers -> Nat]] /\ PeerOf \in [Streams -> Peers]
    BY FloodsubAssumption DEF TypeOK, TasksOK, Tasks, HistoryOK
  <1> DEFINE m == local[s].msg
             q == PeerOf[local[s].dest]
  <1>2. UNCHANGED <<last_seen_cache, expired, via>> /\ pc[s] = "send"
    BY DEF Send
  <1>3. Away(s) /\ Fresh(s)
    BY DEF EchoInv
  <1>4. m \in Inbound /\ local[s].dest \in Streams /\ q \in Peers /\ q # m.from
    BY <1>1, <1>2, <1>3 DEF Away, Carrying, Forwarding
  <1>5. CASE UNCHANGED copies /\ Panic(s)
    BY <1>2, <1>5, EchoLetsGo
  <1>6. CASE ~(UNCHANGED copies /\ Panic(s))
    <2>1. /\ copies' = [copies EXCEPT ![m][q] = @ + 1]
          /\ Return(s) \/ (Goto(s, "lookup") /\ UNCHANGED local)
      BY <1>4, <1>6 DEF Send
    <2>2. Key(m) \notin expired =>
              /\ Key(m) \in last_seen_cache /\ via[m] \subseteq {PeerOf[s]}
              /\ PeerOf[s] \notin local[s].targets
              /\ \A p \in Peers \cap local[s].targets : copies[m][p] = 0
              /\ q \notin local[s].targets \cup via[m] /\ copies[m][q] = 0
      BY <1>2, <1>3 DEF Fresh, Forwarding
    <2>3. \/ pc'[s] = "select"
          \/ pc'[s] = "lookup" /\ local'[s] = local[s]
      BY <1>1, <2>1 DEF Return, Goto
    <2>4. \A r \in Streams \ {s} : Still(r)
      BY <1>1, <2>1 DEF Return, Goto, Still
    <2>5. Away(s)'
      BY <1>2, <1>3, <2>3 DEF Away, Carrying, Forwarding
    <2> HIDE DEF m, q
    <2>6. /\ copies'[m][q] = copies[m][q] + 1
          /\ \A p \in Peers : p # q => copies'[m][p] = copies[m][p]
          /\ \A o \in Inbound : o # m => copies'[o] = copies[o]
      BY <1>1, <1>4, <2>1
    <2>7. Fresh(s)'
      <3>1. CASE pc'[s] = "select"
        BY <3>1 DEF Fresh, Forwarding
      <3>2. CASE pc'[s] = "lookup" /\ local'[s] = local[s]
        BY <1>2, <2>2, <2>6, <3>2 DEF Fresh, m
      <3> QED
        BY <2>3, <3>1, <3>2
    <2>8. NewUnsent'
      <3> SUFFICES ASSUME NEW o \in Inbound, Key(o) \notin last_seen_cache' \cup expired'
                   PROVE  via'[o] = {} /\ \A p \in Peers : copies'[o][p] = 0
        BY DEF NewUnsent
      <3>1. o # m
        BY <1>2, <2>2
      <3> QED
        BY <1>2, <2>6, <3>1 DEF EchoInv, NewUnsent
    <2>9. NoEcho'
      <3> SUFFICES ASSUME NEW o \in Inbound, NEW p \in Peers
                   PROVE  /\ p = o.from => copies'[o][p] = 0
                          /\ Key(o) \notin expired' =>
                                 copies'[o][p] <= 1 /\ (p \in via'[o] => copies'[o][p] = 0)
        BY DEF NoEcho
      <3>1. /\ p = o.from => copies[o][p] = 0
            /\ Key(o) \notin expired =>
                   copies[o][p] <= 1 /\ (p \in via[o] => copies[o][p] = 0)
        BY DEF EchoInv, NoEcho
      <3>2. CASE o = m /\ p = q
        <4>1. p # o.from
          BY <1>4, <3>2 DEF m
        <4>2. Key(o) \notin expired => copies'[o][p] = 1 /\ p \notin via'[o]
          BY <1>2, <2>2, <2>6, <3>2
        <4> QED
          BY <1>2, <4>1, <4>2
      <3>3. CASE o = m /\ p # q
        BY <1>2, <2>6, <3>1, <3>3
      <3>4. CASE o # m
        BY <1>2, <2>6, <3>1, <3>4
      <3> QED
        BY <3>2, <3>3, <3>4
    <2>10. pc[s] \in Forwarding
      BY <1>2 DEF Forwarding
    <2>11. pc'[s] \in Forwarding => local'[s].msg = local[s].msg
      BY <2>3 DEF Forwarding
    <2>12. \A o \in Inbound : Key(o) # Key(local[s].msg) =>
               via'[o] = via[o] /\ copies'[o] = copies[o]
      BY <1>2, <2>6 DEF m
    <2> QED
      BY <1>2, <2>4, <2>5, <2>7, <2>8, <2>9, <2>10, <2>11, <2>12, EchoOne
  <1> QED
    BY <1>5, <1>6

(* A key that expires frees its message of every claim but that on its origin. *)
LEMMA EchoExpires ==
    ASSUME TypeOK, EchoInv, Entries', OwnOnly', CleanUpStep
    PROVE  EchoInv'
  <1>1. PICK old \in SUBSET last_seen_cache : CleanUp(old)
    BY DEF CleanUpStep
  <1>2. /\ last_seen_cache' = last_seen_cache \ old /\ expired' = expired \cup old
        /\ UNCHANGED <<pc, local, copies, via>>
    BY <1>1 DEF CleanUp
  <1>3. NewUnsent' /\ NoEcho'
    BY <1>2 DEF EchoInv, NewUnsent, NoEcho
  <1>4. OneHand'
    BY <1>2 DEF EchoInv, OneHand
  <1>5. ASSUME NEW s \in Streams PROVE Away(s)' /\ Fresh(s)'
    BY <1>2 DEF EchoInv, Away, Fresh
  <1> QED
    BY <1>3, <1>4, <1>5 DEF EchoInv

(* At the start nothing is in hand.                                         *)
LEMMA EchoInit == Init => EchoInv
  <1> SUFFICES ASSUME Init PROVE EchoInv
    OBVIOUS
  <1>1. Int \in Tasks /\ Int \notin Streams /\ Streams \subseteq Tasks
    BY FloodsubAssumption DEF Tasks
  <1>2. pc[Int] = "idle" /\ \A s \in Streams : pc[s] = "none"
    BY <1>1 DEF Init
  <1>3. Entries /\ OwnOnly /\ OneHand
    BY <1>2 DEF Init, Entries, OwnOnly, OneHand, Forwarding
  <1>4. NewUnsent /\ NoEcho
    BY DEF Init, NewUnsent, NoEcho
  <1>5. \A s \in Streams : Away(s) /\ Fresh(s)
    BY <1>2 DEF Away, Fresh, Carrying, Forwarding
  <1> QED
    BY <1>3, <1>4, <1>5 DEF EchoInv

(* A message goes at most once to each peer and never back to one it was    *)
(* accepted from, as long as its key has not expired, and never to its      *)
(* origin (publish, write_msg), for any peers that come and go meanwhile,   *)
(* where what peers relay differs from what this node publishes.            *)
THEOREM NothingEchoed ==
    ASSUME OwnApart
    PROVE  Spec => []NoEcho
  <1>1. TypeOK /\ EchoInv /\ [Next]_vars => EchoInv'
    <2> SUFFICES ASSUME TypeOK, EchoInv, [Next]_vars PROVE EchoInv'
      OBVIOUS
    <2>1. Entries' /\ OwnOnly'
      BY EntriesStep, OwnStep DEF EchoInv
    <2>2. CASE EchoQuietStep
      BY <2>1, <2>2, EchoQuietSteps, EchoFrame DEF EchoInv
    <2>3. CASE CleanUpStep
      BY <2>1, <2>3, EchoExpires
    <2>4. ASSUME NEW s \in Streams, HandlerStep(s), ~EchoQuietStep PROVE EchoInv'
      <3>1. \/ Consume(s) \/ CheckSeen(s) \/ Route(s) \/ Send(s)
            \/ \E t \in Topics : Notify(s, t)
            \/ \E p \in Peers : Lookup(s, p)
        BY <2>4 DEF HandlerStep, EchoQuietStep
      <3> QED
        BY <2>1, <3>1, EchoConsumes, EchoSees, EchoRoutes, EchoSends, EchoNotifies, EchoLooksUp
    <2>5. ASSUME NEW s \in Streams, PeerStep(s), ~EchoQuietStep PROVE EchoInv'
      <3>1. PICK m \in Inbound : RecvPublish(s, m)
        BY <2>5 DEF PeerStep, EchoQuietStep
      <3> QED
        BY <2>1, <3>1, EchoReceives
    <2> QED
      BY <2>2, <2>3, <2>4, <2>5 DEF Next, EchoQuietStep, CleanUpStep
  <1>2. EchoInv => NoEcho
    BY DEF EchoInv
  <1> QED
    BY <1>1, <1>2, EchoInit, TypeCorrect, PTL DEF Spec
=============================================================================
