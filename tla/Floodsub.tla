------------------------------ MODULE Floodsub ------------------------------
(***************************************************************************)
(* The FloodSub service of one node, at the grain of its await points      *)
(* (crates/protocols/floodsub/src/pubsub.rs).  FloodSub is one value       *)
(* shared by many tasks:                                                   *)
(*                                                                         *)
(*   - one stream handler per floodsub stream to a peer (stream_handler);  *)
(*   - the internal task that owns the receiving end of floodsub_mpsc      *)
(*     (handle_internal_api);                                              *)
(*   - the application, which subscribes, unsubscribes and publishes       *)
(*     through the Node; the Node's mutex admits one call at a time.       *)
(*                                                                         *)
(* They share the store (one mutex), the cache of seen messages (another), *)
(* the bounded channel of every handler, and floodsub_mpsc.  A task gives  *)
(* way to the others at every await, so each action is the code between    *)
(* two awaits that others can notice.  A failed unwrap() ends its task     *)
(* ("panic") and drops the channel ends the task owns.                     *)
(***************************************************************************)
EXTENDS Naturals, Sequences, FiniteSets

CONSTANTS
    Local,      \* this node's peer id
    Peers,      \* the remote peers that may connect
    Streams,    \* the floodsub streams that may ever be opened
    PeerOf,     \* the peer at the other end of each stream
    Topics,
    Inbound,    \* the messages peers may relay to this node
    NoStream,   \* no entry in the map of peers
    Api,        \* the application's task
    Int,        \* the internal task
    ChanCap,    \* capacity of a handler's channel (100 in the code)
    MaxRpcs,    \* bound: RPCs one stream delivers
    MaxApiOps   \* bound: calls the application makes

Tasks == Streams \cup {Api, Int}

(* A pubsub message: its origin, its seqno and its topics; the payload is   *)
(* irrelevant to the service.                                              *)
OwnMsg(t) == [from |-> Local, seqno |-> 0, topics |-> {t}]
NoMsg == [from |-> Local, seqno |-> 0, topics |-> {}]
Messages == Inbound \cup {OwnMsg(t) : t \in Topics} \cup {NoMsg}

(* MessageKey: what the cache of seen messages tells apart. *)
Key(m) == <<m.from, m.seqno>>
Keys == {Key(m) : m \in Messages}

ASSUME FloodsubAssumption ==
    /\ PeerOf \in [Streams -> Peers]
    /\ Local \notin Peers
    /\ NoStream \notin Streams
    /\ {Api, Int} \cap Streams = {}
    /\ Api # Int
    /\ \A m \in Inbound : /\ m.topics \in SUBSET Topics
                          /\ m = [from |-> m.from, seqno |-> m.seqno, topics |-> m.topics]
    /\ {ChanCap, MaxRpcs, MaxApiOps} \subseteq Nat

VARIABLES
    \* the store, behind one mutex
    peer_topics,            \* topic -> the peers that announced it
    peers,                  \* peer -> the stream whose channel reaches it
    subscribed_topic_api,   \* the topics this node is subscribed to
    storeHeld,              \* message_all_peers holds the mutex between sends
    \* the other shared state
    last_seen_cache,        \* the keys of the messages seen
    floodsub_mpsc,          \* frames queued for the internal task
    chan,                   \* stream -> RPCs waiting in its handler's channel
    \* the tasks
    pc,                     \* task -> where it stands
    local,                  \* task -> the values it carries across awaits
    \* bounds
    rpcs, apiOps,
    \* history
    told,                   \* stream -> the topics the remote will hold us
                            \* subscribed to once it has read what is queued
    delivered,              \* message -> topic -> copies handed to the topic
    copies,                 \* message -> peer -> copies queued towards it
    via,                    \* message -> the peers it was accepted from
    expired,                \* the keys ever dropped from the cache for their age
    unsubscribed            \* the application has given up a topic

storeVars == <<peer_topics, peers, subscribed_topic_api, storeHeld>>
history == <<told, delivered, copies, via, expired, unsubscribed>>
bounds == <<rpcs, apiOps>>
vars == <<peer_topics, peers, subscribed_topic_api, storeHeld, last_seen_cache,
          floodsub_mpsc, chan, pc, local, rpcs, apiOps, told, delivered, copies, via,
          expired, unsubscribed>>

-----------------------------------------------------------------------------
(* What a task carries from one await to the next: the message in hand, a  *)
(* snapshot of topics (or the topics still to notify), the peers or        *)
(* streams still to write to, and the channel it is sending into.          *)
Empty == [msg |-> NoMsg, topics |-> {}, targets |-> {}, dest |-> NoStream]

Locals == [msg : Messages, topics : SUBSET Topics,
           targets : SUBSET (Peers \cup Streams), dest : Streams \cup {NoStream}]

Dead(p) == [kind |-> "dead", peer |-> p]
Pub(t) == [kind |-> "publish", topic |-> t]
Frames == [kind : {"dead"}, peer : Peers] \cup [kind : {"publish"}, topic : Topics]

Labels == {"none", "hello", "greet", "select", "consume", "seen", "notify", "route",
           "lookup", "send", "report", "done", "panic", "idle",
           "announceSub", "announceUnsub", "sendSub", "sendUnsub"}

StoreOK ==
    /\ peer_topics \in [Topics -> SUBSET Peers]
    /\ peers \in [Peers -> Streams \cup {NoStream}]
    /\ subscribed_topic_api \in SUBSET Topics
    /\ storeHeld \in BOOLEAN

SharedOK ==
    /\ last_seen_cache \in SUBSET Keys
    /\ floodsub_mpsc \in Seq(Frames)
    /\ chan \in [Streams -> 0..ChanCap]

TasksOK ==
    /\ pc \in [Tasks -> Labels]
    /\ local \in [Tasks -> Locals]

BoundsOK ==
    /\ rpcs \in [Streams -> 0..MaxRpcs]
    /\ apiOps \in 0..MaxApiOps

HistoryOK ==
    /\ told \in [Streams -> SUBSET Topics]
    /\ delivered \in [Inbound -> [Topics -> Nat]]
    /\ copies \in [Inbound -> [Peers -> Nat]]
    /\ via \in [Inbound -> SUBSET Peers]
    /\ expired \in SUBSET Keys
    /\ unsubscribed \in BOOLEAN

TypeOK == StoreOK /\ SharedOK /\ TasksOK /\ BoundsOK /\ HistoryOK

Init ==
    /\ peer_topics = [t \in Topics |-> {}]
    /\ peers = [p \in Peers |-> NoStream]
    /\ subscribed_topic_api = {}
    /\ storeHeld = FALSE
    /\ last_seen_cache = {}
    /\ floodsub_mpsc = <<>>
    /\ chan = [s \in Streams |-> 0]
    /\ pc = [k \in Tasks |-> IF k \in Streams THEN "none" ELSE "idle"]
    /\ local = [k \in Tasks |-> Empty]
    /\ rpcs = [s \in Streams |-> 0]
    /\ apiOps = 0
    /\ told = [s \in Streams |-> {}]
    /\ delivered = [m \in Inbound |-> [t \in Topics |-> 0]]
    /\ copies = [m \in Inbound |-> [p \in Peers |-> 0]]
    /\ via = [m \in Inbound |-> {}]
    /\ expired = {}
    /\ unsubscribed = FALSE

(* A handler's channel is closed once its task has returned or panicked.   *)
Closed(s) == pc[s] \in {"done", "panic"}

(* The receiver of floodsub_mpsc belongs to the internal task.             *)
IntDown == pc[Int] = "panic"

(* Mutation: one RPC too many. *)
HasRoomOffByOne(s) == chan[s] <= ChanCap

(* A send into a handler's channel waits for room.                         *)
HasRoom(s) == chan[s] < ChanCap

Goto(k, l) == pc' = [pc EXCEPT ![k] = l]

(* The task is done with what it carried and goes back to its loop.        *)
Return(k) == /\ pc' = [pc EXCEPT ![k] = IF k \in Streams THEN "select" ELSE "idle"]
             /\ local' = [local EXCEPT ![k] = Empty]

Panic(k) == /\ Goto(k, "panic")
            /\ local' = [local EXCEPT ![k] = Empty]

-----------------------------------------------------------------------------
(* The stream handler.  It first registers its channel, then reads the     *)
(* subscribed topics, then queues the hello RPC into its own channel.      *)

(* Mutation: the channel is never registered. *)
RegisterNothing(s) == UNCHANGED peers

Register(s) == peers' = [peers EXCEPT ![PeerOf[s]] = s]

(* Mutation: the topics are read before the channel is registered. *)
OpenAfterHello(s) ==
    /\ pc[s] = "none"
    /\ ~storeHeld
    /\ \/ /\ local[s].dest = NoStream
          /\ local' = [local EXCEPT ![s].dest = s, ![s].topics = subscribed_topic_api]
          /\ UNCHANGED <<peers, pc>>
       \/ /\ local[s].dest = s
          /\ local' = [local EXCEPT ![s].dest = NoStream]
          /\ Register(s)
          /\ Goto(s, IF local[s].topics = {} THEN "select" ELSE "greet")
    /\ UNCHANGED <<peer_topics, subscribed_topic_api, storeHeld, last_seen_cache,
                   floodsub_mpsc, chan, bounds, history>>

Open(s) ==
    /\ pc[s] = "none"
    /\ ~storeHeld
    /\ Register(s)
    /\ Goto(s, "hello")
    /\ UNCHANGED <<peer_topics, subscribed_topic_api, storeHeld, last_seen_cache,
                   floodsub_mpsc, chan, local, bounds, history>>

ReadHello(s) ==
    /\ pc[s] = "hello"
    /\ ~storeHeld
    /\ Goto(s, IF subscribed_topic_api = {} THEN "select" ELSE "greet")
    /\ local' = [local EXCEPT ![s].topics = subscribed_topic_api]
    /\ UNCHANGED <<storeVars, last_seen_cache, floodsub_mpsc, chan, bounds, history>>

SendHello(s) ==
    /\ pc[s] = "greet"
    /\ HasRoom(s)
    /\ chan' = [chan EXCEPT ![s] = @ + 1]
    /\ told' = [told EXCEPT ![s] = @ \cup local[s].topics]
    /\ Return(s)
    /\ UNCHANGED <<storeVars, last_seen_cache, floodsub_mpsc, bounds, delivered, copies, via,
                   expired, unsubscribed>>

(* Its loop: move an RPC from the channel to the stream, or read one RPC.  *)
Drain(s) ==
    /\ pc[s] = "select"
    /\ chan[s] > 0
    /\ chan' = [chan EXCEPT ![s] = @ - 1]
    /\ UNCHANGED <<storeVars, last_seen_cache, floodsub_mpsc, pc, local, bounds, history>>

Receive(s) ==
    /\ pc[s] = "select"
    /\ ~storeHeld
    /\ rpcs[s] < MaxRpcs
    /\ rpcs' = [rpcs EXCEPT ![s] = @ + 1]
    /\ UNCHANGED <<peers, subscribed_topic_api, storeHeld, last_seen_cache, floodsub_mpsc,
                   chan, apiOps, history>>

RecvSub(s, t) ==
    /\ Receive(s)
    /\ peer_topics' = [peer_topics EXCEPT ![t] = @ \cup {PeerOf[s]}]
    /\ UNCHANGED <<pc, local>>

RecvUnsub(s, t) ==
    /\ Receive(s)
    /\ peer_topics' = [peer_topics EXCEPT ![t] = @ \ {PeerOf[s]}]
    /\ UNCHANGED <<pc, local>>

(* A message on none of the subscribed topics is ignored.                  *)
RecvPublish(s, m) ==
    /\ Receive(s)
    /\ IF m.topics \cap subscribed_topic_api = {}
       THEN UNCHANGED <<pc, local>>
       ELSE /\ Goto(s, "consume")
            /\ local' = [local EXCEPT ![s].msg = m]
    /\ UNCHANGED peer_topics

(* consume_pubsub_msg reads the topics a second time and unwraps: if the   *)
(* last subscription has gone in between, the handler panics.              *)
Consume(s) ==
    /\ pc[s] = "consume"
    /\ ~storeHeld
    /\ \/ /\ subscribed_topic_api = {}
          /\ Panic(s)
       \/ /\ subscribed_topic_api # {}
          /\ local[s].msg.from = Local
          /\ Return(s)
       \/ /\ subscribed_topic_api # {}
          /\ local[s].msg.from # Local
          /\ Goto(s, "seen")
          /\ local' = [local EXCEPT ![s].topics = local[s].msg.topics \cap subscribed_topic_api]
    /\ UNCHANGED <<storeVars, last_seen_cache, floodsub_mpsc, chan, bounds, history>>

(* Mutation: the key of a new message is not inserted. *)
RememberNothing(m) == UNCHANGED last_seen_cache

Remember(m) == last_seen_cache' = last_seen_cache \cup {Key(m)}

(* is_msg_seen: look up and insert under one lock of the cache.            *)
CheckSeen(s) ==
    /\ pc[s] = "seen"
    /\ LET m == local[s].msg IN
       IF Key(m) \in last_seen_cache
       THEN /\ Return(s)
            /\ UNCHANGED <<last_seen_cache, via>>
       ELSE /\ Remember(m)
            /\ via' = [via EXCEPT ![m] = @ \cup {PeerOf[s]}]
            /\ Goto(s, IF local[s].topics = {} THEN "route" ELSE "notify")
            /\ UNCHANGED local
    /\ UNCHANGED <<storeVars, floodsub_mpsc, chan, bounds, told, delivered, copies, expired,
                   unsubscribed>>

(* cleanup_msg_cache: a key is dropped two minutes after its first copy,   *)
(* whatever is still done with that copy or under way elsewhere.           *)
CleanUp(old) ==
    /\ old # {}
    /\ last_seen_cache' = last_seen_cache \ old
    /\ expired' = expired \cup old
    /\ UNCHANGED <<storeVars, floodsub_mpsc, chan, pc, local, bounds, told, delivered, copies,
                   via, unsubscribed>>

(* The receiving end of a topic's channel is dropped when the application  *)
(* panics in subscribe() before it has spawned the receive loop.           *)
Listening(t) == ~(pc[Api] = "panic" /\ t \in local[Api].topics)

(* notify_subscription, for one topic of the snapshot: the topic may have  *)
(* gone since, and get().unwrap() then panics.                             *)
Notify(s, t) ==
    /\ pc[s] = "notify"
    /\ t \in local[s].topics
    /\ ~storeHeld
    /\ IF t \in subscribed_topic_api /\ Listening(t)
       THEN /\ delivered' = [delivered EXCEPT ![local[s].msg][t] = @ + 1]
            /\ local' = [local EXCEPT ![s].topics = @ \ {t}]
            /\ Goto(s, IF local[s].topics = {t} THEN "route" ELSE "notify")
       ELSE Panic(s) /\ UNCHANGED delivered
    /\ UNCHANGED <<storeVars, last_seen_cache, floodsub_mpsc, chan, bounds, told, copies, via,
                   expired, unsubscribed>>

-----------------------------------------------------------------------------
(* publish: the peers subscribed to one of the topics, but for the one the *)
(* message came from and the one that wrote it; then one write_msg each.   *)

Forwarder(k) == IF k = Int THEN Local ELSE PeerOf[k]

(* Mutation: the forwarder is not excluded. *)
GetPeersButOrigin(m, forwarder) ==
    (UNION {peer_topics[t] : t \in m.topics}) \ {m.from}

GetPeersToSend(m, forwarder) ==
    (UNION {peer_topics[t] : t \in m.topics}) \ {forwarder, m.from}

Route(k) ==
    /\ pc[k] = "route"
    /\ ~storeHeld
    /\ LET ps == GetPeersToSend(local[k].msg, Forwarder(k)) IN
       IF ps = {} THEN Return(k)
       ELSE /\ Goto(k, "lookup")
            /\ local' = [local EXCEPT ![k].targets = ps]
    /\ UNCHANGED <<storeVars, last_seen_cache, floodsub_mpsc, chan, bounds, history>>

(* write_msg clones the peer's sender under the lock and panics when the   *)
(* peer has been removed since the targets were chosen.                    *)
Lookup(k, p) ==
    /\ pc[k] = "lookup"
    /\ p \in local[k].targets
    /\ ~storeHeld
    /\ IF peers[p] = NoStream THEN Panic(k)
       ELSE /\ Goto(k, "send")
            /\ local' = [local EXCEPT ![k].targets = @ \ {p}, ![k].dest = peers[p]]
    /\ UNCHANGED <<storeVars, last_seen_cache, floodsub_mpsc, chan, bounds, history>>

(* The send waits while the channel is full, and panics if it is closed.   *)
Send(k) ==
    /\ pc[k] = "send"
    /\ LET s == local[k].dest
           m == local[k].msg
       IN  \/ /\ Closed(s)
              /\ Panic(k)
              /\ UNCHANGED <<chan, copies>>
           \/ /\ ~Closed(s)
              /\ HasRoom(s)
              /\ chan' = [chan EXCEPT ![s] = @ + 1]
              /\ copies' = IF m \in Inbound THEN [copies EXCEPT ![m][PeerOf[s]] = @ + 1]
                                            ELSE copies
              /\ IF local[k].targets = {} THEN Return(k)
                 ELSE Goto(k, "lookup") /\ UNCHANGED local
    /\ UNCHANGED <<storeVars, last_seen_cache, floodsub_mpsc, bounds, told, delivered, via,
                   expired, unsubscribed>>

(* Mutation: the end is reported from inside the loop as well. *)
StreamEndsTwice(s) ==
    /\ pc[s] = "select"
    /\ Goto(s, "report")
    /\ local' = [local EXCEPT ![s] = Empty]
    /\ floodsub_mpsc' = Append(floodsub_mpsc, Dead(PeerOf[s]))
    /\ UNCHANGED <<storeVars, last_seen_cache, chan, bounds, history>>

(* The stream fails: the handler leaves its loop and reports the dead peer. *)
StreamEnds(s) ==
    /\ pc[s] = "select"
    /\ Goto(s, "report")
    /\ local' = [local EXCEPT ![s] = Empty]
    /\ UNCHANGED <<storeVars, last_seen_cache, floodsub_mpsc, chan, bounds, history>>

(* Mutation: the handler returns without a report. *)
ReportNothing(s) ==
    /\ pc[s] = "report"
    /\ Goto(s, "done")
    /\ UNCHANGED <<storeVars, last_seen_cache, floodsub_mpsc, chan, local, bounds, history>>

Report(s) ==
    /\ pc[s] = "report"
    /\ IF IntDown THEN Goto(s, "panic") /\ UNCHANGED floodsub_mpsc
       ELSE /\ Goto(s, "done")
            /\ floodsub_mpsc' = Append(floodsub_mpsc, Dead(PeerOf[s]))
    /\ UNCHANGED <<storeVars, last_seen_cache, chan, local, bounds, history>>

-----------------------------------------------------------------------------
(* The internal task.                                                      *)

(* Mutation: the topics of the dead peer are kept. *)
TopicsKept(p) == peer_topics

TopicsWithout(p) == [t \in Topics |-> peer_topics[t] \ {p}]

HandleDeadPeers ==
    /\ pc[Int] = "idle"
    /\ ~storeHeld
    /\ floodsub_mpsc # <<>>
    /\ Head(floodsub_mpsc).kind = "dead"
    /\ LET p == Head(floodsub_mpsc).peer IN
       /\ peers' = [peers EXCEPT ![p] = NoStream]
       /\ peer_topics' = IF peers[p] = NoStream THEN peer_topics ELSE TopicsWithout(p)
    /\ floodsub_mpsc' = Tail(floodsub_mpsc)
    /\ UNCHANGED <<subscribed_topic_api, storeHeld, last_seen_cache, chan, pc, local,
                   bounds, history>>

StartPublish ==
    /\ pc[Int] = "idle"
    /\ floodsub_mpsc # <<>>
    /\ Head(floodsub_mpsc).kind = "publish"
    /\ Goto(Int, "route")
    /\ local' = [local EXCEPT ![Int].msg = OwnMsg(Head(floodsub_mpsc).topic)]
    /\ floodsub_mpsc' = Tail(floodsub_mpsc)
    /\ UNCHANGED <<storeVars, last_seen_cache, chan, bounds, history>>

-----------------------------------------------------------------------------
(* The application.  subscribe() and unsubscribe() change the set of       *)
(* topics and release the store before they announce the change.           *)

ApiCall ==
    /\ pc[Api] = "idle"
    /\ apiOps < MaxApiOps
    /\ apiOps' = apiOps + 1
    /\ UNCHANGED <<peer_topics, peers, storeHeld, last_seen_cache, chan, rpcs, told,
                   delivered, copies, via, expired>>

ApiSubscribe(t) ==
    /\ ApiCall
    /\ ~storeHeld
    /\ t \notin subscribed_topic_api
    /\ subscribed_topic_api' = subscribed_topic_api \cup {t}
    /\ Goto(Api, "announceSub")
    /\ local' = [local EXCEPT ![Api].topics = {t}]
    /\ UNCHANGED <<floodsub_mpsc, unsubscribed>>

ApiUnsubscribe(t) ==
    /\ ApiCall
    /\ ~storeHeld
    /\ t \in subscribed_topic_api
    /\ subscribed_topic_api' = subscribed_topic_api \ {t}
    /\ Goto(Api, "announceUnsub")
    /\ local' = [local EXCEPT ![Api].topics = {t}]
    /\ unsubscribed' = TRUE
    /\ UNCHANGED floodsub_mpsc

ApiPublish(t) ==
    /\ ApiCall
    /\ IF IntDown THEN Panic(Api) /\ UNCHANGED floodsub_mpsc
       ELSE /\ floodsub_mpsc' = Append(floodsub_mpsc, Pub(t))
            /\ UNCHANGED <<pc, local>>
    /\ UNCHANGED <<subscribed_topic_api, unsubscribed>>

(* message_all_peers keeps the store locked while it sends.                *)
AnnounceLock ==
    /\ pc[Api] \in {"announceSub", "announceUnsub"}
    /\ ~storeHeld
    /\ storeHeld' = TRUE
    /\ Goto(Api, IF pc[Api] = "announceSub" THEN "sendSub" ELSE "sendUnsub")
    /\ local' = [local EXCEPT ![Api].targets = {peers[p] : p \in Peers} \ {NoStream}]
    /\ UNCHANGED <<peer_topics, peers, subscribed_topic_api, last_seen_cache,
                   floodsub_mpsc, chan, bounds, history>>

(* Mutation: a closed channel is tried again instead of failing. *)
AnnounceSendRetry(s) ==
    /\ pc[Api] \in {"sendSub", "sendUnsub"}
    /\ s \in local[Api].targets
    /\ ~Closed(s)
    /\ HasRoom(s)
    /\ chan' = [chan EXCEPT ![s] = @ + 1]
    /\ told' = [told EXCEPT ![s] = IF pc[Api] = "sendSub" THEN @ \cup local[Api].topics
                                   ELSE @ \ local[Api].topics]
    /\ local' = [local EXCEPT ![Api].targets = @ \ {s}]
    /\ UNCHANGED <<storeVars, last_seen_cache, floodsub_mpsc, pc, bounds, delivered, copies,
                   via, expired, unsubscribed>>

(* When a send panics the guard is dropped with the task, and so is the    *)
(* receiver of the topic subscribe() was about to serve.                   *)
AnnounceSend(s) ==
    /\ pc[Api] \in {"sendSub", "sendUnsub"}
    /\ s \in local[Api].targets
    /\ \/ /\ Closed(s)
          /\ Goto(Api, "panic")
          /\ local' = [local EXCEPT ![Api] = [Empty EXCEPT !.topics =
                          IF pc[Api] = "sendSub" THEN local[Api].topics ELSE {}]]
          /\ storeHeld' = FALSE
          /\ UNCHANGED <<chan, told>>
       \/ /\ ~Closed(s)
          /\ HasRoom(s)
          /\ chan' = [chan EXCEPT ![s] = @ + 1]
          /\ told' = [told EXCEPT ![s] = IF pc[Api] = "sendSub"
                                         THEN @ \cup local[Api].topics
                                         ELSE @ \ local[Api].topics]
          /\ local' = [local EXCEPT ![Api].targets = @ \ {s}]
          /\ UNCHANGED <<pc, storeHeld>>
    /\ UNCHANGED <<peer_topics, peers, subscribed_topic_api, last_seen_cache,
                   floodsub_mpsc, bounds, delivered, copies, via, expired, unsubscribed>>

AnnounceDone ==
    /\ pc[Api] \in {"sendSub", "sendUnsub"}
    /\ local[Api].targets = {}
    /\ storeHeld' = FALSE
    /\ Return(Api)
    /\ UNCHANGED <<peer_topics, peers, subscribed_topic_api, last_seen_cache,
                   floodsub_mpsc, chan, bounds, history>>

-----------------------------------------------------------------------------
(* What a task does by itself, and what others bring about.                *)

HandlerStep(s) ==
    \/ ReadHello(s) \/ SendHello(s) \/ Drain(s)
    \/ Consume(s) \/ CheckSeen(s) \/ (\E t \in Topics : Notify(s, t))
    \/ Route(s) \/ (\E p \in Peers : Lookup(s, p)) \/ Send(s)
    \/ Report(s)

IntStep ==
    \/ HandleDeadPeers \/ StartPublish
    \/ Route(Int) \/ (\E p \in Peers : Lookup(Int, p)) \/ Send(Int)

AnnounceStep ==
    \/ AnnounceLock \/ (\E s \in Streams : AnnounceSend(s)) \/ AnnounceDone

PeerStep(s) ==
    \/ Open(s)
    \/ \E t \in Topics : RecvSub(s, t) \/ RecvUnsub(s, t)
    \/ \E m \in Inbound : RecvPublish(s, m)
    \/ StreamEnds(s)

ApiCalls == \E t \in Topics : ApiSubscribe(t) \/ ApiUnsubscribe(t) \/ ApiPublish(t)

Next ==
    \/ \E s \in Streams : HandlerStep(s) \/ PeerStep(s)
    \/ IntStep
    \/ AnnounceStep
    \/ ApiCalls
    \/ \E old \in SUBSET last_seen_cache : CleanUp(old)

Spec == Init /\ [][Next]_vars

(* tokio runs every task that is ready; nothing obliges peers or the       *)
(* application to act.                                                     *)
Fairness ==
    /\ \A s \in Streams : WF_vars(HandlerStep(s))
    /\ WF_vars(IntStep)
    /\ WF_vars(AnnounceStep)

FairSpec == Spec /\ Fairness

-----------------------------------------------------------------------------
(* Properties.                                                             *)

(* A handler that has greeted its peer and still serves the entry of the   *)
(* map of peers.                                                           *)
Greeted(s) == /\ peers[PeerOf[s]] = s
              /\ pc[s] \notin {"none", "hello", "greet", "done", "panic"}

(* However many peers relay a message, and however their handlers          *)
(* interleave between the look-up in the cache and the hand-over, a topic  *)
(* receives it at most once (is_msg_seen, notify_subscription), as long as *)
(* its key has not expired (cleanup_msg_cache).                            *)
DeliveredOnce ==
    \A m \in Inbound, t \in Topics : Key(m) \notin expired => delivered[m][t] <= 1

(* A message is passed on at most once to each peer and never back to the  *)
(* peer it was accepted from, as long as its key has not expired, and never *)
(* to its origin, although the targets are resolved one by one while peers *)
(* come and go (publish, write_msg).                                       *)
NoEcho == \A m \in Inbound, p \in Peers :
             /\ p = m.from => copies[m][p] = 0
             /\ Key(m) \notin expired =>
                    copies[m][p] <= 1 /\ (p \in via[m] => copies[m][p] = 0)

(* No subscription is missed by a connecting peer: the handler registers   *)
(* its channel before it reads the topics, subscribe() adds the topic      *)
(* before it reads the channels, so one of the two sees the other          *)
(* (handle_new_peer, subscribe, message_all_peers).                        *)
SubscriptionsAnnounced ==
    pc[Api] = "idle" =>
        \A s \in Streams : Greeted(s) => subscribed_topic_api \subseteq told[s]

(* A running handler owns its peer's entry in the map of peers, so that    *)
(* publications and announcements reach it.                                *)
LivePeersTracked ==
    \A s \in Streams : pc[s] \notin {"none", "done", "panic"} => peers[PeerOf[s]] = s

(* Every peer a publication can be routed to has an entry in the map of    *)
(* peers at the moment it is chosen: what one task learns of a peer's      *)
(* topics never outlives the entry another task removes                    *)
(* (handle_subopts, handle_dead_peers, get_peers_to_send).                 *)
RoutablePeers ==
    \A t \in Topics : \A p \in peer_topics[t] : peers[p] # NoStream

(* The entry of a stream that has ended by itself is only there while the  *)
(* report of its end is queued (stream_handler, handle_dead_peers).        *)
EndIsReported ==
    \A s \in Streams :
        pc[s] = "done" /\ peers[PeerOf[s]] = s
            => \E i \in 1..Len(floodsub_mpsc) : floodsub_mpsc[i] = Dead(PeerOf[s])

(* The unwraps can only fail after a stream has ended or a topic has been  *)
(* given up: connecting, subscribing and publishing alone bring no task    *)
(* down, however they interleave.                                          *)
NoSpontaneousPanic ==
    (\E k \in Tasks : pc[k] = "panic") => unsubscribed \/ \E s \in Streams : pc[s] = "done"

(* A peer whose stream has ended is eventually forgotten, together with    *)
(* its topics, unless the internal task has gone down before.              *)
DeadPeerForgotten ==
    \A s \in Streams :
        pc[s] = "report" ~> \/ IntDown
                            \/ /\ peers[PeerOf[s]] # s
                               /\ \A t \in Topics : PeerOf[s] \notin peer_topics[t]

(* A call of the application that has changed the topics returns, unless   *)
(* it panics: the announcement does not hold the store for ever.           *)
CallsReturn == pc[Api] \notin {"idle", "panic"} ~> pc[Api] \in {"idle", "panic"}

=============================================================================
