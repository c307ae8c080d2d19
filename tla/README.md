# rnet-p2p in TLA+

A model of rnet-p2p, a peer-to-peer networking stack in Rust (tokio), with the
TLC configurations that check it on small instances and TLAPS proofs of its main
safety properties for every instance. Paths below are relative to
`src/crates/` of the repository.

## 1. The system

A node runs one **swarm** task. The swarm dials and accepts raw connections
(TCP or UDP), *upgrades* each one (security, then protocol selection, then the
muxer handshake), and keeps a map from peer to connection. Every upgraded
connection has a **connection task** of the muxer, which carries many streams
over it; every stream has a task of its own, which negotiates a protocol and
then runs that protocol's handler: **ping** or **floodsub**. The **node** is the
facade the application calls.

| Component | State it keeps | Operations | Talks to |
|---|---|---|---|
| Node `node/` | a mutex around the node, handlers by protocol, the FloodSub value, a count for ping | connect, disconnect, new_stream, ping, subscribe, unsubscribe, publish, queries | swarm by a relay task and a bounded channel; FloodSub by calls under the mutex |
| Swarm `swarm/` | peer store, map peer -> connection, its channel, its listener | accept, connect, new_stream, on_disconnect, the upgrade (conn_handler) | connection tasks by their channels; they report their end through the swarm's channel |
| Muxer `muxer/` | per connection: map id -> stream, id counter, channel; per stream: id, channel | open, accept, negotiate, route by id, write, close, end | the raw connection; the swarm; protocol handlers |
| FloodSub `protocols/floodsub/` | topic -> peers, peer -> handler's channel, own subscriptions (one mutex); keys seen (another mutex); floodsub_mpsc | greet, receive subscriptions and messages, forward, publish, subscribe, unsubscribe, forget dead peers | its streams; subscriptions of the application |
| Ping, RLNC `protocols/ping/` | the count of pings, shared by streams; coded packets received | ping with a timeout, infinite ping, answer; encode, collect, decode | its streams |
| Transports `transport/` | TCP: nothing; UDP: map address -> socket channel | dial, accept, framing, UDP Connect and its acknowledgement, INTERNAL disconnect | the operating system |
| Upgrade `security/`, `multistream/`, `muxer/src/transport.rs` | the handshake in progress | key exchange, protocol selection, muxer selection | both ends of one raw connection |
| Identity, schema | keys, addresses, generated codecs | parse, sign, encode | everyone |

What makes it hard:

- *Concurrency at the awaits.* FloodSub is one value used by many tasks; it
  unlocks between learning something and using it (which peers to write to,
  which topics to announce). The swarm and the connection tasks are `select!`
  loops that do long work inside a branch.
- *Bounded channels.* Every channel holds 100 entries and a send waits. Some
  tasks send into channels only they drain, or while they hold a lock.
- *Names that outlive what they name.* A dead stream or connection is reported
  by the peer's id only, later, through a queue; the peer may be back by then.
- *Failure by panic.* The repository's README.md says "Error handling is mostly
  `unwrap()`; a misbehaving peer can bring down the task handling it." A panic
  drops the task's channel ends, which is how others notice, or fail in turn.
- *Nothing has a timeout* but ping and the UDP liveliness check.

What makes each part correct:

| Part | Promise |
|---|---|
| FloodSub | each topic gets a message at most once; a message goes to each peer at most once and never back; every connected peer knows all our subscriptions; the maps name exactly the live handlers; a task only panics for a cause outside itself; calls return |
| Muxer | a stream delivers what was written to it, in order, whatever other streams do; both ends of a stream run the same protocol; a payload never overtakes the announcement of its stream; a connection's end is noticed; written messages arrive; asked streams settle |
| Swarm | one connection per pair; the map names live connections; lost ones are forgotten; every dial is upgraded or fails; every command is handled; the loop survives |
| UDP | a dial settles; both ends agree on what is connected; a silent peer is dropped everywhere |
| Ping, RLNC | a stream runs the rounds its caller asked for; an answer is counted for the ping it answers; every measurement is reported; a ping leaves the connection to the others; enough packets of a set suffice, and what is decoded is what was encoded |
| Upgrade | each end gets through it, knowing the other, or dies in it, the dialer only after the listener; both have the same secret; the muxer starts on a clean connection; over TCP it always ends |

`PROJECT.json` lists the components with their status, and the 40 hazards the
properties are aimed at, each at its line.

## 2. The modules

| Module | Models | Form |
|---|---|---|
| `Floodsub` | `protocols/floodsub/src/{pubsub,subscription,cache}.rs`, and the calls of `node/src/node.rs` | state machine, one node, any number of streams |
| `FloodsubTypes`, `FloodsubProofs` | theorems of `Floodsub` | proofs |
| `Mplex` | `muxer/src/mplex/{conn,stream,headers}.rs` | state machine, both ends of one connection |
| `StreamChannels` | what the streams of a connection promise their handlers | abstract specification |
| `MplexProofs` | theorems of `Mplex`, the refinement among them | proofs |
| `Swarm` | `swarm/src/{inner,swarm,headers}.rs`, dial and accept of TCP | state machine, several nodes |
| `SwarmProofs` | theorems of `Swarm` | proofs |
| `Udp` | `transport/src/udp/*`, `muxer/src/conn.rs` (ping_check), the muxer's Liveliness and Disconnected frames, `on_disconnect` over UDP | state machine, several nodes |
| `UdpProofs` | theorems of `Udp` | proofs |
| `Upgrade` | `conn_handler` of the swarm, `security/`, `multistream/`, `muxer/src/transport.rs`, and the reads of `transport/src/tcp/conn.rs` under the muxer's `select!` | state machine, both ends of one connection |
| `UpgradeExchange` | what an upgrade promises the swarm | abstract specification |
| `UpgradeProofs` | theorems of `Upgrade`, the refinement among them | proofs |
| `Ping` | `protocols/ping/src/handler.rs`, the counts and rounds of `rlnc/engine.rs`, `Node::ping` | state machine, both ends of some streams |
| `PingProofs` | theorems of `Ping` | proofs |
| `Rlnc` | `protocols/ping/src/rlnc/{payload,engine}.rs` | GF(2^8), encoding and elimination as functions; state machine of one coded set at its receiver |
| `RlncProofs` | theorems of `Rlnc` | proofs |
| `MCFloodsub`, `MCMplex`, `MCSwarm`, `MCUdp`, `MCUpgrade`, `MCPing`, `MCRlnc` | instances for TLC | constants only |

Conventions. An action is the code between two awaits that another task can
notice, and carries the name of the function or step it stands for; `pc`,
`conn[x].at`, `task`, `swarm[n].at` and `stage` say where a task stands. A send
into a bounded channel has a guard for room; the wait is the label before it. A
failed `unwrap()` or `expect()` moves its task to "panic" (or "dead", for a
swarm). Variables under *history* are not in the code: they record what was
written, read, delivered or announced, for the properties. Some operators,
directly above the one they vary, are *faults* (`HasRoomOffByOne`,
`LowestFreeId`, `ConnReportsNothing`, ...): the same step with a plausible
mistake. They are used by no specification; with one in place of the original
the property it is paired with in `PROJECT.json` fails, which shows that the
property depends on that line of the code.

### Floodsub

| In the model | In the code |
|---|---|
| `peer_topics`, `peers`, `subscribed_topic_api` | `FloodsubStore`, one mutex; `storeHeld` is that mutex kept across the sends of `message_all_peers` |
| `last_seen_cache`, `CleanUp` | the keys of messages seen, and `cleanup_msg_cache`: any keys may have grown old at any time; `expired` remembers which ever did |
| `floodsub_mpsc` | the channel of the internal task: publications and reports of dead peers |
| `chan[s]` | how full the channel of the handler of stream `s` is; its receiver lives as long as the handler |
| `Open`, `ReadHello`, `SendHello` | `handle_new_peer`: register, read the topics, queue the hello |
| `RecvSub`, `RecvUnsub`, `Receive...` | one RPC of the peer: `handle_subopts`, then the message |
| `consume`, `seen`, `notify`, `route`, `lookup`, `send` (labels) | the awaits of `handle_incoming`, `notify_subscription`, `publish`, `get_peers_to_send`, `write_msg` |
| `StreamEnds`, `Report`, `HandleDeadPeers` | the end of `stream_handler` and its way through the internal task |
| `ApiSubscribe`, `ApiUnsubscribe`, `ApiPublish`, `Announce*` | the calls of the node; the node's mutex admits one at a time |

A message is its origin, sequence number and topics. An RPC carries one
subscription change or one message. The channels to the application's
subscriptions are taken to be drained.

### Mplex

Both ends (`A`, `B`) of one connection. `conn[x]` is the connection task with
the frame in its hands; `mpsc[x]` its channel; `wire[x]` what it has written and
the other end has not read, a FIFO of whole frames that may fail
(`LinkLost`); `streams[x]` the map id -> stream; `task[x][s]`, `inbox[x][s]` the
task of a stream and its channel. A stream is a *session*: which stream a frame
belongs to is known only by its id, as in the code, and the session is used by
the properties. `ConnOpen`/`ConnAnnounce` are the NewStream arm for the swarm's
request, `ConnAccept` the one for the peer's; `ConnRoute`, `ConnDeliver` are
`handle_incoming`; `ConnWrite`, `ConnFlush`, `ConnClose`, `ConnEof` the other
arms; `Request`, `Await`, `Answer`, `Reply` are `negotiate`; the handler of the
protocol then reads, writes, closes or returns as it likes.

### Swarm

Any number of nodes. `swarm[n]` is what the swarm task is doing: its loop, an
upgrade over a connection, opening a stream; while it upgrades it does nothing
else. `stage[n][c]` is how far connection `c` has got at its end `n`: waiting in
the backlog, being upgraded, running under its own task, reporting its end,
ended, panicked. The upgrade is one exchange in which the listener finishes
first, which is what `Upgrade` is shown to implement; the listener's last write
and its `update_peerstore` are one step here. The connection task is the one of
`Mplex`, reduced to how it ends.

### Udp

One node is three kinds of tasks around one socket: the I/O task (`io`), the
swarm (`swarm`), and per connection the muxer's task and its liveliness check
(`conn[n][k].at`, `.check`).

| In the model | In the code |
|---|---|
| `net`, `Lose` | datagrams under way; any may be lost, and one that meets a full buffer is |
| `write_req`, `new_peer` | `write_req_tx`, `new_peer_tx` of `UdpTransport` |
| `peerstore` | the map address -> sender of the connection's channel; the map holds the only sender, so `Starved` is recv_msg on a channel without one |
| `Receive`, `Notify`, `Route`, `RoutePanic`, `Flush` | `io_loop` and `handle_incoming`; `io[n]` is the datagram in its hands |
| `Dial`, `SwarmSends`, `Register`, `SwarmReceives` | `connect` and `dial`: Connect, map, acknowledgement, upgrade |
| `Accept`, `SwarmSends`, `SwarmReceives` | `accept`: map, acknowledgement, upgrade |
| `Disconnect`, `ConnCloses` | `on_disconnect` over UDP, `UdpConn::close` and its internal frame |
| `ConnTakes`, `ConnWrites`, `ConnReads`, `ConnAnswers` | the muxer's `conn_handler` |
| `Wakes`, `CheckSends`, `CheckHears`, `TimesOut`, `CheckReports` | `ping_check` |

The upgrade is one exchange the dialer starts, as in `Swarm`. Time is not
measured: a timer may fire whenever it runs. A connect to a peer already
connected changes nothing and is not an action here. `ping_check` tells whether
the nodes are configured to run the liveliness check, and is chosen initially.

### Upgrade

`Script` lists the eight rounds of `conn_handler`: agree on multiselect and on
the security protocol, exchange keys, agree on multiselect and identify,
exchange peer infos, agree on multiselect and the muxer. In every round each end
says one message and hears one; the dialer speaks first, except that the
listener tells its peer info first.

| In the model | In the code |
|---|---|
| `done[e]` | how many messages the end has sent and received: its place in the script |
| `chan[e]`, `open[e]` | what is on its way to the end; whether its raw connection still works |
| `Sends`, `Receives`, `SendFails`, `ReceiveFails` | the `send_msg`, `recv_msg` of the rounds, and their unwrap()s |
| `Fits` | what each round takes: the very protocol (`try_select`), any 32 bytes for a key, a decodable peer info |
| `odd` | a round in which the listener's build knows another protocol |
| `secret`, `remote`, `peer_store` | whose keys the shared secret is made of; the identified peer; `update_peerstore` |
| `Loses`, `Duplicates`, `Overtakes`, `Breaks` | what UDP does to datagrams, and the end of a TCP connection |
| `MuxerWrites`, `MuxerReads`, `ReadDropped`, `cut` | the muxer's `select!` once the end is registered; over TCP it may drop `recv_msg` between its reads, which loses the place in the bytes |

The name of the protocol "dh" is encoded in 32 bytes, so the key exchange also
takes a duplicate of that name for a key (`Cipher`). `SecureConn` passes
messages through: its encryption is commented out in the code.

### Ping

Some streams of one connection. `count` is the field that `Node::ping` writes
and every handler reads when it starts; `notification` is the way of a request
through `NodeInner::run`, the swarm and the muxer. `handler[s][e]` is where the
handler of an end is and in which of how many rounds; `chan[s][e]` what is on
its way to it; `cache[s][e]` how many coded frames of a set it has received.

| In the model | In the code |
|---|---|
| `PingCall`, `OpenStream` | `Node::ping`, and the stream it asks for |
| `InitiatorStarts`, `ListenerStarts` | `stream_handler`, `handle_ping` up to the first round: the count is read and told |
| `Begins`, `Reads`, `ReadFails`, `TimesOut` | one exchange of `ping`, of two seconds at most, and `handle_incoming` for coded frames |
| `Finishes`, `Closes` | the event with the rtts, and the way of CloseStream to the muxer |
| `MuxerPanics` | a frame for a stream without a reader, before its CloseStream was handled |
| `Loses`, `Breaks` | one lost datagram; the end of a TCP connection |

### Rlnc

A byte is the set of its bits that are one. `gf_mul` is the loop of the code,
`gf_inv` its search; `encode`, `Column` and `gaussian_elimination` are
`encode_chunks`, one turn of the elimination's loop, and the loop. The state
machine is one coded set of any coefficients on its way to `handle_incoming`,
any packet of which may be lost. Chunks have one byte (five in the code, which
treats the bytes alike).

### How they fit

`Mplex`'s `LossNoticed` and its panics are what `ConnEnds`, `ConnReports` and
`ConnPanics` of `Swarm` assume of a connection task, and its
`PanicsNeedAnEndedStream` is `MuxerPanics` of `Ping`. `StreamChannels` is what
`Floodsub` and `Ping` assume of a stream: handlers that settled on one protocol,
messages in order, once, none left out, until the stream ends. `Mplex` implements
it where one end opens the streams, checked by TLC and proved; that messages do
arrive is `MessagesArrive`. `Ping` takes from `Rlnc`
that a set is complete with as many packets as it has chunks and that one chunk
is missing from what comes out. These assumptions are matched by reading. That
an upgrade is what `Swarm` takes it for is a refinement too: `Upgrade` implements
`UpgradeExchange`, checked by TLC and proved.

The mapping from `Mplex` to `StreamChannels`: an end of a stream is "silent" until
its task leaves `negotiate` (the one that answers, when it has accepted the name),
"talking" until it returns or panics, then "ended"; what it has written are the
messages handed to the connection's channel. Ids, frames, the map of streams, both
channels, the sockets and the end of the connection do not show: every step on
them is a stutter.

## 3. What is checked

Runs expected to pass:

| Run | Question | Instance and bounds |
|---|---|---|
| `floodsub_safety` | do the maps, deliveries and announcements stay right under every interleaving, full channels included? | two peers, one stream each, one topic; a third party's message that both may relay and an own one that comes back; channels of one RPC, two RPCs per stream, two calls of the application |
| `floodsub_live` | is every dead peer forgotten, does every call return? | same, channels of four, one RPC per stream, fair tasks |
| `mplex_safety` | are streams kept apart, negotiated, announced in order, and is the connection safe from them? | two streams asked for by one end, all channels and sockets of capacity one, up to two messages each way |
| `mplex_live` | is each stream a pair of reliable channels; do messages arrive, opens settle, losses get noticed? | same two streams, of which the peer has no handler for the second, channels with room, a connection that may fail, fair tasks |
| `swarm` | one live connection, maps that forget, a loop that survives, commands and dials that settle | two nodes, one dials up to three times over connections that fail or whose tasks panic |
| `udp` | what may end an I/O task, or begin a panic; what can hurt a second connection; does every half-open connection end, does a dial settle? | two nodes, one dials and may disconnect; with the liveliness check two calls and no payload of a stream; without it a third call, so a second dial, and one payload per connection end; two datagrams each way, any of them lost; fair tasks |
| `upgrade` | do the rounds implement one exchange, with one secret, a clean handover, an end? | both ends over TCP and over UDP, any round refused or none, three faults, two frames of each muxer, fair ends |
| `ping` | are counts, answers and reports right, and is the connection left alone? | two plain pings over TCP; one ping, plain or coded, of two rounds or endless (two rounds here), over TCP that may fail and over UDP that may lose a frame; sets of four frames for three chunks; any exchange may time out; fair handlers |
| `rlnc` | are the field and the elimination right, and what comes out of a set? | every two bytes; three payloads of four chunks, sets of five packets with every choice of eight vectors, any packet lost |

Why the bounds are enough. FloodSub's hazards are pairs of tasks (two handlers
with copies of one message, a handler and the application, a handler and the
internal task), so two peers, one topic and one foreign message show them; two
RPCs let a peer subscribe and then send or withdraw; two calls let the
application subscribe and then publish or withdraw; keys may expire between any
two steps. Capacity one makes every
send wait in some behaviour. In `Mplex` two streams are needed for frames to
interleave and suffice for one to disturb the other; two messages in one
direction show reordering and loss. In `Swarm` the third connection is the first
one that can meet the leftovers of an earlier one and of the one before; its
safety properties also hold with three nodes of which two dial (1.7 million
states, not kept as a run). In `Udp` one connection and the loss of any of its
datagrams reach every wait of dial, accept and the check, and a second connection
every leftover of the first; its safety properties also hold when the dialer
redials under the liveliness check (7.9 million states, not kept as a run). In
`Upgrade` the script is the code's own; two faults are what it takes to make the
ends disagree on their secret (a duplicate for the key, and the loss of the key),
the third lets the disagreement meet another fault; two frames make a muxer read
on after it lost its place. In `Ping` two calls are needed for one to overwrite
the count of the other; two rounds for an answer to be late; a set of four frames
for three chunks leaves frames behind that nobody waits for; one fault reaches
every step. In `Rlnc` three rows need a swap, a scaling and an elimination in both
directions, and the vectors include dependent ones.

Capacity and liveness. `floodsub_live`, `mplex_live` and `udp` give every channel more
room than their bounded traffic can fill, as in a system whose backlog stays
below 100. This is a real precondition: with the capacity of any one of the
connection's channel, the streams' channels or the sockets reduced to one,
`mplex_live` fails, because a connection task sends into the channel only it
drains (conn.rs:141), waits for a stream that waits for it (conn.rs:153), or
writes to a full socket while its peer does (conn.rs:217). With channels of
one, `HalfOpenEnds` of `udp` fails because the I/O task waits for a connection that
waits for it (udp/transport.rs:65, udp/conn.rs:29), and `CallsReturn` of `floodsub_live` fails for `message_all_peers`, which keeps
the store locked while it waits (pubsub.rs:273). The code reaches these states
with 100 entries queued. They are listed as hazards, and no property claims
that they cannot occur.

Fairness. `WF` on the steps of each task that the runtime alone decides: tokio
polls every task that is ready, and a task here is ready when its next step is
enabled. The timers of the liveliness check fire. Nothing is assumed of peers, the network, the application or a
protocol's handler: connecting, sending, calling, choosing to write or close, losing a
connection are unfair. `Swarm` has `SF` on `Accept`: the loop's `select!` picks
its ready branches in random order, so a connection that waits while commands
keep coming is accepted with probability one.

Each end of an upgrade goes on while it can (`Upgrade`), which assumes nothing of
the network; a handler of a ping does, and its two seconds pass (`Ping`). Over UDP
only their exceptions are left to the properties: an upgrade that lost a datagram
or whose other end died, a listener that lost its count.

`CHECK_DEADLOCK FALSE` everywhere: with the bounds used up and every stream
ended, a run of the system has nothing left to do.

What the runs do not claim.

- *UDP.* `IoDiesForACause` names two causes and both occur: a datagram from a
  peer whose connection has ended here, and the acknowledgement that overtakes
  dial's insertion into the map (transport.rs:169). `DialsSettle` excepts a loss,
  after which a dial waits for ever. `HalfOpenEnds` speaks of the connection
  tasks: the swarm is never told and keeps its entry (conn.rs:159-163). A redial
  can also fail without a loss: the internal Disconnect of the closed connection,
  handled after the new one is registered, removes the new entry
  (transport.rs:55), or the acknowledgement of the second dial is routed to the
  first connection, whose task it ends, while the dial waits for ever.
- *Upgrade.* `SameSecret` needs fewer than two faults over UDP: a duplicate of
  "dh" in place of the key and the loss of the key get both ends through with
  different secrets, which nothing notices, as nothing is encrypted.
  `CleanHandover` needs messages in order, and over TCP it names the one way a
  muxer loses its place: the read that `select!` dropped (tcp/conn.rs:34).
- *Floodsub.* `DeliveredOnce` and `NoEcho` speak of the life of a key. The hello
  RPC may announce a topic given up since it was read (pubsub.rs:457-463), and
  the report of a peer's old stream, handled after the peer came back, removes
  the entry of its new stream (pubsub.rs:478): `SubscriptionsAnnounced` claims
  one direction only, and `LivePeersTracked` speaks of peers with one stream.
- *Swarm.* Likewise a late report removes the entry of a redialed connection
  (inner.rs:339); `StaleEntriesReported` claims the converse only.
- *Ping.* A coded ping takes the connection down when the frames beyond those
  needed arrive between the end of its handler and its CloseStream
  (`PlainPingsLeaveConn` excepts it), and its handler panics, reporting nothing,
  when the stream ends in a round (`MeasuredIsReported`). After a timeout,
  answers stay one round late (`AnswersInRound`). A listener that lost the count
  over UDP waits for ever, or reads the next ping as a count of millions.
- *Rlnc.* `handle_incoming` rebuilds from one packet too few, so that six of seven
  chunks come out, and not even these are the payload's unless the packets held
  nothing of the last chunk; the answer is encoded from them. A singular system
  gives wrong chunks without an error. Seen sets are never forgotten.

Disagreements between the repository and its code. These runs each check one
property stating what a text of the repository says, and TLC shows a run of the
model that breaks it:

| Run | Property | What happens |
|---|---|---|
| `mplex_both_open` | `StreamsIsolated` | both ends draw stream ids from one range, so two streams opened at once get one id, and a handler reads what was written to the other stream (conn.rs:102) |
| `swarm_cross_dial` | `DialsUpgraded` | two nodes that dial each other each wait in their upgrade and neither accepts (inner.rs:219) |
| `rlnc_decode` | `Decodes` | the receiver rebuilds when it holds one packet less than there are chunks, and hands up something else than what was sent (engine.rs:39) |

## 4. What is proved

All for every value of the constants that satisfies the named assumptions of the
module (`FloodsubAssumption`, `MplexAssumption`, `PayloadsDiffer`, `SwarmAssumption`,
`UdpAssumption`, `UpgradeAssumption`, `PingAssumption`, `RlncAssumption`: the
constants have the right type, a message of `Mplex`, which is marked with its
writer, stream and place, is not the name of a protocol, peers differ from the node itself, a node does not
call itself, a payload has at least two chunks, a coded set at least three), so
for any number of peers, streams, topics, messages, nodes, connections, faults,
calls, rounds, frames, chunks and packets and any capacity. `RoundsBounded` of
`Ping` says that the rounds its settings ask for have a largest number, which
finitely many calls have.

| Theorem | Statement | Argument |
|---|---|---|
| `FloodsubTypes!TypeCorrect` | `Spec => []TypeOK` | inductive as it stands, one lemma per group of actions |
| `DeliveredAtMostOnce` | `[]DeliveredOnce` | `OnceInv`: a message whose key is not in the cache has not been delivered, and two handlers never notify for one key, as long as the key has not expired. The look-up and insertion in one critical section is what makes it inductive |
| `AnnouncementsComplete` | `[]SubscriptionsAnnounced` | a handler between registering and greeting, and the call in progress, cover the topics not yet told |
| `EndsAreReported` | `[]EndIsReported` | an entry of a returned handler has its report in the queue; only handling that report takes it out, and that removes the entry |
| `PeersStayTracked`, `TopicsStayRoutable` | `[]LivePeersTracked`, `[]RoutablePeers`, assuming `OneStreamPerPeer` | `TrackedInv`: a report is queued only for a peer whose only stream has ended. Without the assumption a reconnecting peer refutes the first |
| `PanicsNeedACause` | `[]NoSpontaneousPanic` | as long as no stream has ended and no topic was given up, every entry a task looks up is there |
| `NothingEchoed` | `[]NoEcho`, assuming `OwnApart` | `EchoInv`: a message whose key was never seen has gone nowhere (`NewUnsent`), of two handlers that forward copies of one message at least one has seen its key expire (`OneHand`), a handler never has the message's origin before it (`Away`), and the peers it is still to serve have not had the message (`Fresh`), whoever comes and goes meanwhile |
| `MplexProofs!TypeCorrect` | `[]TypeOK` | `TypeInv` adds `Shape` (the frame in hand fits the label; a task that ended left empty queues and an empty map), `Numbered` and `Equipped` (a stream that is negotiating has an id, and an answer to give) |
| `PayloadsFollowTheirStream` | `[]AnnouncedFirst` | `MarkInv`: one NewStream per stream is ever on its way (`Sole`), it tells the stream's id and opener (`Marked`), and who accepted a stream has its opener's id. `VoiceInv`: an id in use is known to the peer or announced on the way (`Voiced`), and every payload whose id the peer does not know has its announcement in front (`Ahead`). Frames are followed through the channel, the task's hand and the sockets as one queue |
| `PanicsHaveACause` | `[]PanicsNeedAnEndedStream` | `EndInv`: a failed connection has a cause (`LostBy`), a stream whose CloseStream was handled is in the map no more (`Forgotten`), so a task that panics for a frame in hand still had an ended stream in its map (`Excused`) |
| `HandlersReadWhatWasWritten`, `BothSettleAlike` | `[]StreamsIsolated`, `[]NegotiatedTogether`, assuming `OneOpener` | `StoryInv`. `IdInv`: an id belongs to one stream. `RouteInv`: a payload on its way carries the id of a stream that runs at its writer (`Owned`), and a stream that runs is in its end's map while the connection task does (`Registered`), until the stream is over. `FlowInv` follows what an end says on a stream as words numbered from the name of the protocol on (`Script`) through channel, hand, sockets, the reader's hand and inbox as one queue (`Coming`): the words on their way are those from the next to be heard to the last said, in order and with none missing (`Told`), so what is heard is what was said (`Seen`). Every step leaves that queue alone, cuts it with the connection, adds the next word to its end or takes the first from its front |
| `RefinesChannels` | `Spec => ChannelsSpec`, assuming `OneOpener` | steps of the connection tasks leave the channels as they are, by `MarkInv`: who is announced has only been asked for, and who accepts was not there. An opener settles on what the other end settled on (`NegotiatedTogether` after the step), and who reads takes the next message (`StreamsIsolated` after the step), which is written by then (`Hearing`: the next word to be heard is at most the last one said) |
| `SwarmProofs!TypeCorrect` | `[](TypeOK /\ UpgradesOK /\ EntriesOK)` | `Shape`: typing alone is not inductive, since an upgrade stores the peer it began with; it also needs that connections in use have two different ends, that only their ends have a stage, and that commands name another node |
| `SwarmsSurvive` | `[]NoDeathUndisturbed` | `Calm`: undisturbed, no connection is lost or ending, no disconnect is queued, a stream is only being opened over an entry |
| `StaleEntriesLeave` | `[]StaleEntriesReported` | `StaleInv`, framed by `StaleQuiet`: no other step makes an entry stale or takes its report away |
| `OneConnectionEach` | `[]NoDuplicateConnections`, assuming `OneWay` and `NeverDisconnects` | `SingleInv`: calls, commands and connections go where someone dials (`Asked`), and for these pairs (`Single`) a connection that lasts is the one in the map, an upgrade is under way only without an entry, and the one report queued for a peer is about a connection that has ended, so it cannot remove the entry of a later one |
| `UdpProofs!TypeCorrect` | `[]TypeOK` | `Inv`, the conjunction of what the next two rows need as well |
| `RoutesAreLostToClosing` | `[]RoutesLostToClosing` | `Routes`: the map names connections with the peer (`Mapped`), a queued Disconnect is for a peer with which a connection has ended (`Closing`), so the peer of any connection has an entry or such an end to blame (`Routed`) |
| `DeathHasACause` | `[]IoDiesForACause` | `Underway`: every datagram, request and report concerns a peer that this node or the other has a connection with or is dialing (six parts, one per place); `Causes`: an I/O task that is gone was given a payload of a peer with which a connection has ended (`Fell`), or of the peer a dial has yet to register, which then waits for ever (`Stuck`) |
| `NothingPanicsUndisturbed` | `[]UndisturbedSurvive` | `Safe`: while undisturbed, every node is in order by itself (`Local`: the swarm and the I/O task know the same connections, `Settled`; no two of them with one peer, `Sole`; tasks, queues and checks are at a place that fits, `Whole`, `Fine`), and every two nodes are at one stage of their story (`Story`): one of them is `Fresh`, `Knocking`, `Answering`, `Upgraded` or `Talking` to the other, or their dials have `Crossed` and both wait for good. A stage says where both stand and what is on its way between them, followed through the queue to the I/O task, the network, its hand and the connection's channel as one line. Any number of nodes may dial each other in any order |
| `UpgradeProofs!TypeCorrect` | `[]TypeOK` | inductive as it stands, one step per action |
| `RefinesExchange` | `Spec => ExchangeSpec` | `outcome` is "through" once everything is said and heard. `Inv` adds to the typing: every message on its way is from the other end, and one that names the muxer reaches the dialer only when the listener has said and heard everything (`Underway`); who has got past the infos knows the other (`Informed`); a registered end is done. So the dialer, whose last step is to hear that message, is through last, and whatever is lost, duplicated or overtaken leaves the invariant alone |
| `HandoverIsClean` | `[]CleanHandover` | `OrderInv`: in order, what is on its way to an end continues what it heard (`QueuesInOrder`), a listener of another build stops at the round they differ in (`OddStops`), an end that upgrades has not registered its peer (`Unregistered`), and one that has dies only of a frame cut in two (`DiesOfACut`) |
| `SecretIsShared` | `[]SameSecret` | `KeyInv` adds: in order, an end past the third round has the other's key in its secret (`KeysHeard`); with one fault over UDP a second "dh" is followed by the key (`SecondDh`), so an end that took it for the key is stuck there (`WrongKey`) |
| `PingProofs!TypeCorrect` | `[]TypeOK` | `Typed`, with the limits on every count a frame may carry |
| `RoundsOfACall` | `[]CountIsCurrent` | `CurrentOk`: the rounds a handler took on are those of its call or a later one, and nothing changes them after |
| `RoundTripsMatch` | `[]AnswersInRound` | `InRound`: until an exchange of the stream times out, what is on its way to the initiator answers its round (`Answers`), and so did what it measured (`Measured`) |
| `PlainPingsAreSafe` | `[]PlainPingsLeaveConn` | `PlainQuiet`: while nothing is lost, late or broken, a stream is in one of five stages, in each of which at most one frame and the count are on their way, and to a handler that still waits for them |
| `RlncProofs!TypeCorrect`, `EnoughSufficeHolds` | `[]TypeOK`, `[]EnoughSuffice` | `Inv`: until the set is rebuilt every arrival is in the cache, which holds fewer packets than chunks |

The hypotheses of seven theorems, each stated in the theorem:

- `OneStreamPerPeer`, as above.
- `OwnApart`: no peer relays a message that this node publishes later. A message
  carries its origin and number, and the run keeps them apart in the same way.
- `OneOpener`: the same end opens every stream, as when one node dials and only it
  starts protocols on the connection. With two openers an id can be given out
  twice and what is written to one stream is read from another: `mplex_both_open`
  shows it. `PayloadsFollowTheirStream` and `PanicsHaveACause` do not need it.
- `OneWay` and `NeverDisconnects`: two nodes that dial each other each keep the
  connection they dialed, and an application's disconnect takes the entry away
  while the TCP connection lives on, so that a redial makes a second one. The run
  of `Swarm` excludes both too.

The strengthened invariants were model-checked before they were proved
(`Shape`, `Calm` and `StaleEntriesReported` also with both nodes dialing and
disconnecting, 3.3 million states; those of `Mplex` also with two openers and a
connection that may fail; `Safe` of `Udp` with two nodes that dial each other, with and
without the liveliness check, and with three nodes in part). `StoryInv` speaks of all frames and numbers, which TLC
cannot enumerate; of it, TLC checked the properties it was built for. Of the type
invariants a run keeps only that of `Floodsub`; the others are left to their theorems.

Only model-checked:

- all liveness (`DeadPeerForgotten`, `CallsReturn`, `LossNoticed`,
  `MessagesArrive`, `OpensSettle`, `DialsUpgraded`, `LossForgotten`,
  `HalfOpenEnds`, `DialsSettle`, `Settles`, `MeasuredIsReported`,
  `HandlersEnd`), which with fairness and ENABLED is out of the prover's reach;
- `FieldArithmetic`, `EliminationSolves`, `RebuildsAllButLast`: what recursive
  functions compute for every input needs induction over data, which is out of
  its reach as well; TLC evaluates the field on every two bytes.

## 5. What is not modelled, and why

- Node: how `NodeInner::run` starts the protocols, once, and the read-only
  queries.
- FloodSub: the internal Unsubscribe frame (nothing calls its sender), RPCs that
  do not decode, sequence numbers in seconds (planned in `FloodNet`).
- Muxer: the varint layout of headers.
- UDP: reordering and duplication outside the upgrade, a socket that fails,
  datagrams of unknown flag, frames of another kind than the streams' and the
  check's.
- TCP: the bytes of a frame; a read that lost its place is modelled by what it
  may do to the muxer, and only in `Upgrade`: `Mplex` takes the connection for a
  FIFO of whole frames.
- Identity and schema: parsing, cryptography and generated code without protocol
  state. Examples and notes: command lines.

## 6. Plan

Done, in the order of the system's core behaviour: `Floodsub`, `Mplex`, `Swarm`,
`Udp`, `Ping`, `Rlnc`, `Upgrade`, and the abstract specifications of `Upgrade` and of
`Mplex`. Left: `FloodNet`, several nodes gossiping with a clock and second-grained
sequence numbers, and its abstract specification, published once, delivered at most
once to each subscriber.

## 7. Running

    tlc -workers 2 -config MCFloodsub.cfg MCFloodsub
    tlapm SwarmProofs.tla

The largest run, `floodsub_safety`, has 2.3 million states; each run takes about
a minute, `udp` up to two; the proofs take some fifteen minutes.
