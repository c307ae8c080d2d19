------------------------------- MODULE Mplex -------------------------------
(***************************************************************************)
(* Many streams over one TCP connection (crates/muxer/src/mplex).  At each *)
(* end of the connection one task (MplexConn::conn_handler) owns the raw   *)
(* connection and the map of streams; it selects between frames of the raw *)
(* connection and its own mpsc channel, through which the swarm opens      *)
(* streams and the streams write and close.  Every stream has a task too   *)
(* (MplexStream::handle_conn), which negotiates a protocol and then runs   *)
(* the protocol's handler.                                                 *)
(*                                                                         *)
(* An action is the code between two awaits.  The raw connection delivers  *)
(* whole frames in order until it fails; a failed unwrap() ends the task.  *)
(***************************************************************************)
EXTENDS Naturals, Sequences

CONSTANTS
    A, B,           \* the two ends of the connection
    Sessions,       \* the streams the swarms may ask for
    Opener,         \* the end whose swarm asks for each
    Protocols,
    ProtoOf,        \* the protocol each is asked for
    Registry,       \* the protocols each end has a handler for
    NoStream,       \* no entry in the map of streams
    NoProtocol,     \* nothing negotiated
    QueueCap,       \* capacity of the connection's channel (100 in the code)
    InboxCap,       \* capacity of a stream's channel (100 in the code)
    WireCap,        \* frames the sockets hold before a write waits
    Breakable,      \* the raw connection may fail by itself
    MaxStreams,     \* bound: ids an end counts up to
    MaxWrites       \* bound: messages each end writes to one stream

Sides == {A, B}
Other(x) == IF x = A THEN B ELSE A
Ids == 1..MaxStreams

ASSUME MplexAssumption ==
    /\ A # B
    /\ Opener \in [Sessions -> Sides]
    /\ ProtoOf \in [Sessions -> Protocols]
    /\ Registry \in [Sides -> SUBSET Protocols]
    /\ NoStream \notin Sessions
    /\ NoProtocol \notin Protocols
    /\ MaxWrites \in [Sides -> [Sessions -> Nat]]
    /\ {QueueCap, InboxCap, WireCap, MaxStreams} \subseteq Nat
    /\ Breakable \in BOOLEAN

VARIABLES
    conn,           \* end -> where its connection task stands, and the frame in hand
    stream_counter, \* end -> the id given out or seen last
    streams,        \* end -> id -> the stream whose channel is registered
    mpsc,           \* end -> frames queued for its connection task
    wire,           \* end -> frames it has written and the other has not read
    link,           \* the raw connection works
    task,           \* end -> stream -> where the task of the stream stands
    stream_id,      \* end -> stream -> the id its frames carry
    inbox,          \* end -> stream -> payloads queued for the task
    \* history
    sent,           \* end -> stream -> messages the handler has written
    got,            \* end -> stream -> payloads the handler has read
    agreed,         \* end -> stream -> the protocol the task settled on
    removed         \* end -> the streams whose CloseStream was handled

connVars == <<conn, stream_counter, streams, wire, link>>
taskVars == <<task, stream_id, inbox>>
history == <<sent, got, agreed, removed>>
vars == <<conn, stream_counter, streams, mpsc, wire, link, task, stream_id, inbox,
          sent, got, agreed, removed>>

-----------------------------------------------------------------------------
(* Payloads are protocol names while a stream negotiates, then messages;   *)
(* what a message says is who wrote it, to which stream, and in what place. *)
Message(s, x, n) == [stream |-> s, from |-> x, place |-> n]
Messages == [stream : Sessions, from : Sides, place : Nat]
Payloads == Protocols \cup Messages

\* messages are marked with who wrote them: none is the name of a protocol
ASSUME PayloadsDiffer == \A p \in Protocols \cup {NoProtocol} : p \notin Messages

(* Frames.  Asking for a stream and closing one are internal: they stop at *)
(* the connection task.  Message, HandshakeReq and HandshakeRes are routed *)
(* alike, so they are one kind.  A NewStream frame has no payload: its     *)
(* stream is there for the history only.                                   *)
AskFrame(s) == [kind |-> "ask", stream |-> s]
CloseFrame(i) == [kind |-> "close", id |-> i]
NewFrame(i, s) == [kind |-> "new", id |-> i, stream |-> s]
DataFrame(i, p) == [kind |-> "data", id |-> i, payload |-> p]

WireFrames == [kind : {"new"}, id : Ids, stream : Sessions]
                \cup [kind : {"data"}, id : Ids, payload : Payloads]
Frames == WireFrames \cup [kind : {"ask"}, stream : Sessions]
                     \cup [kind : {"close"}, id : Ids]
NoFrame == [kind |-> "none"]

ConnLabels == {"select", "announce", "write", "deliver", "closed", "panic"}
TaskLabels == {"none", "asked", "request", "await", "answer", "reply",
               "read", "write", "close", "done", "panic"}

TypeOK ==
    /\ conn \in [Sides -> [at : ConnLabels, frame : Frames \cup {NoFrame}]]
    /\ stream_counter \in [Sides -> 0..MaxStreams]
    /\ streams \in [Sides -> [Ids -> Sessions \cup {NoStream}]]
    /\ mpsc \in [Sides -> Seq(Frames)]
    /\ wire \in [Sides -> Seq(WireFrames)]
    /\ link \in BOOLEAN
    /\ task \in [Sides -> [Sessions -> TaskLabels]]
    /\ stream_id \in [Sides -> [Sessions -> 0..MaxStreams]]
    /\ inbox \in [Sides -> [Sessions -> Seq(Payloads)]]
    /\ sent \in [Sides -> [Sessions -> Nat]]
    /\ got \in [Sides -> [Sessions -> Seq(Payloads)]]
    /\ agreed \in [Sides -> [Sessions -> Protocols \cup {NoProtocol}]]
    /\ removed \in [Sides -> SUBSET Sessions]
    /\ \A x \in Sides : Len(mpsc[x]) =< QueueCap /\ Len(wire[x]) =< WireCap
    /\ \A x \in Sides, s \in Sessions : /\ Len(inbox[x][s]) =< InboxCap
                                        /\ sent[x][s] =< MaxWrites[x][s]

PerStream(v) == [x \in Sides |-> [s \in Sessions |-> v]]

Init ==
    /\ conn = [x \in Sides |-> [at |-> "select", frame |-> NoFrame]]
    /\ stream_counter = [x \in Sides |-> 0]
    /\ streams = [x \in Sides |-> [i \in Ids |-> NoStream]]
    /\ mpsc = [x \in Sides |-> <<>>]
    /\ wire = [x \in Sides |-> <<>>]
    /\ link = TRUE
    /\ task = PerStream("none")
    /\ stream_id = PerStream(0)
    /\ inbox = PerStream(<<>>)
    /\ sent = PerStream(0)
    /\ got = PerStream(<<>>)
    /\ agreed = PerStream(NoProtocol)
    /\ removed = [x \in Sides |-> {}]

-----------------------------------------------------------------------------
(* The connection task. *)

Up(x) == conn[x].at \notin {"closed", "panic"}
Selecting(x) == conn[x].at = "select"
Enters(x, label, frame) == conn' = [conn EXCEPT ![x] = [at |-> label, frame |-> frame]]
Goes(x, s, label) == task' = [task EXCEPT ![x][s] = label]

(* A full channel makes its sender wait. *)
HasRoom(x) == Len(mpsc[x]) < QueueCap
Enqueue(x, f) == HasRoom(x) /\ mpsc' = [mpsc EXCEPT ![x] = Append(@, f)]

(* The task of the stream holds the receiving end of its channel until it ends. *)
Listens(x, s) == task[x][s] \notin {"none", "asked", "done", "panic"}

(* The next frame of the connection's own channel, of a given kind. *)
Takes(x, kinds) ==
    /\ Selecting(x)
    /\ mpsc[x] # <<>>
    /\ Head(mpsc[x]).kind \in kinds
    /\ mpsc' = [mpsc EXCEPT ![x] = Tail(@)]

Reads(x, kind) ==
    /\ Selecting(x)
    /\ wire[Other(x)] # <<>>
    /\ Head(wire[Other(x)]).kind = kind
    /\ wire' = [wire EXCEPT ![Other(x)] = Tail(@)]

(* The swarm asks for a stream: new_stream sends to a connection it holds. *)
Ask(s) == LET x == Opener[s] IN
    /\ task[x][s] = "none"
    /\ Up(x)
    /\ Enqueue(x, AskFrame(s))
    /\ Goes(x, s, "asked")
    /\ UNCHANGED <<connVars, stream_id, inbox, history>>

(* NewStream, asked for here: the stream gets the next id and is registered. *)
(* The frame that announces it goes through the channel the task itself      *)
(* drains: if that is full by now, the task waits for itself.                *)
LowestFreeId(x) == CHOOSE i \in Ids : /\ streams[x][i] = NoStream
                                      /\ \A j \in 1..(i - 1) : streams[x][j] # NoStream
NextId(x) == stream_counter[x] + 1

Registers(x, s, i) ==
    /\ stream_counter' = [stream_counter EXCEPT ![x] = i]
    /\ streams' = [streams EXCEPT ![x][i] = s]
    /\ stream_id' = [stream_id EXCEPT ![x][s] = i]

ConnOpenSpawning(x) == LET s == Head(mpsc[x]).stream IN
    /\ Takes(x, {"ask"})
    /\ Registers(x, s, NextId(x))
    /\ Enters(x, "announce", NewFrame(NextId(x), s))
    /\ Goes(x, s, "request")
    /\ UNCHANGED <<wire, link, inbox, history>>

ConnOpen(x) == LET s == Head(mpsc[x]).stream IN
    /\ Takes(x, {"ask"})
    /\ NextId(x) \in Ids
    /\ Registers(x, s, NextId(x))
    /\ Enters(x, "announce", NewFrame(NextId(x), s))
    /\ UNCHANGED <<wire, link, task, inbox, history>>

(* ... and only then is the task of the stream spawned. *)
ConnAnnounceNothing(x) ==
    /\ conn[x].at = "announce"
    /\ Goes(x, conn[x].frame.stream, "request")
    /\ Enters(x, "select", NoFrame)
    /\ UNCHANGED <<stream_counter, streams, mpsc, wire, link, stream_id, inbox, history>>

ConnAnnounce(x) ==
    /\ conn[x].at = "announce"
    /\ Enqueue(x, conn[x].frame)
    /\ Goes(x, conn[x].frame.stream, "request")
    /\ Enters(x, "select", NoFrame)
    /\ UNCHANGED <<stream_counter, streams, wire, link, stream_id, inbox, history>>

(* NewStream, announced by the other end: its id becomes this end's counter *)
(* and replaces whatever was registered under it.                           *)
ConnAccept(x) == LET f == Head(wire[Other(x)]) IN
    /\ Reads(x, "new")
    /\ Registers(x, f.stream, f.id)
    /\ Goes(x, f.stream, "answer")
    /\ UNCHANGED <<conn, mpsc, link, inbox, history>>

(* A payload goes to the stream registered under its id; with none it is    *)
(* dropped.  The send waits for room, holding up the whole connection, and  *)
(* fails if the task of the stream has ended.                               *)
RoutedIfReading(x, f) == streams[x][f.id] # NoStream /\ task[x][streams[x][f.id]] # "write"
Routed(x, f) == streams[x][f.id] # NoStream
Deliverable(x, s) == Listens(x, s) /\ Len(inbox[x][s]) < InboxCap
Deliver(x, s, p) == inbox' = [inbox EXCEPT ![x][s] = Append(@, p)]

ConnRoute(x) == LET f == Head(wire[Other(x)]) IN
    /\ Reads(x, "data")
    /\ \/ ~Routed(x, f) /\ UNCHANGED <<conn, inbox>>
       \/ /\ Routed(x, f)
          /\ LET s == streams[x][f.id]
             IN IF Deliverable(x, s) THEN Deliver(x, s, f.payload) /\ UNCHANGED conn
                                     ELSE Enters(x, "deliver", f) /\ UNCHANGED inbox
    /\ UNCHANGED <<stream_counter, streams, mpsc, link, task, stream_id, history>>

ConnDeliver(x) == LET s == streams[x][conn[x].frame.id] IN
    /\ conn[x].at = "deliver"
    /\ Deliverable(x, s)
    /\ Deliver(x, s, conn[x].frame.payload)
    /\ Enters(x, "select", NoFrame)
    /\ UNCHANGED <<stream_counter, streams, mpsc, wire, link, task, stream_id, history>>

(* CloseStream, from the stream itself. *)
ConnCloseKeeping(x) ==
    /\ Takes(x, {"close"})
    /\ removed' = [removed EXCEPT ![x] = @ \cup ({streams[x][Head(mpsc[x]).id]} \ {NoStream})]
    /\ UNCHANGED <<connVars, taskVars, sent, got, agreed>>

ConnClose(x) ==
    /\ Takes(x, {"close"})
    /\ LET i == Head(mpsc[x]).id
       IN /\ streams' = [streams EXCEPT ![x][i] = NoStream]
          /\ removed' = [removed EXCEPT ![x] = @ \cup ({streams[x][i]} \ {NoStream})]
    /\ UNCHANGED <<conn, stream_counter, wire, link, taskVars, sent, got, agreed>>

(* Any other frame is written as it is.  A write waits while the sockets are *)
(* full, and the task reads nothing meanwhile; once the connection has       *)
(* failed, a frame may vanish (or the write fails, see ConnWritePanic).           *)
Writable(x) == link => Len(wire[x]) < WireCap
PutOnWire(x, f) == wire' = IF link THEN [wire EXCEPT ![x] = Append(@, f)] ELSE wire

ConnWrite(x) ==
    /\ Takes(x, {"new", "data"})
    /\ IF Writable(x) THEN PutOnWire(x, Head(mpsc[x])) /\ UNCHANGED conn
                      ELSE Enters(x, "write", Head(mpsc[x])) /\ UNCHANGED wire
    /\ UNCHANGED <<stream_counter, streams, link, taskVars, history>>

ConnFlush(x) ==
    /\ conn[x].at = "write"
    /\ Writable(x)
    /\ PutOnWire(x, conn[x].frame)
    /\ Enters(x, "select", NoFrame)
    /\ UNCHANGED <<stream_counter, streams, mpsc, link, taskVars, history>>

(* The task ends: the streams' senders, the channel and the raw connection go. *)
Ends(x, label, frame) ==
    /\ Enters(x, label, frame)
    /\ streams' = [streams EXCEPT ![x] = [i \in Ids |-> NoStream]]
    /\ mpsc' = [mpsc EXCEPT ![x] = <<>>]
    /\ link' = FALSE
    /\ UNCHANGED <<stream_counter, wire, taskVars, history>>

(* A failed read is the peer gone: leave the loop and tell the swarm. *)
ConnEofIfIdle(x) ==
    /\ \A i \in Ids : streams[x][i] = NoStream
    /\ Selecting(x) /\ ~link /\ Ends(x, "closed", NoFrame)
ConnEof(x) == Selecting(x) /\ ~link /\ Ends(x, "closed", NoFrame)

(* A failed write. *)
ConnWritePanic(x) ==
    /\ ~link
    /\ \/ Selecting(x) /\ mpsc[x] # <<>> /\ Head(mpsc[x]).kind \in {"new", "data"}
       \/ conn[x].at = "write"
    /\ Ends(x, "panic", NoFrame)

(* A payload for a stream whose task has ended. *)
ConnRoutePanic(x) ==
    /\ conn[x].at = "deliver"
    /\ ~Listens(x, streams[x][conn[x].frame.id])
    /\ Ends(x, "panic", conn[x].frame)

LinkLost ==
    /\ Breakable /\ link
    /\ link' = FALSE
    /\ UNCHANGED <<conn, stream_counter, streams, mpsc, wire, taskVars, history>>

-----------------------------------------------------------------------------
(* The task of stream s at end x. *)

(* Someone can still send to the stream: its channel is registered. *)
Attached(x, s) == \E i \in Ids : streams[x][i] = s
ReceivesPeeking(x, s) == inbox[x][s] # <<>> /\ UNCHANGED inbox
Receives(x, s) == inbox[x][s] # <<>> /\ inbox' = [inbox EXCEPT ![x][s] = Tail(@)]
Starved(x, s) == inbox[x][s] = <<>> /\ ~Attached(x, s)

(* negotiate, initiator: ask for the protocol, wait for its echo. *)
RequestOnly(x, s) ==
    /\ task[x][s] = "request"
    /\ Enqueue(x, DataFrame(stream_id[x][s], ProtoOf[s]))
    /\ Up(x)
    /\ Goes(x, s, "read")
    /\ agreed' = [agreed EXCEPT ![x][s] = ProtoOf[s]]
    /\ UNCHANGED <<connVars, stream_id, inbox, sent, got, removed>>

Request(x, s) ==
    /\ task[x][s] = "request"
    /\ Enqueue(x, DataFrame(stream_id[x][s], ProtoOf[s]))
    /\ Up(x)
    /\ Goes(x, s, "await")
    /\ UNCHANGED <<connVars, stream_id, inbox, history>>

Await(x, s) ==
    /\ task[x][s] = "await"
    /\ Receives(x, s)
    /\ IF Head(inbox[x][s]) = ProtoOf[s] /\ ProtoOf[s] \in Registry[x]
       THEN Goes(x, s, "read") /\ agreed' = [agreed EXCEPT ![x][s] = ProtoOf[s]]
       ELSE Goes(x, s, "panic") /\ UNCHANGED agreed
    /\ UNCHANGED <<connVars, mpsc, stream_id, sent, got, removed>>

(* negotiate, responder: what arrives first must name a protocol with a handler. *)
Answer(x, s) ==
    /\ task[x][s] = "answer"
    /\ Receives(x, s)
    /\ LET p == Head(inbox[x][s])
       IN IF p \in Registry[x]
          THEN Goes(x, s, "reply") /\ agreed' = [agreed EXCEPT ![x][s] = p]
          ELSE Goes(x, s, "panic") /\ UNCHANGED agreed
    /\ UNCHANGED <<connVars, mpsc, stream_id, sent, got, removed>>

Reply(x, s) ==
    /\ task[x][s] = "reply"
    /\ Enqueue(x, DataFrame(stream_id[x][s], agreed[x][s]))
    /\ Up(x)
    /\ Goes(x, s, "read")
    /\ UNCHANGED <<connVars, stream_id, inbox, history>>

(* The handler of the protocol reads, writes and closes in any order; once *)
(* it waits for room in the channel of the connection it does not read.    *)
Read(x, s) ==
    /\ task[x][s] = "read"
    /\ Receives(x, s)
    /\ got' = [got EXCEPT ![x][s] = Append(@, Head(inbox[x][s]))]
    /\ UNCHANGED <<connVars, mpsc, task, stream_id, sent, agreed, removed>>

StartWrite(x, s) ==
    /\ task[x][s] = "read"
    /\ sent[x][s] < MaxWrites[x][s]
    /\ Goes(x, s, "write")
    /\ UNCHANGED <<connVars, mpsc, stream_id, inbox, history>>

Write(x, s) ==
    /\ task[x][s] = "write"
    /\ Enqueue(x, DataFrame(stream_id[x][s], Message(s, x, sent[x][s] + 1)))
    /\ Up(x)
    /\ sent' = [sent EXCEPT ![x][s] = @ + 1]
    /\ Goes(x, s, "read")
    /\ UNCHANGED <<connVars, stream_id, inbox, got, agreed, removed>>

StartClose(x, s) ==
    /\ task[x][s] = "read"
    /\ Goes(x, s, "close")
    /\ UNCHANGED <<connVars, mpsc, stream_id, inbox, history>>

(* The handler closes the stream and returns: its receiving end is dropped *)
(* whether or not the connection has got to the CloseStream frame.         *)
Close(x, s) ==
    /\ task[x][s] = "close"
    /\ Enqueue(x, CloseFrame(stream_id[x][s]))
    /\ Up(x)
    /\ Goes(x, s, "done")
    /\ UNCHANGED <<connVars, stream_id, inbox, history>>

(* It may also return without closing, as floodsub's does. *)
Return(x, s) ==
    /\ task[x][s] = "read"
    /\ Goes(x, s, "done")
    /\ UNCHANGED <<connVars, mpsc, stream_id, inbox, history>>

(* No sender is left to wait for, or no connection to send to. *)
TaskFails(x, s) ==
    /\ \/ task[x][s] \in {"await", "answer", "read"} /\ Starved(x, s)
       \/ task[x][s] \in {"request", "reply", "write", "close"} /\ ~Up(x)
    /\ Goes(x, s, "panic")
    /\ UNCHANGED <<connVars, mpsc, stream_id, inbox, history>>

-----------------------------------------------------------------------------
ConnStep(x) ==
    \/ ConnOpen(x) \/ ConnAnnounce(x) \/ ConnAccept(x) \/ ConnRoute(x)
    \/ ConnDeliver(x) \/ ConnClose(x) \/ ConnWrite(x) \/ ConnFlush(x) \/ ConnEof(x)
    \/ ConnWritePanic(x) \/ ConnRoutePanic(x)

TaskStep(x, s) ==
    \/ Request(x, s) \/ Await(x, s) \/ Answer(x, s) \/ Reply(x, s)
    \/ Read(x, s) \/ Write(x, s) \/ Close(x, s) \/ TaskFails(x, s)

HandlerChoice(x, s) == StartWrite(x, s) \/ StartClose(x, s) \/ Return(x, s)

Next ==
    \/ \E s \in Sessions : Ask(s)
    \/ \E x \in Sides : ConnStep(x)
    \/ \E x \in Sides, s \in Sessions : TaskStep(x, s) \/ HandlerChoice(x, s)
    \/ LinkLost

Spec == Init /\ [][Next]_vars

(* Tasks that can run do: the runtime polls every task that is ready.  What *)
(* the swarm asks for, what handlers choose and the network owe nothing.    *)
Fairness ==
    /\ \A x \in Sides : WF_vars(ConnStep(x))
    /\ \A x \in Sides, s \in Sessions : WF_vars(TaskStep(x, s))

FairSpec == Spec /\ Fairness

-----------------------------------------------------------------------------
(* Properties. *)

(* What a handler reads from a stream is what the handler at the other end *)
(* wrote to that stream, in that order and with nothing left out, however  *)
(* streams interleave on the connection (handle_incoming routes by id).    *)
StreamsIsolated ==
    \A x \in Sides, s \in Sessions : \A n \in DOMAIN got[x][s] :
        got[x][s][n] = Message(s, Other(x), n)

(* An initiator hands its stream to a protocol's handler only if the task at *)
(* the other end settled on that same protocol (negotiate).                  *)
NegotiatedTogether ==
    \A s \in Sessions : LET x == Opener[s] IN
        agreed[x][s] # NoProtocol => agreed[Other(x)][s] = agreed[x][s]

(* Each stream is a pair of reliable channels between two handlers that     *)
(* settled on one protocol (StreamChannels), whatever else the connection    *)
(* carries: nothing is written or read before the end has settled or after   *)
(* it has ended, and nothing is read that is not written yet or was read     *)
(* before.                                                                   *)
PhaseOf(label) == CASE label \in {"reply", "read", "write", "close"} -> "talking"
                    [] label \in {"done", "panic"} -> "ended"
                    [] OTHER -> "silent"
Phase == [x \in Sides |-> [s \in Sessions |-> PhaseOf(task[x][s])]]
WrittenMessages ==
    [x \in Sides |-> [s \in Sessions |-> [n \in 1..sent[x][s] |-> Message(s, x, n)]]]
Sayings == UNION {{Message(s, x, n) : n \in 1..MaxWrites[x][s]} : x \in Sides, s \in Sessions}

Channels == INSTANCE StreamChannels
                WITH phase <- Phase, written <- WrittenMessages, Messages <- Sayings
ChannelsSpec == Channels!Spec

(* No payload overtakes the frame that announces its stream: the peer knows *)
(* the id, or will when it gets there (the send before the spawn in the     *)
(* NewStream arm).                                                          *)
InHand(x) == IF conn[x].at = "write" THEN <<conn[x].frame>> ELSE <<>>
Pipe(x) == wire[x] \o InHand(x) \o mpsc[x]
AnnouncedFirst ==
    link => \A x \in Sides : \A k \in DOMAIN Pipe(x) :
        Pipe(x)[k].kind = "data" =>
            \/ \E s \in Sessions : stream_id[Other(x)][s] = Pipe(x)[k].id
            \/ \E j \in 1..(k - 1) : /\ Pipe(x)[j].kind = "new"
                                     /\ Pipe(x)[j].id = Pipe(x)[k].id

(* While the raw connection works, only one thing ends a connection task: a *)
(* payload for a stream whose task ended before its CloseStream was handled *)
(* (the unwrap() of the send in handle_incoming).                           *)
PanicsNeedAnEndedStream ==
    \A x \in Sides : conn[x].at = "panic" =>
        \/ conn[x].frame = NoFrame /\ (Breakable \/ ~Up(Other(x)))
        \/ \E s \in Sessions : /\ stream_id[x][s] = conn[x].frame.id
                               /\ task[x][s] \in {"done", "panic"}
                               /\ s \notin removed[x]

(* A failed raw connection is noticed at both ends, whatever they were doing *)
(* (the Err arm of conn_handler).                                            *)
LossNoticed == ~link ~> \A x \in Sides : ~Up(x)

(* A message that was written is read, unless a task on its way ended. *)
MessagesArrive ==
    \A x \in Sides, s \in Sessions : \A n \in 1..MaxWrites[x][s] :
        sent[x][s] >= n ~>
            \/ Len(got[Other(x)][s]) >= n
            \/ task[Other(x)][s] \in {"done", "panic"}
            \/ ~link

(* A stream asked for is negotiated, refused, or lost with the connection. *)
OpensSettle ==
    \A s \in Sessions : task[Opener[s]][s] = "asked" ~>
        \/ agreed[Opener[s]][s] # NoProtocol
        \/ task[Other(Opener[s])][s] \in {"done", "panic"}
        \/ ~link
=============================================================================
