-------------------------------- MODULE Ping --------------------------------
(***************************************************************************)
(* Ping streams between a node that pings and a peer (crates/node,         *)
(* crates/protocols/ping).  Node::ping stores the number of rounds in a    *)
(* field all ping streams share and asks for a stream; the handler of the  *)
(* stream reads the field when it starts, tells the peer, and both run     *)
(* that many rounds of a ping and its answer, two seconds each at most.    *)
(*                                                                         *)
(* With RLNC a ping is a set of coded frames; whoever has received enough  *)
(* of one set (handle_incoming) goes on, and the rest arrives unasked.     *)
(*                                                                         *)
(* The muxer below hands every frame to the stream it is for; a stream     *)
(* whose handler has ended, but whose CloseStream it has not handled yet,  *)
(* makes it panic (Mplex), and with it all the streams of the connection.  *)
(***************************************************************************)
EXTENDS Naturals, Sequences

CONSTANTS
    Endless,        \* rounds of a ping until stopped (10 in the code)
    Huge,           \* rounds read from a frame that is no count (millions)
    SetLen,         \* frames of a coded set (10 in the code)
    Chunks,         \* chunks of a ping (7 in the code)
    Settings        \* coded or not, over which transport, with faults of the network
                    \* (bound: one) or without, and the rounds the calls ask for,
                    \* one after another (bound), 0 for a ping until stopped

ASSUME PingAssumption ==
    /\ Settings \subseteq
         [rlnc : BOOLEAN, transport : {"tcp", "udp"}, faulty : BOOLEAN, calls : Seq(Nat)]
    /\ {Endless, Huge, SetLen, Chunks} \subseteq Nat \ {0}
    /\ 2 < Chunks /\ Chunks =< SetLen
    /\ \E x \in Settings : x.calls # <<>>

Ends == {"initiator", "listener"}
Other(e) == IF e = "initiator" THEN "listener" ELSE "initiator"
Streams == UNION {DOMAIN x.calls : x \in Settings}
Asks == UNION {{x.calls[s] : s \in DOMAIN x.calls} : x \in Settings}
Limits == Asks \cup {Endless, Huge}

ASSUME RoundsBounded == \E n \in Limits : \A m \in Limits : m =< n

VARIABLES
    setting,        \* the configuration of both nodes
    \* the node
    count,          \* the field the ping streams share
    notification,   \* requests for streams on their way to the muxer
    asked,          \* calls so far: how many rounds each asked for
    \* a stream
    handler,        \* stream -> end -> where its handler is, in which of how many rounds
    chan,           \* stream -> end -> frames on their way to its handler
    cache,          \* stream -> end -> frames received of each coded set
    rtts,           \* stream -> the round of the answer each rtt was measured with
    reported,       \* stream -> rtts in events so far
    \* the connection, and history
    down,           \* end -> its connection task is gone
    disturbed       \* stream -> frames lost, ends that timed out, connection broken

vars == <<setting, count, notification, asked, handler, chan, cache, rtts,
          reported, down, disturbed>>
node == <<setting, count, notification, asked>>

MaxRound == CHOOSE n \in Limits : \A m \in Limits : m =< n
Labels == {"none", "count", "round", "wait", "finish", "closing", "closed", "panicked"}
Handlers == [at : Labels, round : 0..MaxRound, rounds : 0..MaxRound, forever : BOOLEAN]
WireFrames == [kind : {"count", "ping", "pong"}, of : 0..MaxRound, size : 1..Chunks]
Idle == [at |-> "none", round |-> 0, rounds |-> 0, forever |-> FALSE]
Running(s, e) == handler[s][e].at \in {"count", "round", "wait", "finish"}

TypeOK ==
    /\ setting \in Settings
    /\ count \in Nat /\ asked \in Seq(Asks) /\ notification \in Seq(Streams)
    /\ handler \in [Streams -> [Ends -> Handlers]]
    /\ chan \in [Streams -> [Ends -> Seq(WireFrames)]]
    /\ cache \in [Streams -> [Ends -> [1..MaxRound -> 0..Chunks]]]
    /\ rtts \in [Streams -> Seq([round : 0..MaxRound, of : 0..MaxRound])]
    /\ reported \in [Streams -> Nat] /\ \A s \in Streams : reported[s] =< Len(rtts[s])
    /\ down \in [Ends -> BOOLEAN]
    /\ disturbed \in [Streams -> [lost : BOOLEAN, late : SUBSET Ends, broken : BOOLEAN]]

Init ==
    /\ setting \in Settings
    /\ count = 5 /\ notification = <<>> /\ asked = <<>>
    /\ handler = [s \in Streams |-> [e \in Ends |-> Idle]]
    /\ chan = [s \in Streams |-> [e \in Ends |-> <<>>]]
    /\ cache = [s \in Streams |-> [e \in Ends |-> [r \in 1..MaxRound |-> 0]]]
    /\ rtts = [s \in Streams |-> <<>>] /\ reported = [s \in Streams |-> 0]
    /\ down = [e \in Ends |-> FALSE]
    /\ disturbed = [s \in Streams |-> [lost |-> FALSE, late |-> {}, broken |-> FALSE]]

(* A connection task that is gone tells the other end over TCP only; what   *)
(* it had not handed to the streams yet is lost.                            *)
GoesDown(e) == LET gone == {x \in Ends : x = e \/ setting.transport = "tcp"} IN
    /\ down' = [x \in Ends |-> down[x] \/ x \in gone]
    /\ \E lost \in SUBSET gone :
        chan' = [s \in Streams |-> [x \in Ends |-> IF x \in lost THEN <<>> ELSE chan[s][x]]]

-----------------------------------------------------------------------------
(* The node. *)

(* Node::ping, under the mutex of the ping service. *)
PingCallKeeps == LET c == setting.calls[Len(asked) + 1] IN
    /\ Len(asked) < Len(setting.calls)
    /\ count' = IF c = 0 THEN count ELSE c
    /\ asked' = Append(asked, c)
    /\ notification' = Append(notification, Len(asked) + 1)
    /\ UNCHANGED <<setting, handler, chan, cache, rtts, reported, down, disturbed>>

PingCall == LET c == setting.calls[Len(asked) + 1] IN
    /\ Len(asked) < Len(setting.calls)
    /\ count' = c
    /\ asked' = Append(asked, c)
    /\ notification' = Append(notification, Len(asked) + 1)
    /\ UNCHANGED <<setting, handler, chan, cache, rtts, reported, down, disturbed>>

(* The request passes through NodeInner::run, the swarm and the muxer, in   *)
(* order; once the protocol is agreed, both ends have a handler.  Requests   *)
(* that find no connection are a matter of Swarm.                           *)
OpenStream == LET s == Head(notification) IN
    /\ notification # <<>>
    /\ \A e \in Ends : ~down[e]
    /\ notification' = Tail(notification)
    /\ handler' = [handler EXCEPT ![s] = [e \in Ends |-> [Idle EXCEPT !.at = "count"]]]
    /\ UNCHANGED <<setting, count, asked, chan, cache, rtts, reported, down,
                   disturbed>>

-----------------------------------------------------------------------------
(* Handlers. *)

Goes(s, e, label) == handler' = [handler EXCEPT ![s][e].at = label]
StartsOneShort(s, e, n) ==
    handler' = [handler EXCEPT ![s][e] = [at |-> "round", round |-> 1, forever |-> n = 0,
                                          rounds |-> IF n = 0 THEN Endless
                                                     ELSE IF e = "listener" THEN n - 1 ELSE n]]
Starts(s, e, n) ==
    handler' = [handler EXCEPT ![s][e] = [at |-> "round", round |-> 1, forever |-> n = 0,
                                          rounds |-> IF n = 0 THEN Endless ELSE n]]

(* The next round, or the end of the last one. *)
NextRound(s, e) == LET h == handler[s][e] IN
    handler' = [handler EXCEPT ![s][e] = IF h.round < h.rounds
                                         THEN [h EXCEPT !.at = "round", !.round = @ + 1]
                                         ELSE [h EXCEPT !.at = "finish"]]

Frame(kind, n, size) == [kind |-> kind, of |-> n, size |-> size]
CodedSet(kind, r, size) ==
    IF setting.rlnc THEN [i \in 1..SetLen |-> Frame(kind, r, size)] ELSE <<Frame(kind, r, 1)>>
Sent(s, e, queues, frames) ==
    IF down[Other(e)] THEN queues ELSE [queues EXCEPT ![s][Other(e)] = @ \o frames]

(* stream_handler and handle_ping up to the first round.  The field is read *)
(* only now.                                                                *)
InitiatorStarts(s) == LET e == "initiator" IN
    /\ handler[s][e].at = "count"
    /\ IF down[e]
       THEN Goes(s, e, "panicked") /\ UNCHANGED chan
       ELSE /\ chan' = Sent(s, e, chan, <<Frame("count", count, 1)>>)
            /\ Starts(s, e, count)
    /\ UNCHANGED <<node, cache, rtts, reported, down, disturbed>>

(* Any frame of four bytes is taken for the count. *)
ListenerStarts(s) == LET e == "listener"
                         f == Head(chan[s][e]) IN
    /\ handler[s][e].at = "count"
    /\ IF chan[s][e] # <<>>
       THEN /\ chan' = [chan EXCEPT ![s][e] = Tail(@)]
            /\ Starts(s, e, IF f.kind = "count" THEN f.of ELSE Huge)
       ELSE down[e] /\ Goes(s, e, "panicked") /\ UNCHANGED chan
    /\ UNCHANGED <<node, cache, rtts, reported, down, disturbed>>

(* ping: the initiator writes first, and both wait to read. *)
Begins(s) == LET e == "initiator" IN
    /\ handler[s][e].at = "round"
    /\ IF down[e]
       THEN NextRound(s, e) /\ UNCHANGED chan
       ELSE /\ Goes(s, e, "wait")
            /\ chan' = Sent(s, e, chan, CodedSet("ping", handler[s][e].round, Chunks))
    /\ UNCHANGED <<node, cache, rtts, reported, down, disturbed>>

Waiting(s, e) == handler[s][e].at = IF e = "initiator" THEN "wait" ELSE "round"

(* handle_incoming: of a coded set it keeps all but the frame that makes the *)
(* number of its chunks full, and nothing once it has been seen.             *)
CompletesAgain(s, e, f) == ~setting.rlnc \/ cache[s][e][f.of] >= f.size - 1
Completes(s, e, f) == ~setting.rlnc \/ cache[s][e][f.of] = f.size - 1
Counts(s, e, f) ==
    cache' = IF setting.rlnc /\ cache[s][e][f.of] < f.size
             THEN [cache EXCEPT ![s][e][f.of] = @ + 1] ELSE cache

(* The listener answers with a set of its own, one chunk shorter: what it   *)
(* reconstructed lacks one.                                                 *)
Answer(s, f) == CodedSet("pong", f.of, f.size - 1)

(* The initiator takes the time; infinite_ping reports it at once. *)
MeasuresOnly(s, e, f) ==
    /\ rtts' = [rtts EXCEPT ![s] = Append(@, [round |-> handler[s][e].round, of |-> f.of])]
    /\ UNCHANGED reported
Measures(s, e, f) ==
    /\ rtts' = [rtts EXCEPT ![s] = Append(@, [round |-> handler[s][e].round, of |-> f.of])]
    /\ reported' = IF handler[s][e].forever THEN [reported EXCEPT ![s] = @ + 1] ELSE reported

Reads(s, e) == LET f == Head(chan[s][e])
                   rest == [chan EXCEPT ![s][e] = Tail(@)] IN
    /\ Waiting(s, e)
    /\ chan[s][e] # <<>>
    /\ Counts(s, e, f)
    /\ IF Completes(s, e, f)
       THEN /\ IF e = "listener" /\ down[e] /\ setting.rlnc THEN Goes(s, e, "panicked")
                                                            ELSE NextRound(s, e)
            /\ chan' = IF e = "listener" /\ ~down[e]
                       THEN Sent(s, e, rest, Answer(s, f)) ELSE rest
            /\ IF e = "initiator" THEN Measures(s, e, f) ELSE UNCHANGED <<rtts, reported>>
       ELSE chan' = rest /\ UNCHANGED <<handler, rtts, reported>>
    /\ UNCHANGED <<node, down, disturbed>>

(* The stream has ended: an error of this exchange, but an unwrap() when    *)
(* the frames are coded.                                                    *)
ReadFails(s, e) ==
    /\ Waiting(s, e)
    /\ chan[s][e] = <<>> /\ down[e]
    /\ IF setting.rlnc THEN Goes(s, e, "panicked") ELSE NextRound(s, e)
    /\ UNCHANGED <<node, chan, cache, rtts, reported, down, disturbed>>

TimesOutAgain(s, e) ==
    /\ Waiting(s, e)
    /\ disturbed' = [disturbed EXCEPT ![s].late = @ \cup {e}]
    /\ UNCHANGED <<node, handler, chan, cache, rtts, reported, down>>

TimesOut(s, e) ==
    /\ Waiting(s, e)
    /\ NextRound(s, e)
    /\ disturbed' = [disturbed EXCEPT ![s].late = @ \cup {e}]
    /\ UNCHANGED <<node, chan, cache, rtts, reported, down>>

(* The event of a ping with a number of rounds, and close.  What has been   *)
(* handed to the stream goes with it; what is still to come is on its way.  *)
Finishes(s, e) ==
    /\ handler[s][e].at = "finish"
    /\ reported' = IF e = "initiator" /\ ~handler[s][e].forever
                   THEN [reported EXCEPT ![s] = Len(rtts[s])] ELSE reported
    /\ Goes(s, e, IF down[e] THEN "panicked" ELSE "closing")
    /\ \E k \in 0..Len(chan[s][e]) :
        chan' = [chan EXCEPT ![s][e] = SubSeq(@, k + 1, Len(@))]
    /\ UNCHANGED <<node, cache, rtts, down, disturbed>>

-----------------------------------------------------------------------------
(* The connection. *)

Closes(s, e) ==
    /\ handler[s][e].at = "closing"
    /\ ~down[e]
    /\ Goes(s, e, "closed")
    /\ chan' = [chan EXCEPT ![s][e] = <<>>]
    /\ UNCHANGED <<node, cache, rtts, reported, down, disturbed>>

(* A frame for a stream that nobody reads, before its CloseStream. *)
MuxerPanics(s, e) ==
    /\ handler[s][e].at = "closing"
    /\ chan[s][e] # <<>> /\ ~down[e]
    /\ GoesDown(e)
    /\ UNCHANGED <<node, handler, cache, rtts, reported, disturbed>>

Loses(s, e) ==
    /\ setting.faulty /\ setting.transport = "udp"
    /\ \A t \in Streams : ~disturbed[t].lost
    /\ \E k \in DOMAIN chan[s][e] :
        chan' = [chan EXCEPT ![s][e] = SubSeq(@, 1, k - 1) \o SubSeq(@, k + 1, Len(@))]
    /\ disturbed' = [disturbed EXCEPT ![s].lost = TRUE]
    /\ UNCHANGED <<node, handler, cache, rtts, reported, down>>

Breaks ==
    /\ setting.faulty /\ setting.transport = "tcp"
    /\ ~down["initiator"]
    /\ GoesDown("initiator")
    /\ disturbed' = [s \in Streams |-> [disturbed[s] EXCEPT !.broken = TRUE]]
    /\ UNCHANGED <<node, handler, cache, rtts, reported>>

HandlerStep(s, e) ==
    \/ e = "initiator" /\ (InitiatorStarts(s) \/ Begins(s))
    \/ e = "listener" /\ ListenerStarts(s)
    \/ Reads(s, e) \/ ReadFails(s, e) \/ TimesOut(s, e) \/ Finishes(s, e)

Next ==
    \/ PingCall \/ OpenStream
    \/ \E s \in Streams, e \in Ends :
        HandlerStep(s, e) \/ Closes(s, e) \/ MuxerPanics(s, e) \/ Loses(s, e)
    \/ Breaks

Spec == Init /\ [][Next]_vars

(* Handlers that can run do, and two seconds pass. *)
Fairness ==
    /\ WF_vars(OpenStream)
    /\ \A s \in Streams, e \in Ends : WF_vars(HandlerStep(s, e) \/ Closes(s, e))
FairSpec == Spec /\ Fairness

-----------------------------------------------------------------------------
(* Properties. *)

Quiet(s) == ~disturbed[s].lost /\ disturbed[s].late = {} /\ ~disturbed[s].broken

(* A stream runs the rounds its own call asked for or a later one did,      *)
(* never those of an earlier call (Node::ping and stream_handler).          *)
Started(s) == handler[s]["initiator"].at \notin {"none", "count"}
               /\ handler[s]["initiator"].rounds > 0
CountIsCurrent ==
    \A s \in Streams : Started(s) =>
        \E c \in s..Len(asked) : LET h == handler[s]["initiator"] IN
            IF asked[c] = 0 THEN h.forever ELSE ~h.forever /\ h.rounds = asked[c]

(* A round trip is measured with the answer to the ping of its own round,   *)
(* unless an exchange before it timed out, at either end: late answers are  *)
(* read by the rounds after (ping).                                         *)
AnswersInRound ==
    \A s \in Streams : disturbed[s].late = {} =>
        \A k \in DOMAIN rtts[s] : rtts[s][k].of = rtts[s][k].round

(* When nothing is lost or late, both handlers of a ping with plain payloads *)
(* leave the connection up for the other streams (close, handle_incoming of  *)
(* the muxer); coded pings may not: the frames beyond the last one needed    *)
(* arrive when the handler has gone.                                         *)
PlainPingsLeaveConn ==
    (\E e \in Ends : down[e]) => setting.rlnc \/ \E s \in Streams : ~Quiet(s)

(* Every rtt measured is reported, unless the handler of a coded ping       *)
(* panicked with the connection (handle_ping).                              *)
MeasuredIsReported ==
    \A s \in Streams : rtts[s] # <<>> ~>
        \/ reported[s] = Len(rtts[s])
        \/ setting.rlnc /\ handler[s]["initiator"].at = "panicked"

(* Both handlers come to an end; over UDP a listener that has lost the count *)
(* or the initiator may wait for ever (the first read of handle_ping has no  *)
(* timeout).                                                                 *)
HandlersEnd ==
    \A s \in Streams, e \in Ends : Running(s, e) ~>
        \/ ~Running(s, e)
        \/ e = "listener" /\ setting.transport = "udp" /\ (disturbed[s].lost \/ down["initiator"])
=============================================================================
