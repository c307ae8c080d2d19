---------------------------- MODULE MplexProofs ----------------------------
(***************************************************************************)
(* Theorems of Mplex, for any number of streams and protocols, any         *)
(* capacity of the channels, and a raw connection that fails when it likes. *)
(* The last three, the refinement of StreamChannels among them, hold where  *)
(* one end opens every stream: with two openers an id can be given out      *)
(* twice, and what is said on one stream is heard on another.               *)
(***************************************************************************)
EXTENDS Mplex, SequenceTheorems, TLAPS

-----------------------------------------------------------------------------
(* What a queue holds, and in what order. *)

Holds(L, g) == \E k \in DOMAIN L : L[k] = g
Before(L, g, h) == \E j, k \in DOMAIN L : j < k /\ L[j] = g /\ L[k] = h

(* The elements of a queue.                                                 *)
LEMMA HeldFacts ==
    ASSUME NEW S, NEW L \in Seq(S)
    PROVE  /\ \A g : Holds(L, g) => g \in S /\ L # <<>>
           /\ \A g, h : Before(L, g, h) => Holds(L, g) /\ Holds(L, h)
<1>1. \A k \in DOMAIN L : L[k] \in S
    OBVIOUS
<1>2. L = <<>> => DOMAIN L = {}
    OBVIOUS
<1>3. \A g : Holds(L, g) => g \in S /\ L # <<>>
    BY <1>1, <1>2, Zenon DEF Holds
<1>4. \A g, h : Before(L, g, h) => Holds(L, g) /\ Holds(L, h)
    BY Zenon DEF Holds, Before
<1> QED BY <1>3, <1>4

(* An empty queue, and a queue of one element.                              *)
LEMMA SmallFacts ==
    /\ \A g : ~Holds(<<>>, g)
    /\ \A g, h : ~Before(<<>>, g, h)
    /\ \A f, g : Holds(<<f>>, g) <=> g = f
    /\ \A f, g, h : ~Before(<<f>>, g, h)
<1>1. DOMAIN <<>> = {}
    OBVIOUS
<1>2. \A f : DOMAIN <<f>> = {1} /\ <<f>>[1] = f
    OBVIOUS
<1>3. ~(1 < 1)
    OBVIOUS
<1>4. \A f, g, h : ~Before(<<f>>, g, h)
    <2> SUFFICES ASSUME NEW f, NEW g, NEW h, NEW j \in DOMAIN <<f>>, NEW k \in DOMAIN <<f>>, j < k
                 PROVE  FALSE
        BY DEF Before
    <2> QED BY <1>2, <1>3
<1>5. \A f, g : Holds(<<f>>, g) <=> g = f
    <2> SUFFICES ASSUME NEW f, NEW g PROVE Holds(<<f>>, g) <=> g = f
        OBVIOUS
    <2>1. DOMAIN <<f>> = {1} /\ <<f>>[1] = f
        BY <1>2
    <2> DEFINE L == <<f>>
    <2>2. DOMAIN L = {1} /\ L[1] = f
        BY <2>1
    <2> HIDE DEF L
    <2>3. Holds(L, g) <=> g = f
        BY <2>2 DEF Holds
    <2> QED BY <2>3 DEF L
<1> QED BY <1>1, <1>4, <1>5 DEF Holds, Before

(* One queue after another.                                                 *)
LEMMA ConcatFacts ==
    ASSUME NEW S, NEW L \in Seq(S), NEW M \in Seq(S)
    PROVE  /\ L \o M \in Seq(S)
           /\ \A g : Holds(L \o M, g) <=> Holds(L, g) \/ Holds(M, g)
           /\ \A g, h : Before(L \o M, g, h) <=> \/ Before(L, g, h) \/ Before(M, g, h)
                                                 \/ Holds(L, g) /\ Holds(M, h)
<1> DEFINE N == L \o M
           m == Len(L)
           n == Len(M)
<1>1. m \in Nat /\ n \in Nat /\ DOMAIN L = 1..m /\ DOMAIN M = 1..n /\ N \in Seq(S)
    OBVIOUS
<1>2. /\ DOMAIN N = 1..(m + n)
      /\ \A k \in 1..m : N[k] = L[k]
      /\ \A k \in 1..n : N[m + k] = M[k]
    OBVIOUS
<1> HIDE DEF N, m, n
<1>3. \A k \in DOMAIN N : k \in DOMAIN L \/ (k - m \in DOMAIN M /\ k = m + (k - m) /\ k > m)
    BY <1>1, <1>2
<1>4. \A k \in DOMAIN L : k \in DOMAIN N /\ N[k] = L[k] /\ k =< m
    BY <1>1, <1>2
<1>5. \A k \in DOMAIN M : m + k \in DOMAIN N /\ N[m + k] = M[k]
    BY <1>1, <1>2
<1>6. \A g : Holds(N, g) => Holds(L, g) \/ Holds(M, g)
    <2> SUFFICES ASSUME NEW g, NEW k \in DOMAIN N, N[k] = g PROVE Holds(L, g) \/ Holds(M, g)
        BY DEF Holds
    <2>1. CASE k \in DOMAIN L
        BY <2>1, <1>4 DEF Holds
    <2>2. CASE k - m \in DOMAIN M /\ k = m + (k - m)
        BY <2>2, <1>5 DEF Holds
    <2> QED BY <2>1, <2>2, <1>3
<1>7. \A g : Holds(L, g) \/ Holds(M, g) => Holds(N, g)
    BY <1>4, <1>5 DEF Holds
<1>8. ASSUME NEW g, NEW h, Before(N, g, h)
      PROVE  Before(L, g, h) \/ Before(M, g, h) \/ (Holds(L, g) /\ Holds(M, h))
    <2>1. PICK j \in DOMAIN N, k \in DOMAIN N : j < k /\ N[j] = g /\ N[k] = h
        BY <1>8 DEF Before
    <2>2. CASE k \in DOMAIN L
        <3>1. j \in DOMAIN L
            BY <2>1, <2>2, <1>1, <1>2
        <3> QED BY <3>1, <2>1, <2>2, <1>4 DEF Before
    <2>3. CASE k - m \in DOMAIN M /\ k = m + (k - m) /\ k > m
        <3>1. N[k] = M[k - m]
            BY <2>3, <1>5
        <3>2. CASE j \in DOMAIN L
            BY <3>1, <3>2, <2>1, <2>3, <1>4 DEF Holds
        <3>3. CASE j - m \in DOMAIN M /\ j = m + (j - m)
            <4>1. N[j] = M[j - m]
                BY <3>3, <1>5
            <4>2. j - m < k - m
                BY <2>1, <1>1, <1>2
            <4> QED BY <3>1, <3>3, <4>1, <4>2, <2>1, <2>3 DEF Before
        <3> QED BY <3>2, <3>3, <2>1, <1>3
    <2> QED BY <2>1, <2>2, <2>3, <1>3
<1>9. ASSUME NEW g, NEW h, Before(L, g, h) PROVE Before(N, g, h)
    BY <1>9, <1>4 DEF Before
<1>10. ASSUME NEW g, NEW h, Before(M, g, h) PROVE Before(N, g, h)
    <2>1. PICK j \in DOMAIN M, k \in DOMAIN M : j < k /\ M[j] = g /\ M[k] = h
        BY <1>10 DEF Before
    <2>2. m + j < m + k
        BY <2>1, <1>1
    <2> QED BY <2>1, <2>2, <1>5 DEF Before
<1>11. ASSUME NEW g, NEW h, Holds(L, g), Holds(M, h) PROVE Before(N, g, h)
    <2>1. PICK j \in DOMAIN L : L[j] = g
        BY <1>11 DEF Holds
    <2>2. PICK k \in DOMAIN M : M[k] = h
        BY <1>11 DEF Holds
    <2>3. j < m + k
        BY <2>1, <2>2, <1>1
    <2> QED BY <2>1, <2>2, <2>3, <1>4, <1>5 DEF Before
<1>12. \A g : Holds(N, g) <=> Holds(L, g) \/ Holds(M, g)
    BY <1>6, <1>7
<1>13. \A g, h : Before(N, g, h) <=> \/ Before(L, g, h) \/ Before(M, g, h)
                                     \/ Holds(L, g) /\ Holds(M, h)
    BY <1>8, <1>9, <1>10, <1>11
<1> QED BY <1>1, <1>12, <1>13 DEF N

(* A queue with one element more.                                           *)
LEMMA AppendFacts ==
    ASSUME NEW S, NEW L \in Seq(S), NEW f \in S
    PROVE  /\ Append(L, f) \in Seq(S) /\ Len(Append(L, f)) = Len(L) + 1 /\ Len(L) \in Nat
           /\ \A g : Holds(Append(L, f), g) <=> Holds(L, g) \/ g = f
           /\ \A g, h : Before(Append(L, f), g, h) <=> Before(L, g, h) \/ (Holds(L, g) /\ h = f)
<1>1. Append(L, f) = L \o <<f>> /\ <<f>> \in Seq(S)
    BY AppendIsConcat
<1>2. Append(L, f) \in Seq(S) /\ Len(Append(L, f)) = Len(L) + 1 /\ Len(L) \in Nat
    OBVIOUS
<1> DEFINE N == L \o <<f>>
<1>3. /\ \A g : Holds(N, g) <=> Holds(L, g) \/ Holds(<<f>>, g)
      /\ \A g, h : Before(N, g, h) <=> \/ Before(L, g, h) \/ Before(<<f>>, g, h)
                                       \/ Holds(L, g) /\ Holds(<<f>>, h)
    BY <1>1, ConcatFacts
<1> HIDE DEF N
<1>4. /\ \A g : Holds(N, g) <=> Holds(L, g) \/ g = f
      /\ \A g, h : Before(N, g, h) <=> Before(L, g, h) \/ (Holds(L, g) /\ h = f)
    BY <1>3, SmallFacts, Zenon
<1> QED BY <1>1, <1>2, <1>4 DEF N

(* A queue without its first element.                                       *)
LEMMA TailFacts ==
    ASSUME NEW S, NEW L \in Seq(S), L # <<>>
    PROVE  /\ Head(L) \in S /\ Tail(L) \in Seq(S)
           /\ Len(Tail(L)) \in Nat /\ Len(L) \in Nat /\ Len(L) = Len(Tail(L)) + 1
           /\ \A g : Holds(L, g) <=> g = Head(L) \/ Holds(Tail(L), g)
           /\ \A g, h : Before(L, g, h) <=> \/ g = Head(L) /\ Holds(Tail(L), h)
                                            \/ Before(Tail(L), g, h)
<1> DEFINE f == Head(L)
           M == Tail(L)
           N == <<f>> \o M
<1>1. /\ f \in S /\ M \in Seq(S) /\ Len(M) \in Nat /\ Len(L) = Len(M) + 1
      /\ <<f>> \in Seq(S) /\ Len(L) \in Nat /\ \A k \in 1..Len(M) : M[k] = L[k + 1]
    BY HeadTailProperties
<1>2. N \in Seq(S) /\ Len(N) = 1 + Len(M)
      /\ N[1] = L[1] /\ \A k \in 2..Len(N) : N[k] = M[k - 1]
    BY <1>1
<1>3. N = L
    <2>1. \A k \in 1..Len(L) : N[k] = L[k]
        BY <1>1, <1>2
    <2>2. Len(N) = Len(L)
        BY <1>1, <1>2
    <2> HIDE DEF N
    <2> QED BY <2>1, <2>2, <1>2, SeqEqual
<1>4. /\ \A g : Holds(N, g) <=> Holds(<<f>>, g) \/ Holds(M, g)
      /\ \A g, h : Before(N, g, h) <=> \/ Before(<<f>>, g, h) \/ Before(M, g, h)
                                       \/ Holds(<<f>>, g) /\ Holds(M, h)
    BY <1>1, ConcatFacts
<1> HIDE DEF N, M, f
<1>5. /\ \A g : Holds(N, g) <=> g = f \/ Holds(M, g)
      /\ \A g, h : Before(N, g, h) <=> (g = f /\ Holds(M, h)) \/ Before(M, g, h)
    BY <1>4, SmallFacts, Zenon
<1> QED BY <1>1, <1>3, <1>5 DEF f, M
-----------------------------------------------------------------------------
(* Frames. *)

News == [kind : {"new"}, id : Ids, stream : Sessions]
Datas == [kind : {"data"}, id : Ids, payload : Payloads]
Asks == [kind : {"ask"}, stream : Sessions]
Closes == [kind : {"close"}, id : Ids]

(* The kinds of frames, and what a frame of each kind carries.              *)
LEMMA FrameFacts ==
    /\ Frames = News \cup Datas \cup Asks \cup Closes /\ WireFrames = News \cup Datas
    /\ \A f \in News : f.kind = "new" /\ f.id \in Ids /\ f.stream \in Sessions
    /\ \A f \in Datas : f.kind = "data" /\ f.id \in Ids /\ f.payload \in Payloads
    /\ \A f \in Asks : f.kind = "ask" /\ f.stream \in Sessions
    /\ \A f \in Closes : f.kind = "close" /\ f.id \in Ids
    /\ \A f \in Frames : /\ f.kind = "new" => f \in News
                         /\ f.kind = "data" => f \in Datas
                         /\ f.kind = "ask" => f \in Asks
                         /\ f.kind = "close" => f \in Closes
                         /\ f.kind \in {"new", "data"} => f \in WireFrames
<1>1. Frames = News \cup Datas \cup Asks \cup Closes /\ WireFrames = News \cup Datas
    BY DEF Frames, WireFrames, News, Datas, Asks, Closes
<1>2. \A f \in News : f.kind = "new" /\ f.id \in Ids /\ f.stream \in Sessions
    BY DEF News
<1>3. \A f \in Datas : f.kind = "data" /\ f.id \in Ids /\ f.payload \in Payloads
    BY DEF Datas
<1>4. \A f \in Asks : f.kind = "ask" /\ f.stream \in Sessions
    BY DEF Asks
<1>5. \A f \in Closes : f.kind = "close" /\ f.id \in Ids
    BY DEF Closes
<1>6. \A f \in Frames : /\ f.kind = "new" => f \in News
                        /\ f.kind = "data" => f \in Datas
                        /\ f.kind = "ask" => f \in Asks
                        /\ f.kind = "close" => f \in Closes
                        /\ f.kind \in {"new", "data"} => f \in WireFrames
    BY <1>1, <1>2, <1>3, <1>4, <1>5
<1> QED BY <1>1, <1>2, <1>3, <1>4, <1>5, <1>6

(* The frames the actions make.                                             *)
LEMMA MadeFacts ==
    /\ \A s \in Sessions : /\ AskFrame(s) \in Asks /\ AskFrame(s).kind = "ask"
                           /\ AskFrame(s).stream = s
    /\ \A i \in Ids : /\ CloseFrame(i) \in Closes /\ CloseFrame(i).kind = "close"
                      /\ CloseFrame(i).id = i
    /\ \A i \in Ids, s \in Sessions : /\ NewFrame(i, s) \in News /\ NewFrame(i, s).kind = "new"
                                      /\ NewFrame(i, s).id = i /\ NewFrame(i, s).stream = s
    /\ \A i \in Ids, p \in Payloads : DataFrame(i, p) \in Datas
    /\ \A i, p : /\ DataFrame(i, p).kind = "data" /\ DataFrame(i, p).id = i
                 /\ DataFrame(i, p).payload = p
    /\ \A f \in Datas : f = DataFrame(f.id, f.payload)
<1>1. \A s \in Sessions : /\ AskFrame(s) \in Asks /\ AskFrame(s).kind = "ask"
                          /\ AskFrame(s).stream = s
    BY DEF AskFrame, Asks
<1>2. \A i \in Ids : /\ CloseFrame(i) \in Closes /\ CloseFrame(i).kind = "close"
                     /\ CloseFrame(i).id = i
    BY DEF CloseFrame, Closes
<1>3. \A i \in Ids, s \in Sessions : /\ NewFrame(i, s) \in News /\ NewFrame(i, s).kind = "new"
                                     /\ NewFrame(i, s).id = i /\ NewFrame(i, s).stream = s
    BY DEF NewFrame, News
<1>4. \A i \in Ids, p \in Payloads : DataFrame(i, p) \in Datas
    BY DEF DataFrame, Datas
<1>5. \A i, p : /\ DataFrame(i, p).kind = "data" /\ DataFrame(i, p).id = i
                /\ DataFrame(i, p).payload = p
    BY DEF DataFrame
<1>6. \A f \in Datas : f = DataFrame(f.id, f.payload)
    BY DEF Datas, DataFrame
<1> QED BY <1>1, <1>2, <1>3, <1>4, <1>5, <1>6

(* Payloads.                                                                *)
LEMMA PayloadFacts ==
    /\ \A p \in Protocols : p \in Payloads
    /\ \A s \in Sessions, x \in Sides, n \in Nat : Message(s, x, n) \in Payloads
BY DEF Payloads, Message, Messages

(* The two ends.                                                            *)
LEMMA SideFacts ==
    /\ \A x \in Sides : Other(x) \in Sides /\ Other(x) # x /\ Other(Other(x)) = x
    /\ \A x, y \in Sides : y = x \/ y = Other(x)
    /\ A \in Sides /\ B \in Sides
    /\ \A s \in Sessions : Opener[s] \in Sides
    /\ NoStream \notin Sessions /\ NoProtocol \notin Protocols
    /\ \A s \in Sessions : ProtoOf[s] \in Protocols
    /\ \A x \in Sides : Registry[x] \subseteq Protocols
    /\ MaxStreams \in Nat /\ Ids \subseteq Nat /\ 0 \notin Ids
    /\ \A i \in Ids : i =< MaxStreams /\ i \in 0..MaxStreams
BY MplexAssumption DEF Sides, Other, Ids

-----------------------------------------------------------------------------
(* The type invariant, a variable at a time. *)

Conns == [at : ConnLabels, frame : Frames \cup {NoFrame}]

ConnT == conn \in [Sides -> Conns]
CounterT == stream_counter \in [Sides -> 0..MaxStreams]
StreamsT == streams \in [Sides -> [Ids -> Sessions \cup {NoStream}]]
MpscT == mpsc \in [Sides -> Seq(Frames)] /\ \A x \in Sides : Len(mpsc[x]) =< QueueCap
WireT == wire \in [Sides -> Seq(WireFrames)] /\ \A x \in Sides : Len(wire[x]) =< WireCap
TaskT == task \in [Sides -> [Sessions -> TaskLabels]]
IdT == stream_id \in [Sides -> [Sessions -> 0..MaxStreams]]
InboxT == /\ inbox \in [Sides -> [Sessions -> Seq(Payloads)]]
          /\ \A x \in Sides, s \in Sessions : Len(inbox[x][s]) =< InboxCap
SentT == /\ sent \in [Sides -> [Sessions -> Nat]]
         /\ \A x \in Sides, s \in Sessions : sent[x][s] =< MaxWrites[x][s]
GotT == got \in [Sides -> [Sessions -> Seq(Payloads)]]
AgreedT == agreed \in [Sides -> [Sessions -> Protocols \cup {NoProtocol}]]
RemovedT == removed \in [Sides -> SUBSET Sessions]

(* The type invariant is the type of every variable.                        *)
LEMMA TypeParts ==
    TypeOK <=> /\ ConnT /\ CounterT /\ StreamsT /\ MpscT /\ WireT /\ link \in BOOLEAN /\ TaskT
               /\ IdT /\ InboxT /\ SentT /\ GotT /\ AgreedT /\ RemovedT
BY DEF TypeOK, ConnT, CounterT, StreamsT, MpscT, WireT, TaskT, IdT, InboxT, SentT, GotT,
       AgreedT, RemovedT, Conns

(* What the task of a connection holds: the frame it announces, writes or   *)
(* delivers; a task that has ended took the raw connection with it.          *)
Shape(x) ==
    /\ conn[x].at = "announce" => conn[x].frame \in News
    /\ conn[x].at = "write" => conn[x].frame \in WireFrames
    /\ conn[x].at = "deliver" => /\ conn[x].frame \in Datas
                                 /\ streams[x][conn[x].frame.id] # NoStream
    /\ ~Up(x) => mpsc[x] = <<>> /\ ~link /\ \A i \in Ids : streams[x][i] = NoStream

(* What the task of a stream works with.                                    *)
Past(x, s) == task[x][s] \notin {"none", "asked"}
Equipped(x, s) ==
    /\ Past(x, s) => stream_id[x][s] \in Ids
    /\ task[x][s] = "reply" => agreed[x][s] # NoProtocol
    /\ task[x][s] = "write" => sent[x][s] < MaxWrites[x][s]

Announcing(x, s) == conn[x].at = "announce" /\ conn[x].frame.stream = s
Numbered(x) == conn[x].at = "announce" =>
    stream_id[x][conn[x].frame.stream] = conn[x].frame.id

TypeInv ==
    /\ TypeOK
    /\ \A x \in Sides : Shape(x) /\ Numbered(x)
    /\ \A x \in Sides, s \in Sessions : Equipped(x, s)
-----------------------------------------------------------------------------
(* What the operators the actions are built from do. *)

(* A value put for one index.                                               *)
LEMMA SetFacts ==
    ASSUME NEW X, NEW S, NEW F \in [X -> S], NEW G,
           NEW a \in X, NEW v \in S, G = [F EXCEPT ![a] = v]
    PROVE  G \in [X -> S] /\ G[a] = v /\ \A x \in X : x # a => G[x] = F[x]
OBVIOUS

(* A value put for a pair of indices.                                       *)
LEMMA PutFacts ==
    ASSUME NEW X, NEW Y, NEW S, NEW F \in [X -> [Y -> S]], NEW G,
           NEW a \in X, NEW b \in Y, NEW v \in S, G = [F EXCEPT ![a][b] = v]
    PROVE  /\ G \in [X -> [Y -> S]] /\ G[a][b] = v
           /\ \A y \in Y : y # b => G[a][y] = F[a][y]
           /\ \A x \in X : x # a => G[x] = F[x]
           /\ \A x \in X, y \in Y : x # a \/ y # b => G[x][y] = F[x][y]
<1>1. F[a] \in [Y -> S]
    OBVIOUS
<1>2. G = [F EXCEPT ![a] = [F[a] EXCEPT ![b] = v]]
    OBVIOUS
<1>3. G[a] = [F[a] EXCEPT ![b] = v] /\ \A x \in X : x # a => G[x] = F[x]
    BY <1>2
<1>4. G[a] \in [Y -> S] /\ G[a][b] = v /\ \A y \in Y : y # b => G[a][y] = F[a][y]
    BY <1>1, <1>3
<1> QED BY <1>2, <1>3, <1>4

(* A step of a variable: what changes, and that nothing else of it does.    *)
ConnSet(x, label, f) ==
    /\ ConnT' /\ conn'[x].at = label /\ conn'[x].frame = f
    /\ \A y \in Sides : y # x => conn'[y] = conn[y]
TaskSet(x, s, label) ==
    /\ TaskT' /\ task'[x][s] = label
    /\ \A y \in Sides, t \in Sessions : y # x \/ t # s => task'[y][t] = task[y][t]
Queued(x, f) ==
    /\ f \in Frames /\ MpscT' /\ mpsc'[x] = Append(mpsc[x], f)
    /\ \A y \in Sides : y # x => mpsc'[y] = mpsc[y]
Taken(x) ==
    /\ MpscT' /\ mpsc[x] # <<>> /\ Head(mpsc[x]) \in Frames
    /\ mpsc'[x] = Tail(mpsc[x])
    /\ \A y \in Sides : y # x => mpsc'[y] = mpsc[y]
ReadOff(z) ==
    /\ WireT' /\ wire[z] # <<>> /\ Head(wire[z]) \in WireFrames
    /\ wire'[z] = Tail(wire[z])
    /\ \A y \in Sides : y # z => wire'[y] = wire[y]
Written(x, f) ==
    /\ WireT'
    /\ link => wire'[x] = Append(wire[x], f)
    /\ ~link => wire' = wire
    /\ \A y \in Sides : y # x => wire'[y] = wire[y]
Given(x, s, i) ==
    /\ i \in Ids /\ CounterT' /\ StreamsT' /\ IdT'
    /\ stream_counter'[x] = i /\ streams'[x][i] = s /\ stream_id'[x][s] = i
    /\ \A y \in Sides : y # x => /\ stream_counter'[y] = stream_counter[y]
                                 /\ streams'[y] = streams[y]
    /\ \A j \in Ids : j # i => streams'[x][j] = streams[x][j]
    /\ \A y \in Sides, t \in Sessions :
           y # x \/ t # s => stream_id'[y][t] = stream_id[y][t]
Delivered(x, s, p) ==
    /\ p \in Payloads /\ InboxT' /\ inbox'[x][s] = Append(inbox[x][s], p)
    /\ \A y \in Sides, t \in Sessions : y # x \/ t # s => inbox'[y][t] = inbox[y][t]
Received(x, s) ==
    /\ InboxT' /\ inbox[x][s] # <<>> /\ Head(inbox[x][s]) \in Payloads
    /\ inbox'[x][s] = Tail(inbox[x][s])
    /\ \A y \in Sides, t \in Sessions : y # x \/ t # s => inbox'[y][t] = inbox[y][t]
Settled(x, s, p) ==
    /\ p \in Protocols /\ AgreedT' /\ agreed'[x][s] = p
    /\ \A y \in Sides, t \in Sessions : y # x \/ t # s => agreed'[y][t] = agreed[y][t]
Ended(x, label, f) ==
    /\ ConnSet(x, label, f)
    /\ StreamsT' /\ \A i \in Ids : streams'[x][i] = NoStream
    /\ \A y \in Sides : y # x => streams'[y] = streams[y]
    /\ MpscT' /\ mpsc'[x] = <<>> /\ \A y \in Sides : y # x => mpsc'[y] = mpsc[y]
    /\ link' = FALSE

(* A connection task goes to another state.                                 *)
LEMMA EntersFacts ==
    ASSUME ConnT, NEW x \in Sides, NEW label \in ConnLabels, NEW f \in Frames \cup {NoFrame},
           Enters(x, label, f)
    PROVE  ConnSet(x, label, f)
<1> DEFINE r == [at |-> label, frame |-> f]
<1>1. r \in Conns /\ r.at = label /\ r.frame = f
    BY DEF Conns
<1>2. conn' = [conn EXCEPT ![x] = r] /\ conn \in [Sides -> Conns]
    BY DEF Enters, ConnT
<1> HIDE DEF r
<1>3. conn' \in [Sides -> Conns] /\ conn'[x] = r /\ \A y \in Sides : y # x => conn'[y] = conn[y]
    BY <1>1, <1>2, SetFacts
<1> QED BY <1>1, <1>3 DEF ConnT, ConnSet

(* The task of a stream goes to another state.                              *)
LEMMA GoesFacts ==
    ASSUME TaskT, NEW x \in Sides, NEW s \in Sessions, NEW label \in TaskLabels,
           Goes(x, s, label)
    PROVE  TaskSet(x, s, label)
<1>1. task' = [task EXCEPT ![x][s] = label] /\ task \in [Sides -> [Sessions -> TaskLabels]]
    BY DEF Goes, TaskT
<1> QED BY <1>1, PutFacts DEF TaskT, TaskSet

(* A frame is queued for a connection task.                                 *)
LEMMA EnqueueFacts ==
    ASSUME MpscT, NEW x \in Sides, NEW f \in Frames, Enqueue(x, f)
    PROVE  Queued(x, f)
<1>1. mpsc \in [Sides -> Seq(Frames)] /\ mpsc[x] \in Seq(Frames)
      /\ \A y \in Sides : Len(mpsc[y]) =< QueueCap
    BY DEF MpscT
<1>2. Append(mpsc[x], f) \in Seq(Frames) /\ Len(Append(mpsc[x], f)) = Len(mpsc[x]) + 1
      /\ Len(mpsc[x]) \in Nat
    BY <1>1, AppendFacts
<1>3. mpsc' = [mpsc EXCEPT ![x] = Append(mpsc[x], f)] /\ Len(mpsc[x]) < QueueCap
    BY DEF Enqueue, HasRoom
<1>4. /\ mpsc' \in [Sides -> Seq(Frames)] /\ mpsc'[x] = Append(mpsc[x], f)
      /\ \A y \in Sides : y # x => mpsc'[y] = mpsc[y]
    BY <1>1, <1>2, <1>3, SetFacts
<1>5. QueueCap \in Nat
    BY MplexAssumption
<1>6. \A y \in Sides : Len(mpsc'[y]) =< QueueCap
    BY <1>1, <1>2, <1>3, <1>4, <1>5
<1> QED BY <1>4, <1>6 DEF MpscT, Queued

(* A connection task takes a frame from its channel.                        *)
LEMMA TakesFacts ==
    ASSUME MpscT, NEW x \in Sides, NEW K, Takes(x, K)
    PROVE  Taken(x) /\ Head(mpsc[x]).kind \in K /\ conn[x].at = "select"
<1>1. mpsc \in [Sides -> Seq(Frames)] /\ mpsc[x] \in Seq(Frames)
      /\ \A y \in Sides : Len(mpsc[y]) =< QueueCap
    BY DEF MpscT
<1>2. /\ mpsc[x] # <<>> /\ Head(mpsc[x]).kind \in K /\ conn[x].at = "select"
      /\ mpsc' = [mpsc EXCEPT ![x] = Tail(mpsc[x])]
    BY DEF Takes, Selecting
<1>3. /\ Head(mpsc[x]) \in Frames /\ Tail(mpsc[x]) \in Seq(Frames)
      /\ Len(Tail(mpsc[x])) \in Nat /\ Len(mpsc[x]) \in Nat
      /\ Len(mpsc[x]) = Len(Tail(mpsc[x])) + 1
    BY <1>1, <1>2, TailFacts
<1>4. /\ mpsc' \in [Sides -> Seq(Frames)] /\ mpsc'[x] = Tail(mpsc[x])
      /\ \A y \in Sides : y # x => mpsc'[y] = mpsc[y]
    BY <1>1, <1>2, <1>3, SetFacts
<1>5. QueueCap \in Nat
    BY MplexAssumption
<1>6. Len(Tail(mpsc[x])) =< QueueCap
    BY <1>1, <1>3, <1>5
<1>7. \A y \in Sides : Len(mpsc'[y]) =< QueueCap
    BY <1>1, <1>4, <1>6
<1> QED BY <1>2, <1>3, <1>4, <1>7 DEF MpscT, Taken

(* A connection task reads a frame from the raw connection.                 *)
LEMMA ReadsFacts ==
    ASSUME WireT, NEW x \in Sides, NEW k, Reads(x, k), NEW z \in Sides, z = Other(x)
    PROVE  ReadOff(z) /\ Head(wire[z]).kind = k /\ conn[x].at = "select"
<1>1. wire \in [Sides -> Seq(WireFrames)] /\ wire[z] \in Seq(WireFrames)
      /\ \A y \in Sides : Len(wire[y]) =< WireCap
    BY DEF WireT
<1>2. /\ wire[z] # <<>> /\ Head(wire[z]).kind = k /\ conn[x].at = "select"
      /\ wire' = [wire EXCEPT ![z] = Tail(wire[z])]
    BY DEF Reads, Selecting
<1>3. /\ Head(wire[z]) \in WireFrames /\ Tail(wire[z]) \in Seq(WireFrames)
      /\ Len(Tail(wire[z])) \in Nat /\ Len(wire[z]) \in Nat
      /\ Len(wire[z]) = Len(Tail(wire[z])) + 1
    BY <1>1, <1>2, TailFacts
<1>4. /\ wire' \in [Sides -> Seq(WireFrames)] /\ wire'[z] = Tail(wire[z])
      /\ \A y \in Sides : y # z => wire'[y] = wire[y]
    BY <1>1, <1>2, <1>3, SetFacts
<1>5. WireCap \in Nat
    BY MplexAssumption
<1>6. Len(Tail(wire[z])) =< WireCap
    BY <1>1, <1>3, <1>5
<1>7. \A y \in Sides : Len(wire'[y]) =< WireCap
    BY <1>1, <1>4, <1>6
<1> QED BY <1>2, <1>3, <1>4, <1>7 DEF WireT, ReadOff

(* A frame is written; once the raw connection has failed it vanishes.      *)
LEMMA PutOnWireFacts ==
    ASSUME WireT, NEW x \in Sides, NEW f \in WireFrames, Writable(x), PutOnWire(x, f)
    PROVE  Written(x, f)
<1>1. wire \in [Sides -> Seq(WireFrames)] /\ wire[x] \in Seq(WireFrames)
      /\ \A y \in Sides : Len(wire[y]) =< WireCap
    BY DEF WireT
<1>2. CASE ~link
    BY <1>2 DEF PutOnWire, WireT, Written
<1>3. CASE link
    <2>1. wire' = [wire EXCEPT ![x] = Append(wire[x], f)] /\ Len(wire[x]) < WireCap
        BY <1>3 DEF PutOnWire, Writable
    <2>2. Append(wire[x], f) \in Seq(WireFrames) /\ Len(Append(wire[x], f)) = Len(wire[x]) + 1
          /\ Len(wire[x]) \in Nat
        BY <1>1, AppendFacts
    <2>3. /\ wire' \in [Sides -> Seq(WireFrames)] /\ wire'[x] = Append(wire[x], f)
          /\ \A y \in Sides : y # x => wire'[y] = wire[y]
        BY <1>1, <2>1, <2>2, SetFacts
    <2>4. WireCap \in Nat
        BY MplexAssumption
    <2>5. \A y \in Sides : Len(wire'[y]) =< WireCap
        BY <1>1, <2>1, <2>2, <2>3, <2>4
    <2> QED BY <1>3, <2>3, <2>5 DEF WireT, Written
<1> QED BY <1>2, <1>3

(* A stream is registered under an id.                                      *)
LEMMA RegistersFacts ==
    ASSUME CounterT, StreamsT, IdT, NEW x \in Sides, NEW s \in Sessions, NEW i \in Ids,
           Registers(x, s, i)
    PROVE  Given(x, s, i)
<1>1. i \in 0..MaxStreams /\ s \in Sessions \cup {NoStream}
    BY SideFacts
<1>2. /\ stream_counter' = [stream_counter EXCEPT ![x] = i]
      /\ streams' = [streams EXCEPT ![x][i] = s]
      /\ stream_id' = [stream_id EXCEPT ![x][s] = i]
    BY DEF Registers
<1>3. /\ CounterT' /\ stream_counter'[x] = i
      /\ \A y \in Sides : y # x => stream_counter'[y] = stream_counter[y]
    BY <1>1, <1>2, SetFacts DEF CounterT
<1>4. streams \in [Sides -> [Ids -> Sessions \cup {NoStream}]]
    BY DEF StreamsT
<1>5. /\ streams' \in [Sides -> [Ids -> Sessions \cup {NoStream}]] /\ streams'[x][i] = s
      /\ \A j \in Ids : j # i => streams'[x][j] = streams[x][j]
      /\ \A y \in Sides : y # x => streams'[y] = streams[y]
    BY <1>1, <1>2, <1>4, PutFacts
<1>6. stream_id \in [Sides -> [Sessions -> 0..MaxStreams]]
    BY DEF IdT
<1>7. /\ stream_id' \in [Sides -> [Sessions -> 0..MaxStreams]] /\ stream_id'[x][s] = i
      /\ \A y \in Sides, t \in Sessions : y # x \/ t # s => stream_id'[y][t] = stream_id[y][t]
    BY <1>1, <1>2, <1>6, PutFacts
<1> QED BY <1>3, <1>5, <1>7 DEF StreamsT, IdT, Given

(* A payload is delivered to a stream that has room.                        *)
LEMMA DeliverFacts ==
    ASSUME InboxT, NEW x \in Sides, NEW s \in Sessions, NEW p \in Payloads,
           Deliverable(x, s), Deliver(x, s, p)
    PROVE  Delivered(x, s, p)
<1>1. inbox \in [Sides -> [Sessions -> Seq(Payloads)]] /\ inbox[x][s] \in Seq(Payloads)
      /\ \A y \in Sides, t \in Sessions : Len(inbox[y][t]) =< InboxCap
    BY DEF InboxT
<1>2. Append(inbox[x][s], p) \in Seq(Payloads) /\ Len(inbox[x][s]) \in Nat
      /\ Len(Append(inbox[x][s], p)) = Len(inbox[x][s]) + 1
    BY <1>1, AppendFacts
<1>3. inbox' = [inbox EXCEPT ![x][s] = Append(inbox[x][s], p)] /\ Len(inbox[x][s]) < InboxCap
    BY <1>1 DEF Deliver, Deliverable
<1>4. /\ inbox' \in [Sides -> [Sessions -> Seq(Payloads)]]
      /\ inbox'[x][s] = Append(inbox[x][s], p)
      /\ \A y \in Sides, t \in Sessions : y # x \/ t # s => inbox'[y][t] = inbox[y][t]
    BY <1>1, <1>2, <1>3, PutFacts
<1>5. InboxCap \in Nat
    BY MplexAssumption
<1>6. \A y \in Sides, t \in Sessions : Len(inbox'[y][t]) =< InboxCap
    BY <1>1, <1>2, <1>3, <1>4, <1>5
<1> QED BY <1>4, <1>6 DEF InboxT, Delivered

(* A stream reads the next payload.                                         *)
LEMMA ReceivesFacts ==
    ASSUME InboxT, NEW x \in Sides, NEW s \in Sessions, Receives(x, s)
    PROVE  Received(x, s)
<1>1. inbox \in [Sides -> [Sessions -> Seq(Payloads)]] /\ inbox[x][s] \in Seq(Payloads)
      /\ \A y \in Sides, t \in Sessions : Len(inbox[y][t]) =< InboxCap
    BY DEF InboxT
<1>2. inbox[x][s] # <<>> /\ inbox' = [inbox EXCEPT ![x][s] = Tail(inbox[x][s])]
    BY <1>1 DEF Receives
<1>3. /\ Head(inbox[x][s]) \in Payloads /\ Tail(inbox[x][s]) \in Seq(Payloads)
      /\ Len(Tail(inbox[x][s])) \in Nat /\ Len(inbox[x][s]) \in Nat
      /\ Len(inbox[x][s]) = Len(Tail(inbox[x][s])) + 1
    BY <1>1, <1>2, TailFacts
<1>4. /\ inbox' \in [Sides -> [Sessions -> Seq(Payloads)]]
      /\ inbox'[x][s] = Tail(inbox[x][s])
      /\ \A y \in Sides, t \in Sessions : y # x \/ t # s => inbox'[y][t] = inbox[y][t]
    BY <1>1, <1>2, <1>3, PutFacts
<1>5. InboxCap \in Nat
    BY MplexAssumption
<1>6. Len(Tail(inbox[x][s])) =< InboxCap
    BY <1>1, <1>3, <1>5
<1>7. \A y \in Sides, t \in Sessions : Len(inbox'[y][t]) =< InboxCap
    BY <1>1, <1>4, <1>6
<1> QED BY <1>2, <1>3, <1>4, <1>7 DEF InboxT, Received

(* A stream settles on a protocol.                                          *)
LEMMA AgreesFacts ==
    ASSUME AgreedT, NEW x \in Sides, NEW s \in Sessions, NEW p \in Protocols,
           agreed' = [agreed EXCEPT ![x][s] = p]
    PROVE  Settled(x, s, p)
<1>1. agreed \in [Sides -> [Sessions -> Protocols \cup {NoProtocol}]]
    BY DEF AgreedT
<1> QED BY <1>1, PutFacts DEF AgreedT, Settled

(* A connection task ends.                                                  *)
LEMMA EndsFacts ==
    ASSUME ConnT, StreamsT, MpscT, NEW x \in Sides, NEW label \in {"closed", "panic"},
           NEW f \in Frames \cup {NoFrame}, Ends(x, label, f)
    PROVE  Ended(x, label, f)
<1>1. ConnSet(x, label, f)
    BY EntersFacts DEF Ends, ConnLabels
<1> DEFINE none == [i \in Ids |-> NoStream]
<1>2. none \in [Ids -> Sessions \cup {NoStream}] /\ \A i \in Ids : none[i] = NoStream
    OBVIOUS
<1>3. streams' = [streams EXCEPT ![x] = none]
    BY DEF Ends
<1> HIDE DEF none
<1>4. /\ StreamsT' /\ streams'[x] = none /\ \A y \in Sides : y # x => streams'[y] = streams[y]
    BY <1>2, <1>3, SetFacts DEF StreamsT
<1>5. <<>> \in Seq(Frames) /\ Len(<<>>) =< QueueCap
    BY MplexAssumption
<1>6. mpsc' = [mpsc EXCEPT ![x] = <<>>] /\ mpsc \in [Sides -> Seq(Frames)]
    BY DEF Ends, MpscT
<1>7. mpsc' \in [Sides -> Seq(Frames)] /\ mpsc'[x] = <<>>
      /\ \A y \in Sides : y # x => mpsc'[y] = mpsc[y]
    BY <1>5, <1>6, SetFacts
<1>8. \A y \in Sides : Len(mpsc[y]) =< QueueCap
    BY DEF MpscT
<1>9. \A y \in Sides : Len(mpsc'[y]) =< QueueCap
    BY <1>5, <1>7, <1>8
<1>10. link' = FALSE
    BY DEF Ends
<1> QED BY <1>1, <1>2, <1>4, <1>7, <1>9, <1>10 DEF MpscT, Ended
-----------------------------------------------------------------------------
(* What every action does, in those terms. *)

(* A step keeps the types if each variable stays or gets a value of its type. *)
LEMMA TypeKept ==
    ASSUME TypeOK, ConnT' \/ UNCHANGED conn, CounterT' \/ UNCHANGED stream_counter,
           StreamsT' \/ UNCHANGED streams, MpscT' \/ UNCHANGED mpsc, WireT' \/ UNCHANGED wire,
           link' \in BOOLEAN, TaskT' \/ UNCHANGED task, IdT' \/ UNCHANGED stream_id,
           InboxT' \/ UNCHANGED inbox, SentT' \/ UNCHANGED sent, GotT' \/ UNCHANGED got,
           AgreedT' \/ UNCHANGED agreed, RemovedT' \/ UNCHANGED removed
    PROVE  TypeOK'
<1>1. /\ ConnT /\ CounterT /\ StreamsT /\ MpscT /\ WireT /\ TaskT /\ IdT
      /\ InboxT /\ SentT /\ GotT /\ AgreedT /\ RemovedT
    BY TypeParts
<1>2. ConnT' /\ CounterT' /\ StreamsT' /\ TaskT' /\ IdT'
    BY <1>1 DEF ConnT, CounterT, StreamsT, TaskT, IdT
<1>3. MpscT' /\ WireT' /\ InboxT'
    BY <1>1 DEF MpscT, WireT, InboxT
<1>4. SentT' /\ GotT' /\ AgreedT' /\ RemovedT'
    BY <1>1 DEF SentT, GotT, AgreedT, RemovedT
<1> QED BY <1>2, <1>3, <1>4 DEF TypeOK, ConnT, CounterT, StreamsT, MpscT, WireT, TaskT,
           IdT, InboxT, SentT, GotT, AgreedT, RemovedT, Conns

(* The swarm asks for a stream.                                             *)
LEMMA AskEffect ==
    ASSUME TypeOK, NEW s \in Sessions, NEW x \in Sides, x = Opener[s], Ask(s)
    PROVE  /\ task[x][s] = "none" /\ Up(x) /\ Queued(x, AskFrame(s)) /\ TaskSet(x, s, "asked")
           /\ UNCHANGED <<connVars, stream_id, inbox, history>>
<1>1. /\ task[x][s] = "none" /\ Up(x) /\ Enqueue(x, AskFrame(s)) /\ Goes(x, s, "asked")
      /\ UNCHANGED <<connVars, stream_id, inbox, history>>
    BY DEF Ask
<1>2. AskFrame(s) \in Frames /\ "asked" \in TaskLabels
    BY FrameFacts, MadeFacts DEF TaskLabels
<1> QED BY <1>1, <1>2, TypeParts, EnqueueFacts, GoesFacts

(* A stream asked for is registered, and its frame is taken in hand.        *)
LEMMA OpenEffect ==
    ASSUME TypeOK, NEW x \in Sides, ConnOpen(x)
    PROVE  LET s == Head(mpsc[x]).stream
               i == NextId(x)
           IN /\ conn[x].at = "select" /\ Taken(x) /\ Head(mpsc[x]) \in Asks /\ s \in Sessions
              /\ Given(x, s, i) /\ ConnSet(x, "announce", NewFrame(i, s))
              /\ UNCHANGED <<wire, link, task, inbox, history>>
<1> DEFINE s == Head(mpsc[x]).stream
           i == NextId(x)
<1>1. /\ Takes(x, {"ask"}) /\ i \in Ids /\ Registers(x, s, i)
      /\ Enters(x, "announce", NewFrame(i, s)) /\ UNCHANGED <<wire, link, task, inbox, history>>
    BY DEF ConnOpen
<1>2. /\ Taken(x) /\ Head(mpsc[x]) \in Frames /\ Head(mpsc[x]).kind = "ask"
      /\ conn[x].at = "select"
    BY <1>1, TypeParts, TakesFacts DEF Taken
<1>3. Head(mpsc[x]) \in Asks /\ s \in Sessions
    BY <1>2, FrameFacts
<1> HIDE DEF s, i
<1>4. Given(x, s, i)
    BY <1>1, <1>3, TypeParts, RegistersFacts
<1>5. NewFrame(i, s) \in Frames /\ "announce" \in ConnLabels
    BY <1>1, <1>3, FrameFacts, MadeFacts DEF ConnLabels
<1>6. ConnSet(x, "announce", NewFrame(i, s))
    BY <1>1, <1>5, TypeParts, EntersFacts
<1> QED BY <1>1, <1>2, <1>3, <1>4, <1>6 DEF s, i

(* The frame that announces the stream is queued, and its task spawned.     *)
LEMMA AnnounceEffect ==
    ASSUME TypeOK, NEW x \in Sides, Shape(x), ConnAnnounce(x)
    PROVE  LET f == conn[x].frame
           IN /\ conn[x].at = "announce" /\ f \in News /\ f.stream \in Sessions
              /\ Queued(x, f) /\ TaskSet(x, f.stream, "request") /\ ConnSet(x, "select", NoFrame)
              /\ UNCHANGED <<stream_counter, streams, wire, link, stream_id, inbox, history>>
<1> DEFINE f == conn[x].frame
<1>1. /\ conn[x].at = "announce" /\ Enqueue(x, f) /\ Goes(x, f.stream, "request")
      /\ Enters(x, "select", NoFrame)
      /\ UNCHANGED <<stream_counter, streams, wire, link, stream_id, inbox, history>>
    BY DEF ConnAnnounce
<1>2. f \in News /\ f \in Frames /\ f.stream \in Sessions
    BY <1>1, FrameFacts DEF Shape
<1>3. "request" \in TaskLabels /\ "select" \in ConnLabels
    BY DEF TaskLabels, ConnLabels
<1> HIDE DEF f
<1>4. Queued(x, f) /\ TaskSet(x, f.stream, "request") /\ ConnSet(x, "select", NoFrame)
    BY <1>1, <1>2, <1>3, TypeParts, EnqueueFacts, GoesFacts, EntersFacts
<1> QED BY <1>1, <1>2, <1>4 DEF f

(* A stream the other end announces is registered, and its task spawned.    *)
LEMMA AcceptEffect ==
    ASSUME TypeOK, NEW x \in Sides, NEW z \in Sides, z = Other(x), ConnAccept(x)
    PROVE  LET f == Head(wire[z])
           IN /\ conn[x].at = "select" /\ ReadOff(z) /\ f \in News
              /\ f.stream \in Sessions /\ f.id \in Ids
              /\ Given(x, f.stream, f.id) /\ TaskSet(x, f.stream, "answer")
              /\ UNCHANGED <<conn, mpsc, link, inbox, history>>
<1> DEFINE f == Head(wire[z])
<1>1. /\ Reads(x, "new") /\ Registers(x, f.stream, f.id) /\ Goes(x, f.stream, "answer")
      /\ UNCHANGED <<conn, mpsc, link, inbox, history>>
    BY DEF ConnAccept
<1>2. ReadOff(z) /\ f \in WireFrames /\ f.kind = "new" /\ conn[x].at = "select"
    BY <1>1, TypeParts, ReadsFacts DEF ReadOff
<1>3. f \in News /\ f.stream \in Sessions /\ f.id \in Ids /\ "answer" \in TaskLabels
    BY <1>2, FrameFacts DEF TaskLabels
<1> HIDE DEF f
<1>4. Given(x, f.stream, f.id) /\ TaskSet(x, f.stream, "answer")
    BY <1>1, <1>3, TypeParts, RegistersFacts, GoesFacts
<1> QED BY <1>1, <1>2, <1>3, <1>4 DEF f

(* A payload read is dropped, delivered, or kept in hand.                   *)
LEMMA RouteEffect ==
    ASSUME TypeOK, NEW x \in Sides, NEW z \in Sides, z = Other(x), ConnRoute(x)
    PROVE  LET f == Head(wire[z])
               s == streams[x][f.id]
           IN /\ conn[x].at = "select" /\ ReadOff(z) /\ f \in Datas
              /\ f.id \in Ids /\ f.payload \in Payloads
              /\ \/ s = NoStream /\ UNCHANGED <<conn, inbox>>
                 \/ /\ s \in Sessions /\ Listens(x, s) /\ Delivered(x, s, f.payload)
                    /\ UNCHANGED conn
                 \/ /\ s \in Sessions /\ ~Deliverable(x, s) /\ ConnSet(x, "deliver", f)
                    /\ UNCHANGED inbox
              /\ UNCHANGED <<stream_counter, streams, mpsc, link, task, stream_id, history>>
<1> DEFINE f == Head(wire[z])
           s == streams[x][f.id]
<1>1. /\ Reads(x, "data")
      /\ \/ s = NoStream /\ UNCHANGED <<conn, inbox>>
         \/ s # NoStream /\ Deliverable(x, s) /\ Deliver(x, s, f.payload) /\ UNCHANGED conn
         \/ s # NoStream /\ ~Deliverable(x, s) /\ Enters(x, "deliver", f) /\ UNCHANGED inbox
      /\ UNCHANGED <<stream_counter, streams, mpsc, link, task, stream_id, history>>
    BY DEF ConnRoute, Routed
<1>2. ReadOff(z) /\ f \in WireFrames /\ f.kind = "data" /\ conn[x].at = "select"
    BY <1>1, TypeParts, ReadsFacts DEF ReadOff
<1>3. /\ f \in Datas /\ f \in Frames /\ f.id \in Ids /\ f.payload \in Payloads
      /\ "deliver" \in ConnLabels
    BY <1>2, FrameFacts DEF ConnLabels
<1>4. s # NoStream => s \in Sessions
    BY <1>3, TypeParts DEF StreamsT
<1> HIDE DEF f, s
<1>5. ASSUME s # NoStream, Deliverable(x, s), Deliver(x, s, f.payload)
      PROVE  Listens(x, s) /\ Delivered(x, s, f.payload)
    BY <1>3, <1>4, <1>5, TypeParts, DeliverFacts DEF Deliverable
<1>6. ASSUME Enters(x, "deliver", f) PROVE ConnSet(x, "deliver", f)
    BY <1>3, <1>6, TypeParts, EntersFacts
<1>7. \/ s = NoStream /\ UNCHANGED <<conn, inbox>>
      \/ /\ s \in Sessions /\ Listens(x, s) /\ Delivered(x, s, f.payload)
         /\ UNCHANGED conn
      \/ /\ s \in Sessions /\ ~Deliverable(x, s) /\ ConnSet(x, "deliver", f)
         /\ UNCHANGED inbox
    BY <1>1, <1>4, <1>5, <1>6
<1> QED BY <1>1, <1>2, <1>3, <1>7 DEF f, s

(* The payload in hand is delivered.                                        *)
LEMMA HandOverEffect ==
    ASSUME TypeOK, NEW x \in Sides, Shape(x), ConnDeliver(x)
    PROVE  LET f == conn[x].frame
               s == streams[x][f.id]
           IN /\ conn[x].at = "deliver" /\ f \in Datas /\ f.id \in Ids /\ s \in Sessions
              /\ Listens(x, s) /\ Delivered(x, s, f.payload) /\ ConnSet(x, "select", NoFrame)
              /\ UNCHANGED <<stream_counter, streams, mpsc, wire, link, task, stream_id, history>>
<1> DEFINE f == conn[x].frame
           s == streams[x][f.id]
<1>1. /\ conn[x].at = "deliver" /\ Deliverable(x, s) /\ Deliver(x, s, f.payload)
      /\ Enters(x, "select", NoFrame)
      /\ UNCHANGED <<stream_counter, streams, mpsc, wire, link, task, stream_id, history>>
    BY DEF ConnDeliver
<1>2. f \in Datas /\ s # NoStream
    BY <1>1 DEF Shape
<1>3. f.id \in Ids /\ f.payload \in Payloads /\ "select" \in ConnLabels
    BY <1>2, FrameFacts DEF ConnLabels
<1>4. s \in Sessions
    BY <1>2, <1>3, TypeParts DEF StreamsT
<1> HIDE DEF f, s
<1>5. Listens(x, s) /\ Delivered(x, s, f.payload) /\ ConnSet(x, "select", NoFrame)
    BY <1>1, <1>3, <1>4, TypeParts, DeliverFacts, EntersFacts DEF Deliverable
<1> QED BY <1>1, <1>2, <1>3, <1>4, <1>5 DEF f, s

(* A CloseStream frame is handled.                                          *)
LEMMA CloseEffect ==
    ASSUME TypeOK, NEW x \in Sides, ConnClose(x)
    PROVE  LET i == Head(mpsc[x]).id
           IN /\ conn[x].at = "select" /\ Taken(x) /\ Head(mpsc[x]) \in Closes /\ i \in Ids
              /\ StreamsT' /\ streams'[x][i] = NoStream
              /\ \A j \in Ids : j # i => streams'[x][j] = streams[x][j]
              /\ \A y \in Sides : y # x => streams'[y] = streams[y]
              /\ RemovedT'
              /\ \A s : s \in removed'[x] <=> s \in removed[x]
                                                \/ (s = streams[x][i] /\ s # NoStream)
              /\ \A y \in Sides : y # x => removed'[y] = removed[y]
              /\ UNCHANGED <<conn, stream_counter, wire, link, taskVars, sent, got, agreed>>
<1> DEFINE i == Head(mpsc[x]).id
<1>1. /\ Takes(x, {"close"}) /\ streams' = [streams EXCEPT ![x][i] = NoStream]
      /\ removed' = [removed EXCEPT ![x] = @ \cup ({streams[x][i]} \ {NoStream})]
      /\ UNCHANGED <<conn, stream_counter, wire, link, taskVars, sent, got, agreed>>
    BY DEF ConnClose
<1>2. /\ Taken(x) /\ Head(mpsc[x]) \in Frames /\ Head(mpsc[x]).kind = "close"
      /\ conn[x].at = "select"
    BY <1>1, TypeParts, TakesFacts DEF Taken
<1>3. Head(mpsc[x]) \in Closes /\ i \in Ids
    BY <1>2, FrameFacts
<1> HIDE DEF i
<1>4. /\ streams \in [Sides -> [Ids -> Sessions \cup {NoStream}]]
      /\ removed \in [Sides -> SUBSET Sessions]
    BY TypeParts DEF StreamsT, RemovedT
<1>5. /\ streams' \in [Sides -> [Ids -> Sessions \cup {NoStream}]] /\ streams'[x][i] = NoStream
      /\ \A j \in Ids : j # i => streams'[x][j] = streams[x][j]
      /\ \A y \in Sides : y # x => streams'[y] = streams[y]
    BY <1>1, <1>3, <1>4, PutFacts
<1> DEFINE R == removed[x] \cup ({streams[x][i]} \ {NoStream})
<1>6. R \in SUBSET Sessions
    BY <1>3, <1>4
<1>7. removed' = [removed EXCEPT ![x] = R]
    BY <1>1, <1>4
<1>8. \A s : s \in R <=> s \in removed[x] \/ (s = streams[x][i] /\ s # NoStream)
    OBVIOUS
<1> HIDE DEF R
<1>9. /\ removed' \in [Sides -> SUBSET Sessions] /\ removed'[x] = R
      /\ \A y \in Sides : y # x => removed'[y] = removed[y]
    BY <1>4, <1>6, <1>7, SetFacts
<1> QED BY <1>1, <1>2, <1>3, <1>5, <1>8, <1>9 DEF i, StreamsT, RemovedT

(* A frame is written, or kept in hand until the sockets have room.         *)
LEMMA WriteEffect ==
    ASSUME TypeOK, NEW x \in Sides, ConnWrite(x)
    PROVE  LET f == Head(mpsc[x])
           IN /\ conn[x].at = "select" /\ Taken(x) /\ f \in WireFrames
              /\ \/ Written(x, f) /\ UNCHANGED conn
                 \/ link /\ ConnSet(x, "write", f) /\ UNCHANGED wire
              /\ UNCHANGED <<stream_counter, streams, link, taskVars, history>>
<1> DEFINE f == Head(mpsc[x])
<1>1. /\ Takes(x, {"new", "data"})
      /\ \/ Writable(x) /\ PutOnWire(x, f) /\ UNCHANGED conn
         \/ ~Writable(x) /\ Enters(x, "write", f) /\ UNCHANGED wire
      /\ UNCHANGED <<stream_counter, streams, link, taskVars, history>>
    BY DEF ConnWrite
<1>2. Taken(x) /\ f \in Frames /\ f.kind \in {"new", "data"} /\ conn[x].at = "select"
    BY <1>1, TypeParts, TakesFacts DEF Taken
<1>3. f \in WireFrames /\ "write" \in ConnLabels
    BY <1>2, FrameFacts DEF ConnLabels
<1> HIDE DEF f
<1>4. ASSUME Writable(x), PutOnWire(x, f) PROVE Written(x, f)
    BY <1>3, <1>4, TypeParts, PutOnWireFacts
<1>5. ASSUME ~Writable(x), Enters(x, "write", f) PROVE link /\ ConnSet(x, "write", f)
    BY <1>2, <1>3, <1>5, TypeParts, EntersFacts DEF Writable
<1>6. \/ Written(x, f) /\ UNCHANGED conn
      \/ link /\ ConnSet(x, "write", f) /\ UNCHANGED wire
    BY <1>1, <1>4, <1>5
<1> QED BY <1>1, <1>2, <1>3, <1>6 DEF f

(* The frame in hand is written.                                            *)
LEMMA FlushEffect ==
    ASSUME TypeOK, NEW x \in Sides, Shape(x), ConnFlush(x)
    PROVE  /\ conn[x].at = "write" /\ conn[x].frame \in WireFrames /\ Written(x, conn[x].frame)
           /\ ConnSet(x, "select", NoFrame)
           /\ UNCHANGED <<stream_counter, streams, mpsc, link, taskVars, history>>
<1>1. /\ conn[x].at = "write" /\ Writable(x) /\ PutOnWire(x, conn[x].frame)
      /\ Enters(x, "select", NoFrame)
      /\ UNCHANGED <<stream_counter, streams, mpsc, link, taskVars, history>>
    BY DEF ConnFlush
<1>2. conn[x].frame \in WireFrames /\ "select" \in ConnLabels
    BY <1>1 DEF Shape, ConnLabels
<1>3. Written(x, conn[x].frame) /\ ConnSet(x, "select", NoFrame)
    BY <1>1, <1>2, TypeParts, PutOnWireFacts, EntersFacts
<1> QED BY <1>1, <1>2, <1>3

ConnEnds(x) == ConnEof(x) \/ ConnWritePanic(x) \/ ConnRoutePanic(x)

(* A connection task ends, for one of three reasons.                        *)
LEMMA EndEffect ==
    ASSUME TypeOK, NEW x \in Sides, ConnEnds(x)
    PROVE  /\ \/ ~link /\ conn[x].at \in {"select", "write"}
                       /\ (Ended(x, "closed", NoFrame) \/ Ended(x, "panic", NoFrame))
              \/ /\ conn[x].at = "deliver" /\ ~Listens(x, streams[x][conn[x].frame.id])
                 /\ Ended(x, "panic", conn[x].frame)
           /\ UNCHANGED <<stream_counter, wire, taskVars, history>>
<1>1. NoFrame \in Frames \cup {NoFrame} /\ conn[x].frame \in Frames \cup {NoFrame}
    BY TypeParts DEF ConnT, Conns
<1>2. CASE ConnEof(x)
    <2>1. Ends(x, "closed", NoFrame) /\ ~link /\ conn[x].at = "select"
        BY <1>2 DEF ConnEof, Selecting
    <2> QED BY <2>1, <1>1, TypeParts, EndsFacts DEF Ends
<1>3. CASE ConnWritePanic(x)
    <2>1. Ends(x, "panic", NoFrame) /\ ~link /\ conn[x].at \in {"select", "write"}
        BY <1>3 DEF ConnWritePanic, Selecting
    <2> QED BY <2>1, <1>1, TypeParts, EndsFacts DEF Ends
<1>4. CASE ConnRoutePanic(x)
    <2>1. /\ conn[x].at = "deliver" /\ ~Listens(x, streams[x][conn[x].frame.id])
          /\ Ends(x, "panic", conn[x].frame)
        BY <1>4 DEF ConnRoutePanic
    <2> QED BY <2>1, <1>1, TypeParts, EndsFacts DEF Ends
<1> QED BY <1>2, <1>3, <1>4 DEF ConnEnds

(* The initiator asks for its protocol.                                     *)
LEMMA RequestEffect ==
    ASSUME TypeOK, NEW x \in Sides, NEW s \in Sessions, Equipped(x, s), Request(x, s)
    PROVE  /\ task[x][s] = "request" /\ Up(x)
           /\ Queued(x, DataFrame(stream_id[x][s], ProtoOf[s])) /\ TaskSet(x, s, "await")
           /\ UNCHANGED <<connVars, stream_id, inbox, history>>
<1>1. /\ task[x][s] = "request" /\ Enqueue(x, DataFrame(stream_id[x][s], ProtoOf[s])) /\ Up(x)
      /\ Goes(x, s, "await") /\ UNCHANGED <<connVars, stream_id, inbox, history>>
    BY DEF Request
<1>2. stream_id[x][s] \in Ids /\ ProtoOf[s] \in Payloads /\ "await" \in TaskLabels
    BY <1>1, SideFacts, PayloadFacts DEF Equipped, Past, TaskLabels
<1>3. DataFrame(stream_id[x][s], ProtoOf[s]) \in Frames
    BY <1>2, MadeFacts, FrameFacts
<1> QED BY <1>1, <1>2, <1>3, TypeParts, EnqueueFacts, GoesFacts

(* The responder names the protocol back.                                   *)
LEMMA ReplyEffect ==
    ASSUME TypeOK, NEW x \in Sides, NEW s \in Sessions, Equipped(x, s), Reply(x, s)
    PROVE  /\ task[x][s] = "reply" /\ Up(x)
           /\ Queued(x, DataFrame(stream_id[x][s], agreed[x][s])) /\ TaskSet(x, s, "read")
           /\ UNCHANGED <<connVars, stream_id, inbox, history>>
<1>1. /\ task[x][s] = "reply" /\ Enqueue(x, DataFrame(stream_id[x][s], agreed[x][s])) /\ Up(x)
      /\ Goes(x, s, "read") /\ UNCHANGED <<connVars, stream_id, inbox, history>>
    BY DEF Reply
<1>2. agreed[x][s] \in Protocols
    BY <1>1, TypeParts DEF AgreedT, Equipped
<1>3. stream_id[x][s] \in Ids /\ agreed[x][s] \in Payloads /\ "read" \in TaskLabels
    BY <1>1, <1>2, PayloadFacts DEF Equipped, Past, TaskLabels
<1>4. DataFrame(stream_id[x][s], agreed[x][s]) \in Frames
    BY <1>3, MadeFacts, FrameFacts
<1> QED BY <1>1, <1>3, <1>4, TypeParts, EnqueueFacts, GoesFacts

(* The handler writes a message.                                            *)
LEMMA SayEffect ==
    ASSUME TypeOK, NEW x \in Sides, NEW s \in Sessions, Equipped(x, s), Write(x, s)
    PROVE  /\ task[x][s] = "write" /\ Up(x)
           /\ Queued(x, DataFrame(stream_id[x][s], Message(s, x, sent[x][s] + 1)))
           /\ TaskSet(x, s, "read")
           /\ SentT' /\ sent[x][s] \in Nat /\ sent'[x][s] = sent[x][s] + 1
           /\ \A y \in Sides, t \in Sessions : y # x \/ t # s => sent'[y][t] = sent[y][t]
           /\ UNCHANGED <<connVars, stream_id, inbox, got, agreed, removed>>
<1> DEFINE n == sent[x][s]
<1>1. /\ task[x][s] = "write" /\ Up(x) /\ Goes(x, s, "read")
      /\ Enqueue(x, DataFrame(stream_id[x][s], Message(s, x, n + 1)))
      /\ UNCHANGED <<connVars, stream_id, inbox, got, agreed, removed>>
    BY DEF Write
<1>2. /\ sent \in [Sides -> [Sessions -> Nat]] /\ n \in Nat /\ n + 1 \in Nat
      /\ sent' = [sent EXCEPT ![x][s] = n + 1]
    BY TypeParts DEF SentT, Write
<1>3. /\ MaxWrites \in [Sides -> [Sessions -> Nat]] /\ n < MaxWrites[x][s]
      /\ MaxWrites[x][s] \in Nat
    BY <1>1, MplexAssumption DEF Equipped
<1> HIDE DEF n
<1>4. stream_id[x][s] \in Ids /\ Message(s, x, n + 1) \in Payloads /\ "read" \in TaskLabels
    BY <1>1, <1>2, PayloadFacts DEF Equipped, Past, TaskLabels
<1>5. DataFrame(stream_id[x][s], Message(s, x, n + 1)) \in Frames
    BY <1>4, MadeFacts, FrameFacts
<1>6. /\ Queued(x, DataFrame(stream_id[x][s], Message(s, x, n + 1)))
      /\ TaskSet(x, s, "read")
    BY <1>1, <1>4, <1>5, TypeParts, EnqueueFacts, GoesFacts
<1>7. /\ sent' \in [Sides -> [Sessions -> Nat]] /\ sent'[x][s] = n + 1
      /\ \A y \in Sides, t \in Sessions : y # x \/ t # s => sent'[y][t] = sent[y][t]
    BY <1>2, PutFacts
<1>8. \A y \in Sides, t \in Sessions : sent[y][t] =< MaxWrites[y][t]
    BY TypeParts DEF SentT
<1>9. n + 1 =< MaxWrites[x][s]
    BY <1>2, <1>3
<1>10. \A y \in Sides, t \in Sessions : sent'[y][t] =< MaxWrites[y][t]
    BY <1>7, <1>8, <1>9
<1> QED BY <1>1, <1>2, <1>6, <1>7, <1>10 DEF n, SentT

(* The handler closes the stream and returns.                               *)
LEMMA ShutEffect ==
    ASSUME TypeOK, NEW x \in Sides, NEW s \in Sessions, Equipped(x, s), Close(x, s)
    PROVE  /\ task[x][s] = "close" /\ Up(x) /\ stream_id[x][s] \in Ids
           /\ Queued(x, CloseFrame(stream_id[x][s])) /\ TaskSet(x, s, "done")
           /\ UNCHANGED <<connVars, stream_id, inbox, history>>
<1>1. /\ task[x][s] = "close" /\ Enqueue(x, CloseFrame(stream_id[x][s])) /\ Up(x)
      /\ Goes(x, s, "done") /\ UNCHANGED <<connVars, stream_id, inbox, history>>
    BY DEF Close
<1>2. stream_id[x][s] \in Ids /\ "done" \in TaskLabels
    BY <1>1 DEF Equipped, Past, TaskLabels
<1>3. CloseFrame(stream_id[x][s]) \in Frames
    BY <1>2, MadeFacts, FrameFacts
<1> QED BY <1>1, <1>2, <1>3, TypeParts, EnqueueFacts, GoesFacts

(* The initiator reads the answer: the protocol it asked for, or no stream. *)
LEMMA AwaitEffect ==
    ASSUME TypeOK, NEW x \in Sides, NEW s \in Sessions, Await(x, s)
    PROVE  /\ task[x][s] = "await" /\ Received(x, s)
           /\ \/ /\ Head(inbox[x][s]) = ProtoOf[s] /\ TaskSet(x, s, "read")
                 /\ Settled(x, s, ProtoOf[s])
              \/ TaskSet(x, s, "panic") /\ UNCHANGED agreed
           /\ UNCHANGED <<connVars, mpsc, stream_id, sent, got, removed>>
<1>1. /\ task[x][s] = "await" /\ Receives(x, s)
      /\ \/ /\ Head(inbox[x][s]) = ProtoOf[s] /\ Goes(x, s, "read")
            /\ agreed' = [agreed EXCEPT ![x][s] = ProtoOf[s]]
         \/ Goes(x, s, "panic") /\ UNCHANGED agreed
      /\ UNCHANGED <<connVars, mpsc, stream_id, sent, got, removed>>
    BY DEF Await
<1>2. ProtoOf[s] \in Protocols /\ "read" \in TaskLabels /\ "panic" \in TaskLabels
    BY SideFacts DEF TaskLabels
<1>3. Received(x, s)
    BY <1>1, TypeParts, ReceivesFacts
<1>4. ASSUME Goes(x, s, "read") PROVE TaskSet(x, s, "read")
    BY <1>4, <1>2, TypeParts, GoesFacts
<1>5. ASSUME Goes(x, s, "panic") PROVE TaskSet(x, s, "panic")
    BY <1>5, <1>2, TypeParts, GoesFacts
<1>6. ASSUME agreed' = [agreed EXCEPT ![x][s] = ProtoOf[s]] PROVE Settled(x, s, ProtoOf[s])
    BY <1>6, <1>2, TypeParts, AgreesFacts
<1> QED BY <1>1, <1>3, <1>4, <1>5, <1>6

(* The responder reads what it is asked for.                                *)
LEMMA AnswerEffect ==
    ASSUME TypeOK, NEW x \in Sides, NEW s \in Sessions, Answer(x, s)
    PROVE  /\ task[x][s] = "answer" /\ Received(x, s)
           /\ \/ TaskSet(x, s, "reply") /\ Settled(x, s, Head(inbox[x][s]))
              \/ TaskSet(x, s, "panic") /\ UNCHANGED agreed
           /\ UNCHANGED <<connVars, mpsc, stream_id, sent, got, removed>>
<1> DEFINE p == Head(inbox[x][s])
<1>1. /\ task[x][s] = "answer" /\ Receives(x, s)
      /\ \/ /\ p \in Registry[x] /\ Goes(x, s, "reply")
            /\ agreed' = [agreed EXCEPT ![x][s] = p]
         \/ Goes(x, s, "panic") /\ UNCHANGED agreed
      /\ UNCHANGED <<connVars, mpsc, stream_id, sent, got, removed>>
    BY DEF Answer
<1>2. p \in Registry[x] => p \in Protocols
    BY SideFacts
<1>3. Received(x, s) /\ "reply" \in TaskLabels /\ "panic" \in TaskLabels
    BY <1>1, TypeParts, ReceivesFacts DEF TaskLabels
<1> HIDE DEF p
<1>4. ASSUME Goes(x, s, "reply") PROVE TaskSet(x, s, "reply")
    BY <1>4, <1>3, TypeParts, GoesFacts
<1>5. ASSUME Goes(x, s, "panic") PROVE TaskSet(x, s, "panic")
    BY <1>5, <1>3, TypeParts, GoesFacts
<1>6. ASSUME p \in Protocols, agreed' = [agreed EXCEPT ![x][s] = p] PROVE Settled(x, s, p)
    BY <1>6, TypeParts, AgreesFacts
<1>7. /\ \/ TaskSet(x, s, "reply") /\ Settled(x, s, p)
         \/ TaskSet(x, s, "panic") /\ UNCHANGED agreed
    BY <1>1, <1>2, <1>4, <1>5, <1>6
<1> QED BY <1>1, <1>3, <1>7 DEF p

(* The handler reads a payload.                                             *)
LEMMA ReadEffect ==
    ASSUME TypeOK, NEW x \in Sides, NEW s \in Sessions, Read(x, s)
    PROVE  /\ task[x][s] = "read" /\ Received(x, s)
           /\ GotT' /\ got[x][s] \in Seq(Payloads)
           /\ got'[x][s] = Append(got[x][s], Head(inbox[x][s]))
           /\ \A y \in Sides, t \in Sessions : y # x \/ t # s => got'[y][t] = got[y][t]
           /\ UNCHANGED <<connVars, mpsc, task, stream_id, sent, agreed, removed>>
<1>1. /\ task[x][s] = "read" /\ Receives(x, s)
      /\ UNCHANGED <<connVars, mpsc, task, stream_id, sent, agreed, removed>>
    BY DEF Read
<1>2. Received(x, s) /\ Head(inbox[x][s]) \in Payloads
    BY <1>1, TypeParts, ReceivesFacts DEF Received
<1>3. got \in [Sides -> [Sessions -> Seq(Payloads)]] /\ got[x][s] \in Seq(Payloads)
    BY TypeParts DEF GotT
<1> DEFINE q == Append(got[x][s], Head(inbox[x][s]))
<1>4. q \in Seq(Payloads) /\ got' = [got EXCEPT ![x][s] = q]
    BY <1>2, <1>3 DEF Read
<1> HIDE DEF q
<1>5. /\ got' \in [Sides -> [Sessions -> Seq(Payloads)]] /\ got'[x][s] = q
      /\ \A y \in Sides, t \in Sessions : y # x \/ t # s => got'[y][t] = got[y][t]
    BY <1>3, <1>4, PutFacts
<1> QED BY <1>1, <1>2, <1>3, <1>5 DEF q, GotT

Turns(x, s) == StartWrite(x, s) \/ StartClose(x, s) \/ Return(x, s) \/ TaskFails(x, s)

(* The task of a stream turns to something else, or ends.                   *)
LEMMA TurnEffect ==
    ASSUME TypeOK, NEW x \in Sides, NEW s \in Sessions, Turns(x, s)
    PROVE  /\ \/ task[x][s] = "read" /\ sent[x][s] < MaxWrites[x][s] /\ TaskSet(x, s, "write")
              \/ task[x][s] = "read" /\ TaskSet(x, s, "close")
              \/ task[x][s] = "read" /\ TaskSet(x, s, "done")
              \/ Listens(x, s) /\ TaskSet(x, s, "panic")
           /\ UNCHANGED <<connVars, mpsc, stream_id, inbox, history>>
<1>1. {"write", "close", "done", "panic"} \subseteq TaskLabels
    BY DEF TaskLabels
<1>2. CASE StartWrite(x, s)
    <2>1. Goes(x, s, "write")
        BY <1>2 DEF StartWrite
    <2>2. TaskSet(x, s, "write")
        BY <1>1, <2>1, TypeParts, GoesFacts
    <2> QED BY <1>2, <2>2 DEF StartWrite
<1>3. CASE StartClose(x, s)
    <2>1. Goes(x, s, "close")
        BY <1>3 DEF StartClose
    <2>2. TaskSet(x, s, "close")
        BY <1>1, <2>1, TypeParts, GoesFacts
    <2> QED BY <1>3, <2>2 DEF StartClose
<1>4. CASE Return(x, s)
    <2>1. Goes(x, s, "done")
        BY <1>4 DEF Return
    <2>2. TaskSet(x, s, "done")
        BY <1>1, <2>1, TypeParts, GoesFacts
    <2> QED BY <1>4, <2>2 DEF Return
<1>5. CASE TaskFails(x, s)
    <2>1. Goes(x, s, "panic") /\ Listens(x, s)
        BY <1>5 DEF TaskFails, Listens
    <2>2. TaskSet(x, s, "panic")
        BY <1>1, <2>1, TypeParts, GoesFacts
    <2> QED BY <1>5, <2>1, <2>2 DEF TaskFails
<1> QED BY <1>2, <1>3, <1>4, <1>5 DEF Turns
-----------------------------------------------------------------------------
(* The types, and what the tasks hold, survive every action. *)

(* An end that is left alone keeps its shape.                               *)
LEMMA ShapeKept ==
    ASSUME TypeOK, NEW y \in Sides, Shape(y), conn'[y] = conn[y],
           \A i \in Ids : streams'[y][i] = streams[y][i],
           mpsc'[y] = mpsc[y] \/ Up(y), link' => link
    PROVE  Shape(y)'
<1>1. \A f \in Datas : f.id \in Ids
    BY FrameFacts
<1> QED BY <1>1, TypeParts DEF Shape, Up

(* An end keeps its shape while no stream of it is registered or removed    *)
(* and its task goes back to selecting.                                     *)
LEMMA ShapeFree ==
    ASSUME TypeOK, NEW y \in Sides, conn'[y].at = "select"
    PROVE  Shape(y)' /\ Numbered(y)'
BY DEF Shape, Numbered, Up

(* A stream that is left alone stays equipped.                              *)
LEMMA EquippedKept ==
    ASSUME NEW y \in Sides, NEW t \in Sessions, Equipped(y, t),
           task'[y][t] = task[y][t], stream_id'[y][t] = stream_id[y][t],
           sent'[y][t] = sent[y][t], agreed'[y][t] = agreed[y][t]
    PROVE  Equipped(y, t)'
BY DEF Equipped, Past

(* Every stream keeps what it works with when none of that changes.         *)
LEMMA AllEquipped ==
    ASSUME \A y \in Sides, t \in Sessions : Equipped(y, t),
           UNCHANGED <<task, stream_id, sent, agreed>>
    PROVE  \A y \in Sides, t \in Sessions : Equipped(y, t)'
BY EquippedKept

(* Every end keeps its shape when the task of a stream acts at a running end. *)
LEMMA AllShaped ==
    ASSUME TypeInv, UNCHANGED <<connVars, stream_id>>, NEW x \in Sides, mpsc' = mpsc \/ Up(x),
           \A y \in Sides : y # x => mpsc'[y] = mpsc[y]
    PROVE  \A y \in Sides : Shape(y)' /\ Numbered(y)'
<1> SUFFICES ASSUME NEW y \in Sides PROVE Shape(y)' /\ Numbered(y)'
    OBVIOUS
<1>1. Shape(y)'
    BY ShapeKept DEF TypeInv, connVars
<1>2. Numbered(y)'
    BY DEF TypeInv, connVars, Numbered
<1> QED BY <1>1, <1>2

(* The steps of the connection tasks.                                       *)
LEMMA AskTyped ==
    ASSUME TypeInv, NEW s \in Sessions, Ask(s)
    PROVE  TypeInv'
<1> DEFINE x == Opener[s]
<1>1. x \in Sides
    BY SideFacts
<1> HIDE DEF x
<1>2. /\ task[x][s] = "none" /\ Up(x) /\ Queued(x, AskFrame(s)) /\ TaskSet(x, s, "asked")
      /\ UNCHANGED <<connVars, stream_id, inbox, history>>
    BY <1>1, AskEffect DEF TypeInv, x
<1>3. TypeOK'
    BY <1>2, TypeKept, TypeParts DEF TypeInv, Queued, TaskSet, connVars, history
<1>4. \A y \in Sides : Shape(y)' /\ Numbered(y)'
    BY <1>1, <1>2, AllShaped DEF Queued
<1>5. ASSUME NEW y \in Sides, NEW t \in Sessions PROVE Equipped(y, t)'
    <2>1. CASE y = x /\ t = s
        BY <1>2, <2>1 DEF TaskSet, Equipped, Past
    <2>2. CASE y # x \/ t # s
        BY <1>2, <2>2, EquippedKept DEF TypeInv, TaskSet, history
    <2> QED BY <2>1, <2>2
<1> QED BY <1>3, <1>4, <1>5 DEF TypeInv

(* As above.                                                                *)
LEMMA OpenTyped ==
    ASSUME TypeInv, NEW x \in Sides, ConnOpen(x)
    PROVE  TypeInv'
<1> DEFINE s == Head(mpsc[x]).stream
           i == NextId(x)
           f == NewFrame(i, s)
<1>1. /\ conn[x].at = "select" /\ Taken(x) /\ s \in Sessions
      /\ Given(x, s, i) /\ ConnSet(x, "announce", f)
      /\ UNCHANGED <<wire, link, task, inbox, history>>
    BY OpenEffect DEF TypeInv
<1>2. i \in Ids /\ f \in News /\ f.id = i /\ f.stream = s
    BY <1>1, MadeFacts DEF Given
<1> HIDE DEF s, i, f
<1>3. TypeOK'
    BY <1>1, TypeKept, TypeParts DEF TypeInv, Taken, Given, ConnSet, history
<1>4. ASSUME NEW y \in Sides PROVE Shape(y)' /\ Numbered(y)'
    <2>1. CASE y = x
        BY <1>1, <1>2, <2>1 DEF ConnSet, Given, Shape, Numbered, Up
    <2>2. CASE y # x
        <3>1. /\ conn'[y] = conn[y] /\ streams'[y] = streams[y] /\ mpsc'[y] = mpsc[y]
              /\ \A t \in Sessions : stream_id'[y][t] = stream_id[y][t]
            BY <1>1, <2>2 DEF ConnSet, Given, Taken
        <3>2. Shape(y)'
            BY <1>1, <3>1, ShapeKept DEF TypeInv
        <3>3. \A g \in News : g.stream \in Sessions
            BY FrameFacts
        <3>4. Numbered(y)'
            BY <3>1, <3>3 DEF TypeInv, Numbered, Shape
        <3> QED BY <3>2, <3>4
    <2> QED BY <2>1, <2>2
<1>5. ASSUME NEW y \in Sides, NEW t \in Sessions PROVE Equipped(y, t)'
    <2>1. CASE y = x /\ t = s
        BY <1>1, <1>2, <2>1 DEF TypeInv, Given, Equipped, Past, history
    <2>2. CASE y # x \/ t # s
        BY <1>1, <2>2, EquippedKept DEF TypeInv, Given, history
    <2> QED BY <2>1, <2>2
<1> QED BY <1>3, <1>4, <1>5 DEF TypeInv

(* As above.                                                                *)
LEMMA AnnounceTyped ==
    ASSUME TypeInv, NEW x \in Sides, ConnAnnounce(x)
    PROVE  TypeInv'
<1> DEFINE f == conn[x].frame
<1>1. /\ conn[x].at = "announce" /\ f \in News /\ f.stream \in Sessions
      /\ Queued(x, f) /\ TaskSet(x, f.stream, "request") /\ ConnSet(x, "select", NoFrame)
      /\ UNCHANGED <<stream_counter, streams, wire, link, stream_id, inbox, history>>
    BY AnnounceEffect DEF TypeInv
<1>2. f.id \in Ids /\ stream_id[x][f.stream] = f.id
    BY <1>1, FrameFacts DEF TypeInv, Numbered
<1> HIDE DEF f
<1>3. TypeOK'
    BY <1>1, TypeKept, TypeParts DEF TypeInv, Queued, TaskSet, ConnSet, history
<1>4. ASSUME NEW y \in Sides PROVE Shape(y)' /\ Numbered(y)'
    <2>1. CASE y = x
        BY <1>1, <2>1, ShapeFree DEF ConnSet, TypeInv
    <2>2. CASE y # x
        <3>1. conn'[y] = conn[y] /\ streams'[y] = streams[y] /\ mpsc'[y] = mpsc[y]
            BY <1>1, <2>2 DEF ConnSet, Queued
        <3>2. Shape(y)'
            BY <1>1, <3>1, ShapeKept DEF TypeInv
        <3> QED BY <1>1, <3>1, <3>2 DEF TypeInv, Numbered
    <2> QED BY <2>1, <2>2
<1>5. ASSUME NEW y \in Sides, NEW t \in Sessions PROVE Equipped(y, t)'
    <2>1. CASE y = x /\ t = f.stream
        BY <1>1, <1>2, <2>1 DEF TaskSet, Equipped, Past
    <2>2. CASE y # x \/ t # f.stream
        BY <1>1, <2>2, EquippedKept DEF TypeInv, TaskSet, history
    <2> QED BY <2>1, <2>2
<1> QED BY <1>3, <1>4, <1>5 DEF TypeInv

(* As above.                                                                *)
LEMMA AcceptTyped ==
    ASSUME TypeInv, NEW x \in Sides, ConnAccept(x)
    PROVE  TypeInv'
<1> DEFINE z == Other(x)
           f == Head(wire[z])
<1>0. z \in Sides
    BY SideFacts
<1>1. /\ conn[x].at = "select" /\ ReadOff(z) /\ f \in News
      /\ f.stream \in Sessions /\ f.id \in Ids
      /\ Given(x, f.stream, f.id) /\ TaskSet(x, f.stream, "answer")
      /\ UNCHANGED <<conn, mpsc, link, inbox, history>>
    BY <1>0, AcceptEffect DEF TypeInv
<1> HIDE DEF z, f
<1>3. TypeOK'
    BY <1>1, TypeKept, TypeParts DEF TypeInv, ReadOff, TaskSet, Given, history
<1>4. ASSUME NEW y \in Sides PROVE Shape(y)' /\ Numbered(y)'
    <2>1. CASE y = x
        BY <1>1, <2>1, ShapeFree DEF TypeInv
    <2>2. CASE y # x
        <3>1. /\ conn'[y] = conn[y] /\ streams'[y] = streams[y] /\ mpsc'[y] = mpsc[y]
              /\ \A t \in Sessions : stream_id'[y][t] = stream_id[y][t]
            BY <1>1, <2>2 DEF Given
        <3>2. Shape(y)'
            BY <1>1, <3>1, ShapeKept DEF TypeInv
        <3>3. \A g \in News : g.stream \in Sessions
            BY FrameFacts
        <3>4. Numbered(y)'
            BY <3>1, <3>3 DEF TypeInv, Numbered, Shape
        <3> QED BY <3>2, <3>4
    <2> QED BY <2>1, <2>2
<1>5. ASSUME NEW y \in Sides, NEW t \in Sessions PROVE Equipped(y, t)'
    <2>1. CASE y = x /\ t = f.stream
        BY <1>1, <2>1 DEF TaskSet, Given, Equipped, Past
    <2>2. CASE y # x \/ t # f.stream
        BY <1>1, <2>2, EquippedKept DEF TypeInv, TaskSet, Given, history
    <2> QED BY <2>1, <2>2
<1> QED BY <1>3, <1>4, <1>5 DEF TypeInv

(* As above.                                                                *)
LEMMA RouteTyped ==
    ASSUME TypeInv, NEW x \in Sides, ConnRoute(x)
    PROVE  TypeInv'
<1> DEFINE z == Other(x)
           f == Head(wire[z])
           s == streams[x][f.id]
<1>0. z \in Sides
    BY SideFacts
<1>1. /\ conn[x].at = "select" /\ ReadOff(z) /\ f \in Datas
      /\ f.id \in Ids /\ f.payload \in Payloads
      /\ \/ s = NoStream /\ UNCHANGED <<conn, inbox>>
         \/ /\ s \in Sessions /\ Listens(x, s) /\ Delivered(x, s, f.payload)
            /\ UNCHANGED conn
         \/ /\ s \in Sessions /\ ~Deliverable(x, s) /\ ConnSet(x, "deliver", f)
            /\ UNCHANGED inbox
      /\ UNCHANGED <<stream_counter, streams, mpsc, link, task, stream_id, history>>
    BY <1>0, RouteEffect DEF TypeInv
<1>2. s \in Sessions => s # NoStream
    BY SideFacts
<1>3. TypeOK'
    <2> HIDE DEF z, f, s
    <2> QED BY <1>1, TypeKept, TypeParts DEF TypeInv, ReadOff, Delivered, ConnSet, history
<1>4. ASSUME NEW y \in Sides PROVE Shape(y)' /\ Numbered(y)'
    <2>1. CASE conn'[y] = conn[y]
        <3>1. Shape(y)'
            BY <1>1, <2>1, ShapeKept DEF TypeInv
        <3> QED BY <1>1, <2>1, <3>1 DEF TypeInv, Numbered
    <2>2. CASE y = x /\ ConnSet(x, "deliver", f) /\ s \in Sessions
        <3>1. conn'[x].at = "deliver" /\ conn'[x].frame = f
            BY <2>2 DEF ConnSet
        <3>2. streams'[x][conn'[x].frame.id] = s
            BY <1>1, <3>1
        <3> HIDE DEF z, f, s
        <3> QED BY <1>1, <1>2, <2>2, <3>1, <3>2 DEF Shape, Numbered, Up
    <2>3. conn'[y] = conn[y] \/ (y = x /\ ConnSet(x, "deliver", f) /\ s \in Sessions)
        <3> HIDE DEF z, f, s
        <3> QED BY <1>1 DEF ConnSet
    <2> QED BY <2>1, <2>2, <2>3
<1>5. \A y \in Sides, t \in Sessions : Equipped(y, t)'
    BY <1>1, AllEquipped DEF TypeInv, history
<1> QED BY <1>3, <1>4, <1>5 DEF TypeInv

(* As above.                                                                *)
LEMMA HandOverTyped ==
    ASSUME TypeInv, NEW x \in Sides, ConnDeliver(x)
    PROVE  TypeInv'
<1> DEFINE f == conn[x].frame
           s == streams[x][f.id]
<1>1. /\ conn[x].at = "deliver" /\ f \in Datas /\ f.id \in Ids /\ s \in Sessions
      /\ Listens(x, s) /\ Delivered(x, s, f.payload) /\ ConnSet(x, "select", NoFrame)
      /\ UNCHANGED <<stream_counter, streams, mpsc, wire, link, task, stream_id, history>>
    BY HandOverEffect DEF TypeInv
<1> HIDE DEF f, s
<1>3. TypeOK'
    BY <1>1, TypeKept, TypeParts DEF TypeInv, Delivered, ConnSet, history
<1>4. ASSUME NEW y \in Sides PROVE Shape(y)' /\ Numbered(y)'
    <2>1. CASE y = x
        BY <1>1, <2>1, ShapeFree DEF ConnSet, TypeInv
    <2>2. CASE y # x
        <3>1. conn'[y] = conn[y] /\ streams'[y] = streams[y] /\ mpsc'[y] = mpsc[y]
            BY <1>1, <2>2 DEF ConnSet
        <3>2. Shape(y)'
            BY <1>1, <3>1, ShapeKept DEF TypeInv
        <3> QED BY <1>1, <3>1, <3>2 DEF TypeInv, Numbered
    <2> QED BY <2>1, <2>2
<1>5. \A y \in Sides, t \in Sessions : Equipped(y, t)'
    BY <1>1, AllEquipped DEF TypeInv, history
<1> QED BY <1>3, <1>4, <1>5 DEF TypeInv

(* As above.                                                                *)
LEMMA CloseTyped ==
    ASSUME TypeInv, NEW x \in Sides, ConnClose(x)
    PROVE  TypeInv'
<1> DEFINE i == Head(mpsc[x]).id
<1>1. /\ conn[x].at = "select" /\ Taken(x) /\ i \in Ids /\ StreamsT' /\ RemovedT'
      /\ \A y \in Sides : y # x => streams'[y] = streams[y]
      /\ UNCHANGED <<conn, stream_counter, wire, link, taskVars, sent, got, agreed>>
    BY CloseEffect DEF TypeInv
<1> HIDE DEF i
<1>3. TypeOK'
    BY <1>1, TypeKept, TypeParts DEF TypeInv, Taken, taskVars
<1>4. ASSUME NEW y \in Sides PROVE Shape(y)' /\ Numbered(y)'
    <2>1. CASE y = x
        BY <1>1, <2>1, ShapeFree DEF TypeInv
    <2>2. CASE y # x
        <3>1. conn'[y] = conn[y] /\ streams'[y] = streams[y] /\ mpsc'[y] = mpsc[y]
            BY <1>1, <2>2 DEF Taken
        <3>2. Shape(y)'
            BY <1>1, <3>1, ShapeKept DEF TypeInv
        <3> QED BY <1>1, <3>1, <3>2 DEF TypeInv, Numbered, taskVars
    <2> QED BY <2>1, <2>2
<1>5. \A y \in Sides, t \in Sessions : Equipped(y, t)'
    BY <1>1, AllEquipped DEF TypeInv, taskVars
<1> QED BY <1>3, <1>4, <1>5 DEF TypeInv

(* As above.                                                                *)
LEMMA WriteTyped ==
    ASSUME TypeInv, NEW x \in Sides, ConnWrite(x)
    PROVE  TypeInv'
<1> DEFINE f == Head(mpsc[x])
<1>1. /\ conn[x].at = "select" /\ Taken(x) /\ f \in WireFrames
      /\ \/ Written(x, f) /\ UNCHANGED conn
         \/ link /\ ConnSet(x, "write", f) /\ UNCHANGED wire
      /\ UNCHANGED <<stream_counter, streams, link, taskVars, history>>
    BY WriteEffect DEF TypeInv
<1> HIDE DEF f
<1>3. TypeOK'
    BY <1>1, TypeKept, TypeParts DEF TypeInv, Taken, Written, ConnSet, taskVars, history
<1>4. ASSUME NEW y \in Sides PROVE Shape(y)' /\ Numbered(y)'
    <2>1. CASE y = x /\ UNCHANGED conn
        BY <1>1, <2>1, ShapeFree DEF TypeInv
    <2>2. CASE y = x /\ ConnSet(x, "write", f)
        BY <1>1, <2>2 DEF ConnSet, Shape, Numbered, Up
    <2>3. CASE y # x
        <3>1. conn'[y] = conn[y] /\ streams'[y] = streams[y] /\ mpsc'[y] = mpsc[y]
            BY <1>1, <2>3 DEF Taken, ConnSet
        <3>2. Shape(y)'
            BY <1>1, <3>1, ShapeKept DEF TypeInv
        <3> QED BY <1>1, <3>1, <3>2 DEF TypeInv, Numbered, taskVars
    <2> QED BY <1>1, <2>1, <2>2, <2>3
<1>5. \A y \in Sides, t \in Sessions : Equipped(y, t)'
    BY <1>1, AllEquipped DEF TypeInv, taskVars, history
<1> QED BY <1>3, <1>4, <1>5 DEF TypeInv

(* As above.                                                                *)
LEMMA FlushTyped ==
    ASSUME TypeInv, NEW x \in Sides, ConnFlush(x)
    PROVE  TypeInv'
<1>1. /\ Written(x, conn[x].frame) /\ ConnSet(x, "select", NoFrame)
      /\ UNCHANGED <<stream_counter, streams, mpsc, link, taskVars, history>>
    BY FlushEffect DEF TypeInv
<1>3. TypeOK'
    BY <1>1, TypeKept, TypeParts DEF TypeInv, Written, ConnSet, taskVars, history
<1>4. ASSUME NEW y \in Sides PROVE Shape(y)' /\ Numbered(y)'
    <2>1. CASE y = x
        BY <1>1, <2>1, ShapeFree DEF ConnSet, TypeInv
    <2>2. CASE y # x
        <3>1. conn'[y] = conn[y] /\ streams'[y] = streams[y] /\ mpsc'[y] = mpsc[y]
            BY <1>1, <2>2 DEF ConnSet
        <3>2. Shape(y)'
            BY <1>1, <3>1, ShapeKept DEF TypeInv
        <3> QED BY <1>1, <3>1, <3>2 DEF TypeInv, Numbered, taskVars
    <2> QED BY <2>1, <2>2
<1>5. \A y \in Sides, t \in Sessions : Equipped(y, t)'
    BY <1>1, AllEquipped DEF TypeInv, taskVars, history
<1> QED BY <1>3, <1>4, <1>5 DEF TypeInv

(* As above.                                                                *)
LEMMA EndTyped ==
    ASSUME TypeInv, NEW x \in Sides, ConnEnds(x)
    PROVE  TypeInv'
<1>1. /\ \/ Ended(x, "closed", NoFrame) \/ Ended(x, "panic", NoFrame)
         \/ Ended(x, "panic", conn[x].frame)
      /\ UNCHANGED <<stream_counter, wire, taskVars, history>>
    BY EndEffect DEF TypeInv
<1>2. /\ ConnT' /\ StreamsT' /\ MpscT' /\ link' = FALSE
      /\ conn'[x].at \in {"closed", "panic"} /\ mpsc'[x] = <<>>
      /\ \A i \in Ids : streams'[x][i] = NoStream
      /\ \A y \in Sides : y # x => /\ conn'[y] = conn[y] /\ streams'[y] = streams[y]
                                   /\ mpsc'[y] = mpsc[y]
    BY <1>1 DEF Ended, ConnSet
<1>3. TypeOK'
    BY <1>1, <1>2, TypeKept, TypeParts DEF TypeInv, taskVars, history
<1>4. ASSUME NEW y \in Sides PROVE Shape(y)' /\ Numbered(y)'
    <2>1. CASE y = x
        BY <1>2, <2>1 DEF Shape, Numbered, Up
    <2>2. CASE y # x
        <3>1. Shape(y)'
            BY <1>2, <2>2, ShapeKept DEF TypeInv
        <3> QED BY <1>1, <1>2, <2>2, <3>1 DEF TypeInv, Numbered, taskVars
    <2> QED BY <2>1, <2>2
<1>5. \A y \in Sides, t \in Sessions : Equipped(y, t)'
    BY <1>1, AllEquipped DEF TypeInv, taskVars, history
<1> QED BY <1>3, <1>4, <1>5 DEF TypeInv

(* The raw connection fails.                                                *)
LEMMA LostTyped ==
    ASSUME TypeInv, LinkLost
    PROVE  TypeInv'
<1>1. /\ link' = FALSE
      /\ UNCHANGED <<conn, stream_counter, streams, mpsc, wire, taskVars, history>>
    BY DEF LinkLost
<1>3. TypeOK'
    BY <1>1, TypeKept DEF TypeInv, taskVars, history
<1>4. ASSUME NEW y \in Sides PROVE Shape(y)' /\ Numbered(y)'
    <2>1. Shape(y)'
        BY <1>1, ShapeKept DEF TypeInv
    <2> QED BY <1>1, <2>1 DEF TypeInv, Numbered, taskVars
<1>5. \A y \in Sides, t \in Sessions : Equipped(y, t)'
    BY <1>1, AllEquipped DEF TypeInv, taskVars, history
<1> QED BY <1>3, <1>4, <1>5 DEF TypeInv

(* The steps of the task of a stream.                                       *)
LEMMA RequestTyped ==
    ASSUME TypeInv, NEW x \in Sides, NEW s \in Sessions, Request(x, s)
    PROVE  TypeInv'
<1>1. /\ task[x][s] = "request" /\ Up(x)
      /\ Queued(x, DataFrame(stream_id[x][s], ProtoOf[s])) /\ TaskSet(x, s, "await")
      /\ UNCHANGED <<connVars, stream_id, inbox, history>>
    BY RequestEffect DEF TypeInv
<1>2. TypeOK'
    BY <1>1, TypeKept, TypeParts DEF TypeInv, Queued, TaskSet, connVars, history
<1>3. \A y \in Sides : Shape(y)' /\ Numbered(y)'
    BY <1>1, AllShaped DEF Queued
<1>4. ASSUME NEW y \in Sides, NEW t \in Sessions PROVE Equipped(y, t)'
    <2>1. CASE y = x /\ t = s
        BY <1>1, <2>1 DEF TypeInv, TaskSet, Equipped, Past
    <2>2. CASE y # x \/ t # s
        BY <1>1, <2>2, EquippedKept DEF TypeInv, TaskSet, history
    <2> QED BY <2>1, <2>2
<1> QED BY <1>2, <1>3, <1>4 DEF TypeInv

(* As above.                                                                *)
LEMMA ReplyTyped ==
    ASSUME TypeInv, NEW x \in Sides, NEW s \in Sessions, Reply(x, s)
    PROVE  TypeInv'
<1>1. /\ task[x][s] = "reply" /\ Up(x)
      /\ Queued(x, DataFrame(stream_id[x][s], agreed[x][s])) /\ TaskSet(x, s, "read")
      /\ UNCHANGED <<connVars, stream_id, inbox, history>>
    BY ReplyEffect DEF TypeInv
<1>2. TypeOK'
    BY <1>1, TypeKept, TypeParts DEF TypeInv, Queued, TaskSet, connVars, history
<1>3. \A y \in Sides : Shape(y)' /\ Numbered(y)'
    BY <1>1, AllShaped DEF Queued
<1>4. ASSUME NEW y \in Sides, NEW t \in Sessions PROVE Equipped(y, t)'
    <2>1. CASE y = x /\ t = s
        BY <1>1, <2>1 DEF TypeInv, TaskSet, Equipped, Past
    <2>2. CASE y # x \/ t # s
        BY <1>1, <2>2, EquippedKept DEF TypeInv, TaskSet, history
    <2> QED BY <2>1, <2>2
<1> QED BY <1>2, <1>3, <1>4 DEF TypeInv

(* As above.                                                                *)
LEMMA SayTyped ==
    ASSUME TypeInv, NEW x \in Sides, NEW s \in Sessions, Write(x, s)
    PROVE  TypeInv'
<1>1. /\ task[x][s] = "write" /\ Up(x)
      /\ Queued(x, DataFrame(stream_id[x][s], Message(s, x, sent[x][s] + 1)))
      /\ TaskSet(x, s, "read") /\ SentT'
      /\ \A y \in Sides, t \in Sessions : y # x \/ t # s => sent'[y][t] = sent[y][t]
      /\ UNCHANGED <<connVars, stream_id, inbox, got, agreed, removed>>
    BY SayEffect DEF TypeInv
<1>2. TypeOK'
    BY <1>1, TypeKept, TypeParts DEF TypeInv, Queued, TaskSet, connVars
<1>3. \A y \in Sides : Shape(y)' /\ Numbered(y)'
    BY <1>1, AllShaped DEF Queued
<1>4. ASSUME NEW y \in Sides, NEW t \in Sessions PROVE Equipped(y, t)'
    <2>1. CASE y = x /\ t = s
        BY <1>1, <2>1 DEF TypeInv, TaskSet, Equipped, Past
    <2>2. CASE y # x \/ t # s
        BY <1>1, <2>2, EquippedKept DEF TypeInv, TaskSet
    <2> QED BY <2>1, <2>2
<1> QED BY <1>2, <1>3, <1>4 DEF TypeInv

(* As above.                                                                *)
LEMMA ShutTyped ==
    ASSUME TypeInv, NEW x \in Sides, NEW s \in Sessions, Close(x, s)
    PROVE  TypeInv'
<1>1. /\ task[x][s] = "close" /\ Up(x)
      /\ Queued(x, CloseFrame(stream_id[x][s])) /\ TaskSet(x, s, "done")
      /\ UNCHANGED <<connVars, stream_id, inbox, history>>
    BY ShutEffect DEF TypeInv
<1>2. TypeOK'
    BY <1>1, TypeKept, TypeParts DEF TypeInv, Queued, TaskSet, connVars, history
<1>3. \A y \in Sides : Shape(y)' /\ Numbered(y)'
    BY <1>1, AllShaped DEF Queued
<1>4. ASSUME NEW y \in Sides, NEW t \in Sessions PROVE Equipped(y, t)'
    <2>1. CASE y = x /\ t = s
        BY <1>1, <2>1 DEF TypeInv, TaskSet, Equipped, Past
    <2>2. CASE y # x \/ t # s
        BY <1>1, <2>2, EquippedKept DEF TypeInv, TaskSet, history
    <2> QED BY <2>1, <2>2
<1> QED BY <1>2, <1>3, <1>4 DEF TypeInv

(* As above.                                                                *)
LEMMA AwaitTyped ==
    ASSUME TypeInv, NEW x \in Sides, NEW s \in Sessions, Await(x, s)
    PROVE  TypeInv'
<1>1. /\ task[x][s] = "await" /\ Received(x, s)
      /\ \/ TaskSet(x, s, "read") /\ Settled(x, s, ProtoOf[s])
         \/ TaskSet(x, s, "panic") /\ UNCHANGED agreed
      /\ UNCHANGED <<connVars, mpsc, stream_id, sent, got, removed>>
    BY AwaitEffect DEF TypeInv
<1>2. TypeOK'
    BY <1>1, TypeKept, TypeParts DEF TypeInv, Received, TaskSet, Settled, connVars
<1>3. \A y \in Sides : Shape(y)' /\ Numbered(y)'
    BY <1>1, AllShaped
<1>4. ASSUME NEW y \in Sides, NEW t \in Sessions PROVE Equipped(y, t)'
    <2>1. CASE y = x /\ t = s
        BY <1>1, <2>1 DEF TypeInv, TaskSet, Equipped, Past
    <2>2. CASE y # x \/ t # s
        BY <1>1, <2>2, EquippedKept DEF TypeInv, TaskSet, Settled
    <2> QED BY <2>1, <2>2
<1> QED BY <1>2, <1>3, <1>4 DEF TypeInv

(* As above.                                                                *)
LEMMA AnswerTyped ==
    ASSUME TypeInv, NEW x \in Sides, NEW s \in Sessions, Answer(x, s)
    PROVE  TypeInv'
<1> DEFINE p == Head(inbox[x][s])
<1>1. /\ task[x][s] = "answer" /\ Received(x, s)
      /\ \/ TaskSet(x, s, "reply") /\ Settled(x, s, p)
         \/ TaskSet(x, s, "panic") /\ UNCHANGED agreed
      /\ UNCHANGED <<connVars, mpsc, stream_id, sent, got, removed>>
    BY AnswerEffect DEF TypeInv
<1> HIDE DEF p
<1>2. TypeOK'
    BY <1>1, TypeKept, TypeParts DEF TypeInv, Received, TaskSet, Settled, connVars
<1>3. \A y \in Sides : Shape(y)' /\ Numbered(y)'
    BY <1>1, AllShaped
<1>4. ASSUME NEW y \in Sides, NEW t \in Sessions PROVE Equipped(y, t)'
    <2>1. CASE y = x /\ t = s
        <3>1. stream_id'[x][s] \in Ids
            BY <1>1 DEF TypeInv, Equipped, Past
        <3>2. task'[x][s] = "reply" => agreed'[x][s] # NoProtocol
            BY <1>1, SideFacts DEF TaskSet, Settled
        <3>3. task'[x][s] # "write"
            BY <1>1 DEF TaskSet
        <3> QED BY <2>1, <3>1, <3>2, <3>3 DEF Equipped
    <2>2. CASE y # x \/ t # s
        BY <1>1, <2>2, EquippedKept DEF TypeInv, TaskSet, Settled
    <2> QED BY <2>1, <2>2
<1> QED BY <1>2, <1>3, <1>4 DEF TypeInv

(* As above.                                                                *)
LEMMA ReadTyped ==
    ASSUME TypeInv, NEW x \in Sides, NEW s \in Sessions, Read(x, s)
    PROVE  TypeInv'
<1>1. /\ Received(x, s) /\ GotT'
      /\ UNCHANGED <<connVars, mpsc, task, stream_id, sent, agreed, removed>>
    BY ReadEffect DEF TypeInv
<1>2. TypeOK'
    BY <1>1, TypeKept, TypeParts DEF TypeInv, Received, connVars
<1>3. \A y \in Sides : Shape(y)' /\ Numbered(y)'
    BY <1>1, AllShaped
<1>4. \A y \in Sides, t \in Sessions : Equipped(y, t)'
    BY <1>1, AllEquipped DEF TypeInv
<1> QED BY <1>2, <1>3, <1>4 DEF TypeInv

(* As above.                                                                *)
LEMMA TurnTyped ==
    ASSUME TypeInv, NEW x \in Sides, NEW s \in Sessions, Turns(x, s)
    PROVE  TypeInv'
<1>1. /\ \/ task[x][s] = "read" /\ sent[x][s] < MaxWrites[x][s] /\ TaskSet(x, s, "write")
         \/ task[x][s] = "read" /\ TaskSet(x, s, "close")
         \/ task[x][s] = "read" /\ TaskSet(x, s, "done")
         \/ Listens(x, s) /\ TaskSet(x, s, "panic")
      /\ UNCHANGED <<connVars, mpsc, stream_id, inbox, history>>
    BY TurnEffect DEF TypeInv
<1>2. TypeOK'
    BY <1>1, TypeKept, TypeParts DEF TypeInv, TaskSet, connVars, history
<1>3. \A y \in Sides : Shape(y)' /\ Numbered(y)'
    BY <1>1, AllShaped
<1>4. ASSUME NEW y \in Sides, NEW t \in Sessions PROVE Equipped(y, t)'
    <2>1. CASE y = x /\ t = s
        <3>1. Past(x, s) /\ Equipped(x, s)
            BY <1>1 DEF TypeInv, Past, Listens
        <3> QED BY <1>1, <2>1, <3>1 DEF TaskSet, Equipped, history
    <2>2. CASE y # x \/ t # s
        BY <1>1, <2>2, EquippedKept DEF TypeInv, TaskSet, history
    <2> QED BY <2>1, <2>2
<1> QED BY <1>2, <1>3, <1>4 DEF TypeInv

(* Nothing happens.                                                         *)
LEMMA StutterTyped ==
    ASSUME TypeInv, UNCHANGED vars
    PROVE  TypeInv'
<1>1. UNCHANGED <<connVars, mpsc, task, stream_id, inbox, history>>
    BY DEF vars, connVars, history
<1>2. TypeOK'
    BY <1>1, TypeKept DEF TypeInv, connVars, history, TypeOK
<1>3. \A y \in Sides : Shape(y)' /\ Numbered(y)'
    BY <1>1, AllShaped, SideFacts
<1>4. \A y \in Sides, t \in Sessions : Equipped(y, t)'
    BY <1>1, AllEquipped DEF TypeInv, history
<1> QED BY <1>2, <1>3, <1>4 DEF TypeInv

(* In the initial states nothing is asked for.                              *)
LEMMA InitTyped ==
    ASSUME Init
    PROVE  TypeInv
<1>1. /\ MaxStreams \in Nat /\ QueueCap \in Nat /\ WireCap \in Nat /\ InboxCap \in Nat
      /\ MaxWrites \in [Sides -> [Sessions -> Nat]] /\ 0 \in 0..MaxStreams
    BY MplexAssumption
<1>2. ConnT /\ CounterT /\ StreamsT /\ link \in BOOLEAN
    BY <1>1 DEF Init, ConnT, CounterT, StreamsT, Conns, ConnLabels
<1>3. MpscT /\ WireT
    BY <1>1 DEF Init, MpscT, WireT
<1>4. TaskT /\ IdT /\ AgreedT /\ RemovedT
    BY <1>1 DEF Init, TaskT, IdT, AgreedT, RemovedT, PerStream, TaskLabels
<1>5. InboxT /\ GotT
    BY <1>1 DEF Init, InboxT, GotT, PerStream
<1>6. SentT
    BY <1>1 DEF Init, SentT, PerStream
<1>7. \A x \in Sides : Shape(x) /\ Numbered(x)
    BY DEF Init, Shape, Numbered, Up
<1>8. \A x \in Sides, s \in Sessions : Equipped(x, s)
    BY DEF Init, Equipped, Past, PerStream
<1> QED BY <1>2, <1>3, <1>4, <1>5, <1>6, <1>7, <1>8, TypeParts DEF TypeInv

(* Every step is one of these.                                              *)
LEMMA Steps ==
    ASSUME Next
    PROVE  \/ \E s \in Sessions : Ask(s)
           \/ \E x \in Sides :
                \/ ConnOpen(x) \/ ConnAnnounce(x) \/ ConnAccept(x) \/ ConnRoute(x)
                \/ ConnDeliver(x) \/ ConnClose(x) \/ ConnWrite(x) \/ ConnFlush(x) \/ ConnEnds(x)
           \/ \E x \in Sides, s \in Sessions :
                \/ Request(x, s) \/ Reply(x, s) \/ Write(x, s) \/ Close(x, s)
                \/ Await(x, s) \/ Answer(x, s) \/ Read(x, s) \/ Turns(x, s)
           \/ LinkLost
BY Zenon DEF Next, ConnStep, TaskStep, HandlerChoice, ConnEnds, Turns

(* Every step keeps the types.                                              *)
LEMMA NextTyped ==
    ASSUME TypeInv, [Next]_vars
    PROVE  TypeInv'
<1>1. CASE UNCHANGED vars
    BY <1>1, StutterTyped
<1>2. ASSUME NEW s \in Sessions, Ask(s) PROVE TypeInv'
    BY <1>2, AskTyped
<1>3. ASSUME NEW x \in Sides,
             \/ ConnOpen(x) \/ ConnAnnounce(x) \/ ConnAccept(x) \/ ConnRoute(x)
             \/ ConnDeliver(x) \/ ConnClose(x) \/ ConnWrite(x) \/ ConnFlush(x) \/ ConnEnds(x)
      PROVE  TypeInv'
    BY <1>3, OpenTyped, AnnounceTyped, AcceptTyped, RouteTyped, HandOverTyped, CloseTyped,
       WriteTyped, FlushTyped, EndTyped
<1>4. ASSUME NEW x \in Sides, NEW s \in Sessions,
             \/ Request(x, s) \/ Reply(x, s) \/ Write(x, s) \/ Close(x, s)
             \/ Await(x, s) \/ Answer(x, s) \/ Read(x, s) \/ Turns(x, s)
      PROVE  TypeInv'
    BY <1>4, RequestTyped, ReplyTyped, SayTyped, ShutTyped, AwaitTyped, AnswerTyped,
       ReadTyped, TurnTyped
<1>5. CASE LinkLost
    BY <1>5, LostTyped
<1> QED BY <1>1, <1>2, <1>3, <1>4, <1>5, Steps

(* Every variable keeps its type: an id that is given out or announced can  *)
(* be looked up, a frame in hand is of the kind its arm handles, and no     *)
(* channel holds more than its capacity (conn_handler, handle_incoming).    *)
THEOREM TypeCorrect == Spec => []TypeOK
<1>1. Init => TypeInv
    BY InitTyped
<1>2. TypeInv /\ [Next]_vars => TypeInv'
    BY NextTyped
<1>3. TypeInv => TypeOK
    BY DEF TypeInv
<1> QED BY <1>1, <1>2, <1>3, PTL DEF Spec
-----------------------------------------------------------------------------
(* How a queue changes: what it holds, in what order. *)

Alike(M, L) == /\ \A g : Holds(M, g) <=> Holds(L, g)
               /\ \A g, h : Before(M, g, h) <=> Before(L, g, h)
Fewer(M, L) == /\ \A g : Holds(M, g) => Holds(L, g)
               /\ \A g, h : Before(M, g, h) => Before(L, g, h)
\* one element less
Loses(M, L, f) == /\ Fewer(M, L) /\ Holds(L, f)
                  /\ \A g : Holds(L, g) => g = f \/ Holds(M, g)
                  /\ \A g : Holds(M, g) => Before(L, f, g) \/ Before(L, g, f)
\* the first element less
Beheaded(M, L, f) ==
    /\ Loses(M, L, f) /\ \A g : Holds(M, g) => Before(L, f, g)
    /\ \A g, h : Before(L, g, h) => (g = f /\ Holds(M, h)) \/ Before(M, g, h)
\* one element more, at the end
Grows(M, L, f) ==
    /\ \A g : Holds(M, g) <=> Holds(L, g) \/ g = f
    /\ \A g, h : Before(M, g, h) <=> Before(L, g, h) \/ (Holds(L, g) /\ h = f)
\* the rest is cut off
Front(M, L) == /\ Fewer(M, L)
               /\ \A g, h : Holds(M, h) /\ Holds(L, g) => Holds(M, g) \/ Before(L, h, g)

(* An append, a tail, and the first of two queues.                          *)
LEMMA ShapesOfChange ==
    ASSUME NEW S, NEW L \in Seq(S)
    PROVE  /\ \A f \in S : Grows(Append(L, f), L, f)
           /\ L # <<>> => Beheaded(Tail(L), L, Head(L))
           /\ \A M \in Seq(S) : Front(L, L \o M)
           /\ Alike(L, L)
<1>1. \A f \in S : Grows(Append(L, f), L, f)
    BY AppendFacts DEF Grows
<1>2. ASSUME L # <<>> PROVE Beheaded(Tail(L), L, Head(L))
    <2> DEFINE M == Tail(L)
               f == Head(L)
    <2>1. /\ M \in Seq(S)
          /\ \A g : Holds(L, g) <=> g = f \/ Holds(M, g)
          /\ \A g, h : Before(L, g, h) <=> (g = f /\ Holds(M, h)) \/ Before(M, g, h)
        BY <1>2, TailFacts
    <2> HIDE DEF M, f
    <2>2. Fewer(M, L)
        BY <2>1 DEF Fewer
    <2>3. Holds(L, f) /\ \A g : Holds(L, g) => g = f \/ Holds(M, g)
        BY <2>1
    <2>4. \A g : Holds(M, g) => Before(L, f, g)
        BY <2>1
    <2>5. Beheaded(M, L, f)
        BY <2>1, <2>2, <2>3, <2>4 DEF Beheaded, Loses
    <2> QED BY <2>5 DEF M, f
<1>3. ASSUME NEW M \in Seq(S) PROVE Front(L, L \o M)
    <2> DEFINE N == L \o M
    <2>1. /\ \A g : Holds(N, g) <=> Holds(L, g) \/ Holds(M, g)
          /\ \A g, h : Before(N, g, h) <=> \/ Before(L, g, h) \/ Before(M, g, h)
                                           \/ Holds(L, g) /\ Holds(M, h)
        BY ConcatFacts
    <2> HIDE DEF N
    <2>2. Fewer(L, N)
        BY <2>1 DEF Fewer
    <2>3. ASSUME NEW g, NEW h, Holds(L, h), Holds(N, g) PROVE Holds(L, g) \/ Before(N, h, g)
        BY <2>1, <2>3
    <2>4. Front(L, N)
        BY <2>2, <2>3 DEF Front
    <2> QED BY <2>4 DEF N
<1> QED BY <1>1, <1>2, <1>3 DEF Alike

(* What holds of a queue of three parts.                                    *)
LEMMA ThreeParts ==
    ASSUME NEW S, NEW u \in Seq(S), NEW v \in Seq(S), NEW w \in Seq(S)
    PROVE  /\ \A g : Holds(u \o v \o w, g) <=> Holds(u, g) \/ Holds(v, g) \/ Holds(w, g)
           /\ \A g, h : Before(u \o v \o w, g, h) <=>
                  \/ Before(u, g, h) \/ Before(v, g, h) \/ Before(w, g, h)
                  \/ Holds(u, g) /\ (Holds(v, h) \/ Holds(w, h))
                  \/ Holds(v, g) /\ Holds(w, h)
           /\ u \o v \o w \in Seq(S)
<1> DEFINE L == u \o v
           M == L \o w
<1>1. /\ L \in Seq(S) /\ \A g : Holds(L, g) <=> Holds(u, g) \/ Holds(v, g)
      /\ \A g, h : Before(L, g, h) <=> \/ Before(u, g, h) \/ Before(v, g, h)
                                       \/ Holds(u, g) /\ Holds(v, h)
    BY ConcatFacts
<1> HIDE DEF L
<1>2. /\ M \in Seq(S) /\ \A g : Holds(M, g) <=> Holds(L, g) \/ Holds(w, g)
      /\ \A g, h : Before(M, g, h) <=> \/ Before(L, g, h) \/ Before(w, g, h)
                                       \/ Holds(L, g) /\ Holds(w, h)
    BY <1>1, ConcatFacts
<1>3. M = u \o v \o w
    BY DEF L
<1> HIDE DEF M
<1> QED BY <1>1, <1>2, <1>3

(* The last of three parts grows, or loses its first element.               *)
LEMMA LastPart ==
    ASSUME NEW S, NEW u \in Seq(S), NEW v \in Seq(S), NEW w \in Seq(S), NEW n \in Seq(S)
    PROVE  /\ \A f : Grows(n, w, f) => Grows(u \o v \o n, u \o v \o w, f)
           /\ \A f : Beheaded(n, w, f) => Loses(u \o v \o n, u \o v \o w, f)
<1> DEFINE M == u \o v \o n
           L == u \o v \o w
<1>1. /\ \A g : Holds(M, g) <=> Holds(u, g) \/ Holds(v, g) \/ Holds(n, g)
      /\ \A g, h : Before(M, g, h) <=>
             \/ Before(u, g, h) \/ Before(v, g, h) \/ Before(n, g, h)
             \/ Holds(u, g) /\ (Holds(v, h) \/ Holds(n, h))
             \/ Holds(v, g) /\ Holds(n, h)
    BY ThreeParts
<1>2. /\ \A g : Holds(L, g) <=> Holds(u, g) \/ Holds(v, g) \/ Holds(w, g)
      /\ \A g, h : Before(L, g, h) <=>
             \/ Before(u, g, h) \/ Before(v, g, h) \/ Before(w, g, h)
             \/ Holds(u, g) /\ (Holds(v, h) \/ Holds(w, h))
             \/ Holds(v, g) /\ Holds(w, h)
    BY ThreeParts
<1> HIDE DEF L, M
<1>3. ASSUME NEW f, Grows(n, w, f) PROVE Grows(M, L, f)
    BY <1>1, <1>2, <1>3 DEF Grows
<1>4. ASSUME NEW f, Beheaded(n, w, f) PROVE Loses(M, L, f)
    BY <1>1, <1>2, <1>4 DEF Beheaded, Loses, Fewer
<1> QED BY <1>3, <1>4 DEF L, M

(* The first of three parts loses its first element.                        *)
LEMMA FirstPart ==
    ASSUME NEW S, NEW u \in Seq(S), NEW v \in Seq(S), NEW w \in Seq(S), NEW n \in Seq(S)
    PROVE  \A f : Beheaded(n, u, f) => Beheaded(n \o v \o w, u \o v \o w, f)
<1> DEFINE M == n \o v \o w
           L == u \o v \o w
<1>1. /\ \A g : Holds(M, g) <=> Holds(n, g) \/ Holds(v, g) \/ Holds(w, g)
      /\ \A g, h : Before(M, g, h) <=>
             \/ Before(n, g, h) \/ Before(v, g, h) \/ Before(w, g, h)
             \/ Holds(n, g) /\ (Holds(v, h) \/ Holds(w, h))
             \/ Holds(v, g) /\ Holds(w, h)
    BY ThreeParts
<1>2. /\ \A g : Holds(L, g) <=> Holds(u, g) \/ Holds(v, g) \/ Holds(w, g)
      /\ \A g, h : Before(L, g, h) <=>
             \/ Before(u, g, h) \/ Before(v, g, h) \/ Before(w, g, h)
             \/ Holds(u, g) /\ (Holds(v, h) \/ Holds(w, h))
             \/ Holds(v, g) /\ Holds(w, h)
    BY ThreeParts
<1> HIDE DEF L, M
<1>3. ASSUME NEW f, Beheaded(n, u, f) PROVE Beheaded(M, L, f)
    BY <1>1, <1>2, <1>3 DEF Beheaded, Loses, Fewer
<1> QED BY <1>3 DEF L, M

(* from the beginning of the last, or is lost.                               *)
LEMMA MiddlePart ==
    ASSUME NEW S, NEW u \in Seq(S), NEW w \in Seq(S), NEW f \in S, NEW n \in Seq(S)
    PROVE  /\ Alike(Append(u, f) \o <<>> \o w, u \o <<f>> \o w)
           /\ Beheaded(n, w, f) => Alike(u \o <<f>> \o n, u \o <<>> \o w)
           /\ Beheaded(n, w, f) => Alike(Append(u, f) \o <<>> \o n, u \o <<>> \o w)
           /\ Loses(u \o <<>> \o w, u \o <<f>> \o w, f)
<1>1. <<>> \in Seq(S) /\ <<f>> \in Seq(S) /\ Append(u, f) \in Seq(S)
    OBVIOUS
<1>2. Append(u, f) = u \o <<f>>
    BY AppendIsConcat
<1>3. \A t \in Seq(S) : t \o <<>> = t
    BY ConcatEmptySeq
<1>4. /\ Append(u, f) \o <<>> \o w = u \o <<f>> \o w
      /\ Append(u, f) \o <<>> \o n = u \o <<f>> \o n
    BY <1>1, <1>2, <1>3
<1>5. ASSUME Beheaded(n, w, f) PROVE Alike(u \o <<f>> \o n, u \o <<>> \o w)
    <2> DEFINE N == u \o <<f>> \o n
               O == u \o <<>> \o w
    <2>1. /\ \A g : Holds(N, g) <=> Holds(u, g) \/ Holds(<<f>>, g) \/ Holds(n, g)
          /\ \A g, h : Before(N, g, h) <=>
                 \/ Before(u, g, h) \/ Before(<<f>>, g, h) \/ Before(n, g, h)
                 \/ Holds(u, g) /\ (Holds(<<f>>, h) \/ Holds(n, h))
                 \/ Holds(<<f>>, g) /\ Holds(n, h)
        BY <1>1, ThreeParts
    <2>2. /\ \A g : Holds(O, g) <=> Holds(u, g) \/ Holds(w, g)
          /\ \A g, h : Before(O, g, h) <=>
                 Before(u, g, h) \/ Before(w, g, h) \/ (Holds(u, g) /\ Holds(w, h))
        <3>1. O = u \o w
            BY <1>3
        <3> HIDE DEF O
        <3> QED BY <3>1, ConcatFacts
    <2> HIDE DEF N, O
    <2>3. /\ \A g : Holds(N, g) <=> Holds(u, g) \/ g = f \/ Holds(n, g)
          /\ \A g, h : Before(N, g, h) <=>
                 \/ Before(u, g, h) \/ Before(n, g, h)
                 \/ Holds(u, g) /\ (h = f \/ Holds(n, h))
                 \/ g = f /\ Holds(n, h)
        BY <2>1, SmallFacts, Zenon
    <2>4. /\ \A g : Holds(w, g) <=> g = f \/ Holds(n, g)
          /\ \A g, h : Before(w, g, h) <=> (g = f /\ Holds(n, h)) \/ Before(n, g, h)
        BY <1>5 DEF Beheaded, Loses, Fewer
    <2>5. Alike(N, O)
        BY <2>2, <2>3, <2>4 DEF Alike
    <2> QED BY <2>5 DEF N, O
<1> DEFINE M == u \o <<>> \o w
           L == u \o <<f>> \o w
<1>6. Loses(M, L, f)
    <2>1. /\ \A g : Holds(M, g) <=> Holds(u, g) \/ Holds(w, g)
          /\ \A g, h : Before(M, g, h) <=>
                 Before(u, g, h) \/ Before(w, g, h) \/ (Holds(u, g) /\ Holds(w, h))
        <3>1. M = u \o w
            BY <1>3
        <3> HIDE DEF M
        <3> QED BY <3>1, ConcatFacts
    <2>2. /\ \A g : Holds(L, g) <=> Holds(u, g) \/ Holds(<<f>>, g) \/ Holds(w, g)
          /\ \A g, h : Before(L, g, h) <=>
                 \/ Before(u, g, h) \/ Before(<<f>>, g, h) \/ Before(w, g, h)
                 \/ Holds(u, g) /\ (Holds(<<f>>, h) \/ Holds(w, h))
                 \/ Holds(<<f>>, g) /\ Holds(w, h)
        BY <1>1, ThreeParts
    <2> HIDE DEF M, L
    <2>3. /\ \A g : Holds(L, g) <=> Holds(u, g) \/ g = f \/ Holds(w, g)
          /\ \A g, h : Before(L, g, h) <=>
                 \/ Before(u, g, h) \/ Before(w, g, h)
                 \/ Holds(u, g) /\ (h = f \/ Holds(w, h))
                 \/ g = f /\ Holds(w, h)
        BY <2>2, SmallFacts, Zenon
    <2>4. Fewer(M, L)
        BY <2>1, <2>3 DEF Fewer
    <2>5. Holds(L, f) /\ \A g : Holds(L, g) => g = f \/ Holds(M, g)
        BY <2>1, <2>3
    <2>6. \A g : Holds(M, g) => Before(L, f, g) \/ Before(L, g, f)
        BY <2>1, <2>3
    <2> QED BY <2>4, <2>5, <2>6 DEF Loses
<1> QED BY <1>4, <1>5, <1>6 DEF Alike

(* All but the first part is lost.                                          *)
LEMMA OnlyFirstPart ==
    ASSUME NEW S, NEW u \in Seq(S), NEW v \in Seq(S), NEW w \in Seq(S)
    PROVE  Front(u \o <<>> \o <<>>, u \o v \o w) /\ Front(u, u \o v \o w)
<1>1. \A t \in Seq(S) : t \o <<>> = t
    BY ConcatEmptySeq
<1>2. u \o <<>> \o <<>> = u
    BY <1>1
<1>3. Front(u, u \o v \o w)
    <2>1. v \o w \in Seq(S) /\ u \o v \o w = u \o (v \o w)
        BY ConcatAssociative
    <2> QED BY <2>1, ShapesOfChange
<1> QED BY <1>2, <1>3
-----------------------------------------------------------------------------
(* What the actions do to the frames on their way from an end to the other. *)

(* The queues a frame passes.                                               *)
LEMMA QueuesTyped ==
    ASSUME TypeInv, NEW z \in Sides
    PROVE  /\ wire[z] \in Seq(Frames) /\ InHand(z) \in Seq(Frames) /\ mpsc[z] \in Seq(Frames)
           /\ Pipe(z) = wire[z] \o InHand(z) \o mpsc[z]
           /\ \A g : Holds(Pipe(z), g) => g \in Frames
           /\ \A g : Holds(Pipe(z), g) <=> Holds(wire[z], g) \/ Holds(InHand(z), g)
                                             \/ Holds(mpsc[z], g)
<1>1. wire[z] \in Seq(WireFrames) /\ mpsc[z] \in Seq(Frames) /\ WireFrames \subseteq Frames
    BY TypeParts, FrameFacts DEF TypeInv, WireT, MpscT
<1>2. wire[z] \in Seq(Frames)
    BY <1>1, SeqMonotonic
<1>3. InHand(z) \in Seq(Frames)
    BY <1>1 DEF InHand, TypeInv, Shape
<1>4. Pipe(z) = wire[z] \o InHand(z) \o mpsc[z]
    BY DEF Pipe
<1>5. /\ \A g : Holds(Pipe(z), g) <=> Holds(wire[z], g) \/ Holds(InHand(z), g)
                                        \/ Holds(mpsc[z], g)
      /\ Pipe(z) \in Seq(Frames)
    BY <1>1, <1>2, <1>3, <1>4, ThreeParts
<1>6. \A g : Holds(Pipe(z), g) => g \in Frames
    BY <1>5, HeldFacts
<1> QED BY <1>1, <1>2, <1>3, <1>4, <1>5, <1>6

(* A frame in hand.                                                         *)
LEMMA HandFacts ==
    ASSUME NEW z \in Sides
    PROVE  /\ conn'[z] = conn[z] => InHand(z)' = InHand(z)
           /\ conn[z].at # "write" => InHand(z) = <<>>
           /\ conn[z].at = "write" => InHand(z) = <<conn[z].frame>>
           /\ conn'[z].at # "write" => InHand(z)' = <<>>
           /\ conn'[z].at = "write" => InHand(z)' = <<conn'[z].frame>>
BY DEF InHand

(* The queues of an end that is left alone.                                 *)
LEMMA PipeSame ==
    ASSUME NEW z \in Sides, wire'[z] = wire[z], mpsc'[z] = mpsc[z],
           conn'[z] = conn[z] \/ (conn[z].at # "write" /\ conn'[z].at # "write")
    PROVE  Pipe(z)' = Pipe(z)
<1>1. InHand(z)' = InHand(z)
    BY HandFacts
<1> QED BY <1>1 DEF Pipe

(* A frame is queued.                                                       *)
LEMMA PipeQueued ==
    ASSUME TypeInv, NEW x \in Sides, NEW f, Queued(x, f), wire'[x] = wire[x],
           conn'[x] = conn[x] \/ (conn[x].at # "write" /\ conn'[x].at # "write")
    PROVE  Grows(Pipe(x)', Pipe(x), f)
<1>1. /\ wire[x] \in Seq(Frames) /\ InHand(x) \in Seq(Frames) /\ mpsc[x] \in Seq(Frames)
      /\ Pipe(x) = wire[x] \o InHand(x) \o mpsc[x]
    BY QueuesTyped
<1>2. InHand(x)' = InHand(x)
    BY HandFacts
<1>3. f \in Frames /\ mpsc'[x] = Append(mpsc[x], f) /\ Append(mpsc[x], f) \in Seq(Frames)
    BY <1>1, AppendFacts DEF Queued
<1>4. Grows(Append(mpsc[x], f), mpsc[x], f)
    BY <1>1, <1>3, ShapesOfChange
<1>5. Pipe(x)' = wire[x] \o InHand(x) \o Append(mpsc[x], f)
    BY <1>2, <1>3 DEF Pipe
<1> QED BY <1>1, <1>3, <1>4, <1>5, LastPart

(* A frame is taken from the channel.                                       *)
LEMMA PipeTaken ==
    ASSUME TypeInv, NEW x \in Sides, Taken(x), wire'[x] = wire[x],
           conn[x].at # "write" /\ conn'[x].at # "write"
    PROVE  Loses(Pipe(x)', Pipe(x), Head(mpsc[x]))
<1>1. /\ wire[x] \in Seq(Frames) /\ InHand(x) \in Seq(Frames) /\ mpsc[x] \in Seq(Frames)
      /\ Pipe(x) = wire[x] \o InHand(x) \o mpsc[x]
    BY QueuesTyped
<1>2. InHand(x)' = InHand(x)
    BY HandFacts
<1>3. mpsc[x] # <<>> /\ mpsc'[x] = Tail(mpsc[x]) /\ Tail(mpsc[x]) \in Seq(Frames)
    BY <1>1, TailFacts DEF Taken
<1>4. Beheaded(Tail(mpsc[x]), mpsc[x], Head(mpsc[x]))
    BY <1>1, <1>3, ShapesOfChange
<1>5. Pipe(x)' = wire[x] \o InHand(x) \o Tail(mpsc[x])
    BY <1>2, <1>3 DEF Pipe
<1> QED BY <1>1, <1>3, <1>4, <1>5, LastPart

(* A frame is read by the other end.                                        *)
LEMMA PipeRead ==
    ASSUME TypeInv, NEW z \in Sides, ReadOff(z), mpsc'[z] = mpsc[z], conn'[z] = conn[z]
    PROVE  Beheaded(Pipe(z)', Pipe(z), Head(wire[z])) /\ Beheaded(wire'[z], wire[z], Head(wire[z]))
<1>1. /\ wire[z] \in Seq(Frames) /\ InHand(z) \in Seq(Frames) /\ mpsc[z] \in Seq(Frames)
      /\ Pipe(z) = wire[z] \o InHand(z) \o mpsc[z]
    BY QueuesTyped
<1>2. InHand(z)' = InHand(z)
    BY HandFacts
<1>3. wire[z] # <<>> /\ wire'[z] = Tail(wire[z]) /\ Tail(wire[z]) \in Seq(Frames)
    BY <1>1, TailFacts DEF ReadOff
<1>4. Beheaded(Tail(wire[z]), wire[z], Head(wire[z]))
    BY <1>1, <1>3, ShapesOfChange
<1>5. Pipe(z)' = Tail(wire[z]) \o InHand(z) \o mpsc[z]
    BY <1>2, <1>3 DEF Pipe
<1> QED BY <1>1, <1>3, <1>4, <1>5, FirstPart

(* A frame is written, kept in hand, or lost with the connection.           *)
LEMMA PipeWrite ==
    ASSUME TypeInv, NEW x \in Sides, ConnWrite(x)
    PROVE  /\ link => Alike(Pipe(x)', Pipe(x))
           /\ ~link => Loses(Pipe(x)', Pipe(x), Head(mpsc[x])) /\ wire'[x] = wire[x]
<1> DEFINE f == Head(mpsc[x])
<1>1. /\ wire[x] \in Seq(Frames) /\ mpsc[x] \in Seq(Frames)
      /\ Pipe(x) = wire[x] \o InHand(x) \o mpsc[x]
    BY QueuesTyped
<1>2. /\ conn[x].at = "select" /\ Taken(x)
      /\ \/ Written(x, f) /\ UNCHANGED conn
         \/ link /\ ConnSet(x, "write", f) /\ UNCHANGED wire
    BY WriteEffect DEF TypeInv
<1>3. InHand(x) = <<>> /\ mpsc[x] # <<>> /\ mpsc'[x] = Tail(mpsc[x])
    BY <1>2, HandFacts DEF Taken
<1>4. f \in Frames /\ Tail(mpsc[x]) \in Seq(Frames) /\ Beheaded(Tail(mpsc[x]), mpsc[x], f)
    BY <1>1, <1>2, <1>3, TailFacts, ShapesOfChange DEF Taken
<1>5. CASE ~link
    <2>1. UNCHANGED conn /\ wire'[x] = wire[x]
        BY <1>2, <1>5 DEF Written
    <2> QED BY <1>2, <1>5, <2>1, PipeTaken
<1>6. CASE link /\ Written(x, f) /\ UNCHANGED conn
    <2>1. wire'[x] = Append(wire[x], f) /\ InHand(x)' = <<>>
        BY <1>2, <1>6, HandFacts DEF Written
    <2>2. Pipe(x)' = Append(wire[x], f) \o <<>> \o Tail(mpsc[x])
        BY <1>3, <2>1 DEF Pipe
    <2>3. Pipe(x) = wire[x] \o <<>> \o mpsc[x]
        BY <1>1, <1>3
    <2>4. Alike(Append(wire[x], Head(mpsc[x])) \o <<>> \o Tail(mpsc[x]), wire[x] \o <<>> \o mpsc[x])
        BY <1>1, <1>3, <1>4, MiddlePart
    <2> QED BY <1>6, <2>2, <2>3, <2>4
<1>7. CASE link /\ ConnSet(x, "write", f) /\ UNCHANGED wire
    <2>1. InHand(x)' = <<f>>
        BY <1>7, HandFacts DEF ConnSet
    <2>2. Pipe(x)' = wire[x] \o <<f>> \o Tail(mpsc[x])
        BY <1>3, <1>7, <2>1 DEF Pipe
    <2>3. Pipe(x) = wire[x] \o <<>> \o mpsc[x]
        BY <1>1, <1>3
    <2>4. Alike(wire[x] \o <<Head(mpsc[x])>> \o Tail(mpsc[x]), wire[x] \o <<>> \o mpsc[x])
        BY <1>1, <1>3, <1>4, MiddlePart
    <2> QED BY <1>7, <2>2, <2>3, <2>4
<1> QED BY <1>2, <1>5, <1>6, <1>7

(* The frame in hand is written, or lost with the connection.               *)
LEMMA PipeFlush ==
    ASSUME TypeInv, NEW x \in Sides, ConnFlush(x)
    PROVE  /\ link => Alike(Pipe(x)', Pipe(x))
           /\ ~link => Loses(Pipe(x)', Pipe(x), conn[x].frame) /\ wire'[x] = wire[x]
<1> DEFINE f == conn[x].frame
<1>1. /\ wire[x] \in Seq(Frames) /\ mpsc[x] \in Seq(Frames)
      /\ Pipe(x) = wire[x] \o InHand(x) \o mpsc[x]
    BY QueuesTyped
<1>2. /\ conn[x].at = "write" /\ f \in WireFrames /\ Written(x, f)
      /\ ConnSet(x, "select", NoFrame) /\ UNCHANGED mpsc
    BY FlushEffect DEF TypeInv
<1>3. InHand(x) = <<f>> /\ InHand(x)' = <<>> /\ mpsc'[x] = mpsc[x] /\ f \in Frames
    BY <1>2, HandFacts, FrameFacts DEF ConnSet
<1> HIDE DEF f
<1>4. Pipe(x) = wire[x] \o <<f>> \o mpsc[x]
    BY <1>1, <1>3
<1>5. CASE ~link
    <2>1. wire'[x] = wire[x]
        BY <1>2, <1>5 DEF Written
    <2>2. Pipe(x)' = wire[x] \o <<>> \o mpsc[x]
        BY <1>3, <2>1 DEF Pipe
    <2>3. Loses(wire[x] \o <<>> \o mpsc[x], wire[x] \o <<f>> \o mpsc[x], f)
        BY <1>1, <1>3, MiddlePart
    <2> QED BY <1>4, <1>5, <2>1, <2>2, <2>3 DEF f
<1>6. CASE link
    <2>1. wire'[x] = Append(wire[x], f)
        BY <1>2, <1>6 DEF Written
    <2>2. Pipe(x)' = Append(wire[x], f) \o <<>> \o mpsc[x]
        BY <1>3, <2>1 DEF Pipe
    <2>3. Alike(Append(wire[x], f) \o <<>> \o mpsc[x], wire[x] \o <<f>> \o mpsc[x])
        BY <1>1, <1>3, MiddlePart
    <2> QED BY <1>4, <1>6, <2>2, <2>3
<1> QED BY <1>5, <1>6

(* An end that ends leaves what it has written.                             *)
LEMMA PipeEnded ==
    ASSUME TypeInv, NEW x \in Sides, NEW l \in {"closed", "panic"}, NEW f, Ended(x, l, f),
           UNCHANGED wire
    PROVE  Front(Pipe(x)', Pipe(x))
<1>1. /\ wire[x] \in Seq(Frames) /\ InHand(x) \in Seq(Frames) /\ mpsc[x] \in Seq(Frames)
      /\ Pipe(x) = wire[x] \o InHand(x) \o mpsc[x]
    BY QueuesTyped
<1>2. mpsc'[x] = <<>> /\ InHand(x)' = <<>>
    BY HandFacts DEF Ended, ConnSet
<1>3. Pipe(x)' = wire[x] \o <<>> \o <<>>
    BY <1>2 DEF Pipe
<1>4. Front(wire[x] \o <<>> \o <<>>, wire[x] \o InHand(x) \o mpsc[x])
    BY <1>1, OnlyFirstPart
<1> QED BY <1>1, <1>3, <1>4
-----------------------------------------------------------------------------
(* How a stream comes to be: asked for, numbered and registered, announced, *)
(* accepted at the other end, and each of these once.                       *)

IsMark(g) == g.kind \in {"ask", "new"}

\* no stream is named twice by what is on its way from an end
Sole(x) == \A g, h :
    IsMark(g) /\ IsMark(h) /\ g.stream = h.stream => ~Before(Pipe(x), g, h)

\* a stream asked for has no id yet; one that is being announced has its id
\* and its task, and the other end has not heard of it
MarkOf(x, g) ==
    /\ g.kind = "ask" => task[x][g.stream] = "asked" /\ stream_id[x][g.stream] = 0
    /\ g.kind = "new" => /\ Opener[g.stream] = x /\ Past(x, g.stream)
                         /\ stream_id[x][g.stream] = g.id
                         /\ task[Other(x)][g.stream] = "none"
Marked(x) == \A g : Holds(Pipe(x), g) => MarkOf(x, g)

Born(x, s) ==
    /\ task[x][s] = "none" => stream_id[x][s] = 0
    /\ task[x][s] = "asked" => Opener[s] = x /\ (stream_id[x][s] = 0 \/ Announcing(x, s))
    /\ Announcing(x, s) => task[x][s] = "asked"

\* the map of streams agrees with the ids
Entered(x, i) == LET s == streams[x][i] IN
    s # NoStream => stream_id[x][s] = i /\ (Past(x, s) \/ Announcing(x, s))

\* both ends of a stream go by the opener's id
Accepted(s) == LET o == Opener[s]
                   p == Other(o)
               IN task[p][s] # "none" => stream_id[p][s] = stream_id[o][s] /\ Past(o, s)

MarkInv ==
    /\ \A x \in Sides : Sole(x) /\ Marked(x)
    /\ \A x \in Sides, s \in Sessions : Born(x, s)
    /\ \A x \in Sides, i \in Ids : Entered(x, i)
    /\ \A s \in Sessions : Accepted(s)

(* A step that gives no id, starts no task and announces nothing.           *)
Steady ==
    /\ UNCHANGED stream_id
    /\ \A y \in Sides, t \in Sessions :
           /\ task'[y][t] = task[y][t] \/ (Past(y, t) /\ Past(y, t)')
           /\ Announcing(y, t)' <=> Announcing(y, t)
    /\ \A y \in Sides, i \in Ids : streams'[y][i] \in {streams[y][i], NoStream}
    /\ \A y \in Sides :
           \/ Fewer(Pipe(y)', Pipe(y))
           \/ \E f \in Frames : ~IsMark(f) /\ Grows(Pipe(y)', Pipe(y), f)

(* Frames name streams.                                                     *)
LEMMA MarkFacts ==
    ASSUME NEW g \in Frames
    PROVE  IsMark(g) => g.stream \in Sessions
BY FrameFacts DEF IsMark

(* A steady step keeps the histories of the streams.                        *)
LEMMA SteadyMarks ==
    ASSUME TypeInv, MarkInv, Steady
    PROVE  MarkInv'
<1>1. ASSUME NEW x \in Sides PROVE Sole(x)'
    <2>1. Sole(x)
        BY DEF MarkInv
    <2>2. CASE Fewer(Pipe(x)', Pipe(x))
        BY <2>1, <2>2 DEF Sole, Fewer
    <2>3. CASE \E f \in Frames : ~IsMark(f) /\ Grows(Pipe(x)', Pipe(x), f)
        BY <2>1, <2>3 DEF Sole, Grows
    <2> QED BY <2>2, <2>3 DEF Steady
<1>2. ASSUME NEW x \in Sides, NEW g, Holds(Pipe(x)', g) PROVE MarkOf(x, g)'
    <2>1. CASE Holds(Pipe(x), g)
        <3>1. MarkOf(x, g) /\ g \in Frames
            BY <2>1, QueuesTyped DEF MarkInv, Marked
        <3>2. IsMark(g) => g.stream \in Sessions
            BY <3>1, MarkFacts
        <3>3. Other(x) \in Sides
            BY SideFacts
        <3> QED BY <3>1, <3>2, <3>3 DEF MarkOf, Steady, Past, IsMark
    <2>2. CASE ~IsMark(g)
        BY <2>2 DEF MarkOf, IsMark
    <2>3. Holds(Pipe(x), g) \/ ~IsMark(g)
        BY <1>2 DEF Steady, Fewer, Grows
    <2> QED BY <2>1, <2>2, <2>3
<1>3. ASSUME NEW x \in Sides, NEW s \in Sessions PROVE Born(x, s)'
    BY DEF MarkInv, Born, Steady, Past
<1>4. ASSUME NEW x \in Sides, NEW i \in Ids PROVE Entered(x, i)'
    <2>1. Entered(x, i) /\ streams'[x][i] \in {streams[x][i], NoStream}
        BY DEF MarkInv, Steady
    <2>2. streams[x][i] # NoStream => streams[x][i] \in Sessions
        BY TypeParts DEF TypeInv, StreamsT
    <2> QED BY <2>1, <2>2 DEF Entered, Steady, Past
<1>5. ASSUME NEW s \in Sessions PROVE Accepted(s)'
    <2>1. Accepted(s) /\ Opener[s] \in Sides /\ Other(Opener[s]) \in Sides
        BY SideFacts DEF MarkInv
    <2> QED BY <2>1 DEF Accepted, Steady, Past
<1> QED BY <1>1, <1>2, <1>3, <1>4, <1>5 DEF MarkInv, Marked

(* Nothing on its way changes.                                              *)
LEMMA SameIsFewer == \A L : Fewer(L, L) /\ Alike(L, L)
BY DEF Fewer, Alike

(* A queue that loses, or is cut, has fewer.                                *)
LEMMA FewerFacts ==
    \A M, L, f : /\ Loses(M, L, f) => Fewer(M, L)
                 /\ Beheaded(M, L, f) => Fewer(M, L) /\ Loses(M, L, f)
                 /\ Front(M, L) => Fewer(M, L)
                 /\ Alike(M, L) => Fewer(M, L)
BY DEF Loses, Beheaded, Front, Alike, Fewer

(* The steps of the task of a stream are steady.                            *)
LEMMA TaskSteady ==
    ASSUME TypeInv, NEW x \in Sides, NEW s \in Sessions, UNCHANGED <<connVars, stream_id>>,
           Past(x, s), UNCHANGED task \/ \E l \in TaskLabels \ {"none", "asked"} : TaskSet(x, s, l),
           UNCHANGED mpsc \/ \E f \in Frames : ~IsMark(f) /\ Queued(x, f)
    PROVE  Steady
<1>1. ASSUME NEW y \in Sides, NEW t \in Sessions
      PROVE  task'[y][t] = task[y][t] \/ (Past(y, t) /\ Past(y, t)')
    BY DEF TaskSet, Past
<1>2. ASSUME NEW y \in Sides, NEW t \in Sessions
      PROVE  Announcing(y, t)' <=> Announcing(y, t)
    BY DEF Announcing, connVars
<1>3. ASSUME NEW y \in Sides
      PROVE  \/ Fewer(Pipe(y)', Pipe(y))
             \/ \E f \in Frames : ~IsMark(f) /\ Grows(Pipe(y)', Pipe(y), f)
    <2>1. wire'[y] = wire[y] /\ conn'[y] = conn[y]
        BY DEF connVars
    <2>2. CASE mpsc'[y] = mpsc[y]
        BY <2>1, <2>2, PipeSame, SameIsFewer
    <2>3. CASE y = x /\ \E f \in Frames : ~IsMark(f) /\ Queued(x, f)
        BY <2>1, <2>3, PipeQueued
    <2> QED BY <2>2, <2>3 DEF Queued
<1> QED BY <1>1, <1>2, <1>3 DEF Steady, connVars

(* As above, action by action.                                              *)
LEMMA TasksSteady ==
    ASSUME TypeInv, NEW x \in Sides, NEW s \in Sessions,
           \/ Request(x, s) \/ Reply(x, s) \/ Write(x, s) \/ Close(x, s)
           \/ Await(x, s) \/ Answer(x, s) \/ Read(x, s) \/ Turns(x, s)
    PROVE  Steady
<1>1. {"await", "read", "reply", "write", "close", "done", "panic"}
          \subseteq TaskLabels \ {"none", "asked"}
    BY DEF TaskLabels
<1>2. ASSUME NEW f, Queued(x, f) PROVE f \in Frames
    BY <1>2 DEF Queued
<1>3. \A i, p : ~IsMark(DataFrame(i, p))
    BY MadeFacts DEF IsMark
<1>4. CASE Request(x, s)
    BY <1>1, <1>2, <1>3, <1>4, RequestEffect, TaskSteady DEF TypeInv, Past
<1>5. CASE Reply(x, s)
    BY <1>1, <1>2, <1>3, <1>5, ReplyEffect, TaskSteady DEF TypeInv, Past
<1>6. CASE Write(x, s)
    BY <1>1, <1>2, <1>3, <1>6, SayEffect, TaskSteady DEF TypeInv, Past
<1>7. CASE Close(x, s)
    <2>1. /\ task[x][s] = "close" /\ stream_id[x][s] \in Ids
          /\ Queued(x, CloseFrame(stream_id[x][s])) /\ TaskSet(x, s, "done")
          /\ UNCHANGED <<connVars, stream_id>>
        BY <1>7, ShutEffect DEF TypeInv
    <2>2. ~IsMark(CloseFrame(stream_id[x][s]))
        BY <2>1, MadeFacts DEF IsMark
    <2> QED BY <1>1, <1>2, <2>1, <2>2, TaskSteady DEF Past
<1>8. CASE Await(x, s)
    BY <1>1, <1>8, AwaitEffect, TaskSteady DEF TypeInv, Past
<1>9. CASE Answer(x, s)
    BY <1>1, <1>9, AnswerEffect, TaskSteady DEF TypeInv, Past
<1>10. CASE Read(x, s)
    BY <1>10, ReadEffect, TaskSteady DEF TypeInv, Past
<1>11. CASE Turns(x, s)
    BY <1>1, <1>11, TurnEffect, TaskSteady DEF TypeInv, Past, Listens
<1> QED BY <1>4, <1>5, <1>6, <1>7, <1>8, <1>9, <1>10, <1>11

(* A step of a connection task that neither registers nor announces.        *)
LEMMA ConnSteady ==
    ASSUME TypeInv, NEW x \in Sides, UNCHANGED <<task, stream_id>>,
           \A y \in Sides : conn'[y] = conn[y]
                              \/ (conn[y].at # "announce" /\ conn'[y].at # "announce"),
           \A y \in Sides, i \in Ids : streams'[y][i] \in {streams[y][i], NoStream},
           \A y \in Sides : Fewer(Pipe(y)', Pipe(y))
    PROVE  Steady
<1>1. ASSUME NEW y \in Sides, NEW t \in Sessions
      PROVE  Announcing(y, t)' <=> Announcing(y, t)
    BY DEF Announcing
<1> QED BY <1>1 DEF Steady

(* As above, action by action.                                              *)
LEMMA RouteSteady ==
    ASSUME TypeInv, NEW x \in Sides, ConnRoute(x)
    PROVE  Steady
<1> DEFINE z == Other(x)
           f == Head(wire[z])
<1>1. /\ conn[x].at = "select" /\ ReadOff(z)
      /\ UNCHANGED conn \/ ConnSet(x, "deliver", f)
      /\ UNCHANGED <<streams, mpsc, task, stream_id>>
    BY RouteEffect, SideFacts DEF TypeInv
<1>2. z \in Sides /\ z # x /\ \A y \in Sides : y = x \/ y = z
    BY SideFacts
<1> HIDE DEF f, z
<1>3. conn'[z] = conn[z] /\ (conn'[x] = conn[x] \/ conn'[x].at = "deliver")
    BY <1>1, <1>2 DEF ConnSet
<1>4. Fewer(Pipe(z)', Pipe(z))
    BY <1>1, <1>2, <1>3, PipeRead, FewerFacts
<1>5. wire'[x] = wire[x] /\ mpsc'[x] = mpsc[x]
    BY <1>1, <1>2 DEF ReadOff
<1>6. Pipe(x)' = Pipe(x)
    BY <1>1, <1>3, <1>5, PipeSame
<1>7. \A y \in Sides : Fewer(Pipe(y)', Pipe(y))
    BY <1>2, <1>4, <1>6, SameIsFewer
<1>8. \A y \in Sides : conn'[y] = conn[y] \/ (conn[y].at # "announce" /\ conn'[y].at # "announce")
    BY <1>1, <1>2, <1>3
<1> QED BY <1>1, <1>7, <1>8, ConnSteady

(* As above.                                                                *)
LEMMA HandOverSteady ==
    ASSUME TypeInv, NEW x \in Sides, ConnDeliver(x)
    PROVE  Steady
<1>1. /\ conn[x].at = "deliver" /\ ConnSet(x, "select", NoFrame)
      /\ UNCHANGED <<streams, mpsc, wire, task, stream_id>>
    BY HandOverEffect DEF TypeInv
<1>2. \A y \in Sides : Pipe(y)' = Pipe(y)
    BY <1>1, PipeSame DEF ConnSet
<1>3. \A y \in Sides : Fewer(Pipe(y)', Pipe(y))
    BY <1>2, SameIsFewer
<1>4. \A y \in Sides : conn'[y] = conn[y] \/ (conn[y].at # "announce" /\ conn'[y].at # "announce")
    BY <1>1 DEF ConnSet
<1> QED BY <1>1, <1>3, <1>4, ConnSteady

(* As above.                                                                *)
LEMMA CloseSteady ==
    ASSUME TypeInv, NEW x \in Sides, ConnClose(x)
    PROVE  Steady
<1> DEFINE i == Head(mpsc[x]).id
<1>1. /\ conn[x].at = "select" /\ Taken(x) /\ streams'[x][i] = NoStream
      /\ \A j \in Ids : j # i => streams'[x][j] = streams[x][j]
      /\ \A y \in Sides : y # x => streams'[y] = streams[y]
      /\ UNCHANGED <<conn, wire, task, stream_id>>
    BY CloseEffect DEF TypeInv, taskVars
<1> HIDE DEF i
<1>2. Loses(Pipe(x)', Pipe(x), Head(mpsc[x]))
    BY <1>1, PipeTaken
<1>3. ASSUME NEW y \in Sides PROVE Fewer(Pipe(y)', Pipe(y))
    <2>1. CASE y = x
        BY <1>2, <2>1, FewerFacts
    <2>2. CASE y # x
        <3>1. mpsc'[y] = mpsc[y] /\ wire'[y] = wire[y] /\ conn'[y] = conn[y]
            BY <1>1, <2>2 DEF Taken
        <3> QED BY <3>1, PipeSame, SameIsFewer
    <2> QED BY <2>1, <2>2
<1>4. \A y \in Sides, j \in Ids : streams'[y][j] \in {streams[y][j], NoStream}
    BY <1>1
<1> QED BY <1>1, <1>3, <1>4, ConnSteady

(* As above.                                                                *)
LEMMA WriteSteady ==
    ASSUME TypeInv, NEW x \in Sides, ConnWrite(x) \/ ConnFlush(x)
    PROVE  Steady
<1>1. /\ conn[x].at \in {"select", "write"}
      /\ UNCHANGED <<streams, task, stream_id>>
      /\ \A y \in Sides : y # x => conn'[y] = conn[y] /\ wire'[y] = wire[y] /\ mpsc'[y] = mpsc[y]
      /\ UNCHANGED conn \/ conn'[x].at \in {"write", "select"}
    <2>1. CASE ConnWrite(x)
        BY <2>1, WriteEffect DEF TypeInv, Taken, Written, ConnSet, taskVars
    <2>2. CASE ConnFlush(x)
        BY <2>2, FlushEffect DEF TypeInv, Written, ConnSet, taskVars
    <2> QED BY <2>1, <2>2
<1>2. Fewer(Pipe(x)', Pipe(x))
    BY PipeWrite, PipeFlush, FewerFacts
<1>3. ASSUME NEW y \in Sides PROVE Fewer(Pipe(y)', Pipe(y))
    <2>1. CASE y = x
        BY <1>2, <2>1
    <2>2. CASE y # x
        BY <1>1, <2>2, PipeSame, SameIsFewer
    <2> QED BY <2>1, <2>2
<1>4. \A y \in Sides : conn'[y] = conn[y] \/ (conn[y].at # "announce" /\ conn'[y].at # "announce")
    BY <1>1
<1> QED BY <1>1, <1>3, <1>4, ConnSteady

(* As above.                                                                *)
LEMMA EndSteady ==
    ASSUME TypeInv, NEW x \in Sides, ConnEnds(x)
    PROVE  Steady
<1>1. /\ \E l \in {"closed", "panic"}, f \in Frames \cup {NoFrame} : Ended(x, l, f)
      /\ conn[x].at \in {"select", "write", "deliver"}
      /\ UNCHANGED <<wire, task, stream_id>>
    <2>1. conn[x].frame \in Frames \cup {NoFrame}
        BY TypeParts DEF TypeInv, ConnT, Conns
    <2> QED BY <2>1, EndEffect DEF TypeInv, taskVars
<1>2. PICK l \in {"closed", "panic"}, f \in Frames \cup {NoFrame} : Ended(x, l, f)
    BY <1>1
<1>3. Fewer(Pipe(x)', Pipe(x))
    BY <1>1, <1>2, PipeEnded, FewerFacts
<1>4. /\ conn'[x].at = l /\ \A i \in Ids : streams'[x][i] = NoStream
      /\ \A y \in Sides : y # x => /\ conn'[y] = conn[y] /\ streams'[y] = streams[y]
                                   /\ mpsc'[y] = mpsc[y]
    BY <1>2 DEF Ended, ConnSet
<1>5. ASSUME NEW y \in Sides PROVE Fewer(Pipe(y)', Pipe(y))
    <2>1. CASE y = x
        BY <1>3, <2>1
    <2>2. CASE y # x
        BY <1>1, <1>4, <2>2, PipeSame, SameIsFewer
    <2> QED BY <2>1, <2>2
<1>6. \A y \in Sides : conn'[y] = conn[y] \/ (conn[y].at # "announce" /\ conn'[y].at # "announce")
    BY <1>1, <1>4
<1>7. \A y \in Sides, i \in Ids : streams'[y][i] \in {streams[y][i], NoStream}
    BY <1>4
<1> QED BY <1>1, <1>5, <1>6, <1>7, ConnSteady

(* As above.                                                                *)
LEMMA LostSteady ==
    ASSUME TypeInv, LinkLost \/ UNCHANGED vars
    PROVE  Steady
<1>1. UNCHANGED <<conn, streams, mpsc, wire, task, stream_id>>
    BY DEF LinkLost, vars, taskVars
<1>2. \A y \in Sides : Fewer(Pipe(y)', Pipe(y))
    BY <1>1, PipeSame, SameIsFewer
<1> QED BY <1>1, <1>2, ConnSteady, SideFacts

(* The swarm asks for a stream.                                             *)
LEMMA AskMarks ==
    ASSUME TypeInv, MarkInv, NEW s \in Sessions, Ask(s)
    PROVE  MarkInv'
<1> DEFINE x == Opener[s]
           f == AskFrame(s)
<1>1. x \in Sides
    BY SideFacts
<1>2. /\ task[x][s] = "none" /\ Queued(x, f) /\ TaskSet(x, s, "asked")
      /\ UNCHANGED <<conn, wire, streams, stream_id>>
    BY <1>1, AskEffect DEF TypeInv, connVars
<1>3. f.kind = "ask" /\ f.stream = s
    BY MadeFacts
<1>4. Grows(Pipe(x)', Pipe(x), f)
    BY <1>1, <1>2, PipeQueued
<1>5. \A y \in Sides : y # x => Pipe(y)' = Pipe(y)
    BY <1>2, PipeSame DEF Queued
<1> HIDE DEF x, f
<1>6. ASSUME NEW g, Holds(Pipe(x), g), IsMark(g) PROVE g.stream # s
    BY <1>1, <1>2, <1>6 DEF MarkInv, Marked, MarkOf, IsMark, Past
<1>7. ASSUME NEW y \in Sides PROVE Sole(y)'
    <2>1. CASE y # x
        BY <1>5, <2>1 DEF MarkInv, Sole
    <2>2. CASE y = x
        BY <1>3, <1>4, <1>6, <2>2 DEF MarkInv, Sole, Grows
    <2> QED BY <2>1, <2>2
<1>8. \A t \in Sessions : Announcing(x, t)' <=> Announcing(x, t)
    BY <1>2 DEF Announcing
<1>9. stream_id[x][s] = 0 /\ x = Opener[s]
    BY <1>1, <1>2 DEF MarkInv, Born, x
<1>10. ASSUME NEW y \in Sides, NEW g, Holds(Pipe(y)', g) PROVE MarkOf(y, g)'
    <2>1. CASE Holds(Pipe(y), g)
        <3>1. MarkOf(y, g) /\ g \in Frames /\ Other(y) \in Sides
            BY <2>1, QueuesTyped, SideFacts DEF MarkInv, Marked
        <3>2. IsMark(g) => g.stream \in Sessions
            BY <3>1, MarkFacts
        <3>3. IsMark(g) /\ y = x => g.stream # s
            BY <1>6, <2>1
        <3>4. g.kind = "new" /\ y # x => g.stream # s
            BY <3>1, <1>9 DEF MarkOf
        <3> QED BY <1>2, <3>1, <3>2, <3>3, <3>4 DEF MarkOf, IsMark, TaskSet, Past
    <2>2. CASE y = x /\ g = f
        BY <1>2, <1>3, <1>9, <2>2 DEF MarkOf, TaskSet
    <2>3. Holds(Pipe(y), g) \/ (y = x /\ g = f)
        BY <1>4, <1>5, <1>10 DEF Grows
    <2> QED BY <2>1, <2>2, <2>3
<1>11. ASSUME NEW y \in Sides, NEW t \in Sessions PROVE Born(y, t)'
    <2>1. Born(y, t) /\ (Announcing(y, t)' <=> Announcing(y, t))
        BY <1>2 DEF MarkInv, Announcing
    <2>2. CASE y = x /\ t = s
        BY <1>2, <1>9, <2>1, <2>2 DEF Born, TaskSet
    <2>3. CASE y # x \/ t # s
        BY <1>2, <2>1, <2>3 DEF Born, TaskSet
    <2> QED BY <2>2, <2>3
<1>12. ASSUME NEW y \in Sides, NEW i \in Ids PROVE Entered(y, i)'
    <2>1. Entered(y, i) /\ streams'[y] = streams[y]
        BY <1>2 DEF MarkInv
    <2>2. streams[y][i] # NoStream => streams[y][i] \in Sessions
        BY TypeParts DEF TypeInv, StreamsT
    <2>3. i # 0
        BY SideFacts
    <2> QED BY <1>2, <1>9, <2>1, <2>2, <2>3 DEF Entered, TaskSet, Past, Announcing
<1>13. ASSUME NEW t \in Sessions PROVE Accepted(t)'
    <2>1. /\ Accepted(t) /\ Opener[t] \in Sides
          /\ Other(Opener[t]) \in Sides /\ Other(Opener[t]) # Opener[t]
        BY SideFacts DEF MarkInv
    <2> QED BY <1>2, <1>9, <2>1 DEF Accepted, TaskSet, Past
<1> QED BY <1>7, <1>10, <1>11, <1>12, <1>13 DEF MarkInv, Marked

(* A stream asked for gets its id.                                          *)
LEMMA OpenMarks ==
    ASSUME TypeInv, MarkInv, NEW x \in Sides, ConnOpen(x)
    PROVE  MarkInv'
<1> DEFINE f == Head(mpsc[x])
           s == f.stream
           i == NextId(x)
<1>1. /\ conn[x].at = "select" /\ Taken(x) /\ f \in Asks /\ s \in Sessions
      /\ Given(x, s, i) /\ ConnSet(x, "announce", NewFrame(i, s))
      /\ UNCHANGED <<wire, task>>
    BY OpenEffect DEF TypeInv
<1>2. f.kind = "ask" /\ i \in Ids /\ i # 0 /\ NewFrame(i, s).stream = s
    <2>1. i \in Ids /\ i # 0
        BY <1>1, SideFacts DEF Given
    <2> HIDE DEF i
    <2>2. NewFrame(i, s).stream = s
        BY <1>1, <2>1, MadeFacts
    <2> QED BY <1>1, <2>1, <2>2, FrameFacts
<1>3. Loses(Pipe(x)', Pipe(x), f)
    BY <1>1, PipeTaken DEF ConnSet
<1>4. \A y \in Sides : y # x => Pipe(y)' = Pipe(y)
    BY <1>1, PipeSame DEF Taken, ConnSet
<1>5. /\ conn'[x].at = "announce" /\ conn'[x].frame.stream = s
      /\ \A y \in Sides : y # x => conn'[y] = conn[y]
    BY <1>1, <1>2 DEF ConnSet
<1> HIDE DEF f, i
<1>6. MarkOf(x, f) /\ Sole(x)
    BY <1>3 DEF MarkInv, Marked, Loses
<1> HIDE DEF s
<1>7. task[x][s] = "asked" /\ stream_id[x][s] = 0
    BY <1>2, <1>6 DEF MarkOf, s
<1>8. Opener[s] = x /\ Other(x) \in Sides /\ Other(x) # x
    BY <1>1, <1>7, SideFacts DEF MarkInv, Born
<1>9. ASSUME NEW g, Holds(Pipe(x)', g), IsMark(g) PROVE g.stream # s
    <2>1. Before(Pipe(x), f, g) \/ Before(Pipe(x), g, f)
        BY <1>3, <1>9 DEF Loses
    <2> QED BY <1>2, <1>6, <1>9, <2>1 DEF Sole, IsMark, s
<1>10. ASSUME NEW y \in Sides PROVE Sole(y)'
    <2>1. CASE y # x
        BY <1>4, <2>1 DEF MarkInv, Sole
    <2>2. CASE y = x
        BY <1>3, <1>6, <2>2 DEF Sole, Loses, Fewer
    <2> QED BY <2>1, <2>2
<1>11. ASSUME NEW y \in Sides, NEW g, Holds(Pipe(y)', g) PROVE MarkOf(y, g)'
    <2>1. Holds(Pipe(y), g)
        BY <1>3, <1>4, <1>11 DEF Loses, Fewer
    <2>2. MarkOf(y, g) /\ g \in Frames
        BY <2>1, QueuesTyped DEF MarkInv, Marked
    <2>3. IsMark(g) => g.stream \in Sessions /\ (y = x => g.stream # s)
        BY <1>9, <1>11, <2>2, MarkFacts
    <2> QED BY <1>1, <2>2, <2>3 DEF MarkOf, IsMark, Given, Past
<1>12. ASSUME NEW y \in Sides, NEW t \in Sessions PROVE Born(y, t)'
    <2>1. Born(y, t)
        BY DEF MarkInv
    <2>2. CASE y = x /\ t = s
        BY <1>1, <1>5, <1>7, <1>8, <2>2 DEF Born, Announcing
    <2>3. CASE y = x /\ t # s
        BY <1>1, <1>5, <2>1, <2>3 DEF Born, Announcing, Given
    <2>4. CASE y # x
        BY <1>1, <1>5, <2>1, <2>4 DEF Born, Announcing, Given
    <2> QED BY <2>2, <2>3, <2>4
<1>13. ASSUME NEW y \in Sides, NEW j \in Ids PROVE Entered(y, j)'
    <2>1. Entered(y, j) /\ (streams[y][j] # NoStream => streams[y][j] \in Sessions)
        BY TypeParts DEF MarkInv, TypeInv, StreamsT
    <2>2. CASE y = x /\ j = i
        BY <1>1, <1>5, <2>2 DEF Entered, Announcing, Given
    <2>3. CASE y = x /\ j # i
        <3>1. streams'[x][j] = streams[x][j] /\ j # 0
            BY <1>1, <2>3, SideFacts DEF Given
        <3> QED BY <1>1, <1>7, <2>1, <2>3, <3>1 DEF Entered, Announcing, Given, Past
    <2>4. CASE y # x
        BY <1>1, <1>5, <2>1, <2>4 DEF Entered, Announcing, Given, Past
    <2> QED BY <2>2, <2>3, <2>4
<1>14. ASSUME NEW t \in Sessions PROVE Accepted(t)'
    <2>1. Accepted(t) /\ Opener[t] \in Sides /\ Other(Opener[t]) \in Sides
        BY SideFacts DEF MarkInv
    <2>2. t = s => task[Other(x)][s] = "none"
        BY <1>7, <1>8, <2>1 DEF Accepted, Past
    <2> QED BY <1>1, <1>8, <2>1, <2>2 DEF Accepted, Past, Given
<1> QED BY <1>10, <1>11, <1>12, <1>13, <1>14 DEF MarkInv, Marked

(* The stream is announced.                                                 *)
LEMMA AnnounceMarks ==
    ASSUME TypeInv, MarkInv, NEW x \in Sides, ConnAnnounce(x)
    PROVE  MarkInv'
<1> DEFINE f == conn[x].frame
           s == f.stream
<1>1. /\ conn[x].at = "announce" /\ f \in News /\ s \in Sessions
      /\ Queued(x, f) /\ TaskSet(x, s, "request") /\ ConnSet(x, "select", NoFrame)
      /\ UNCHANGED <<streams, wire, stream_id>>
    BY AnnounceEffect DEF TypeInv
<1>2. f.kind = "new" /\ f.id \in Ids /\ f.id # 0 /\ stream_id[x][s] = f.id /\ f \in Frames
    BY <1>1, FrameFacts, SideFacts DEF TypeInv, Numbered
<1>3. Grows(Pipe(x)', Pipe(x), f)
    BY <1>1, PipeQueued DEF ConnSet
<1>4. \A y \in Sides : y # x => Pipe(y)' = Pipe(y)
    BY <1>1, PipeSame DEF Queued, ConnSet
<1>5. /\ \A t : Announcing(x, t) <=> t = s
      /\ \A t : ~Announcing(x, t)'
      /\ \A y \in Sides : y # x => conn'[y] = conn[y]
    BY <1>1 DEF Announcing, ConnSet
<1> HIDE DEF f
<1> HIDE DEF s
<1>6. task[x][s] = "asked" /\ Opener[s] = x
    BY <1>1, <1>5 DEF MarkInv, Born
<1>7. Other(x) \in Sides /\ Other(x) # x /\ task[Other(x)][s] = "none"
    <2>1. Accepted(s)
        BY <1>1 DEF MarkInv
    <2> QED BY <1>6, <2>1, SideFacts DEF Accepted, Past
<1>8. ASSUME NEW g, Holds(Pipe(x), g), IsMark(g) PROVE g.stream # s
    <2>1. MarkOf(x, g)
        BY <1>8 DEF MarkInv, Marked
    <2> QED BY <1>2, <1>6, <1>8, <2>1 DEF MarkOf, IsMark, Past
<1>9. ASSUME NEW y \in Sides PROVE Sole(y)'
    <2>1. CASE y # x
        BY <1>4, <2>1 DEF MarkInv, Sole
    <2>2. CASE y = x
        BY <1>3, <1>8, <2>2 DEF MarkInv, Sole, Grows, s
    <2> QED BY <2>1, <2>2
<1>10. ASSUME NEW y \in Sides, NEW g, Holds(Pipe(y)', g) PROVE MarkOf(y, g)'
    <2>1. CASE Holds(Pipe(y), g)
        <3>1. MarkOf(y, g) /\ g \in Frames /\ Other(y) \in Sides
            BY <2>1, QueuesTyped, SideFacts DEF MarkInv, Marked
        <3>2. IsMark(g) => g.stream \in Sessions
            BY <3>1, MarkFacts
        <3>3. IsMark(g) /\ y = x => g.stream # s
            BY <1>8, <2>1
        <3>4. g.kind = "new" /\ y # x => g.stream # s
            BY <1>6, <3>1 DEF MarkOf
        <3> QED BY <1>1, <3>1, <3>2, <3>3, <3>4 DEF MarkOf, IsMark, TaskSet, Past
    <2>2. CASE y = x /\ g = f
        BY <1>1, <1>2, <1>6, <1>7, <2>2 DEF MarkOf, TaskSet, Past, s
    <2>3. Holds(Pipe(y), g) \/ (y = x /\ g = f)
        BY <1>3, <1>4, <1>10 DEF Grows
    <2> QED BY <2>1, <2>2, <2>3
<1>11. ASSUME NEW y \in Sides, NEW t \in Sessions PROVE Born(y, t)'
    <2>1. Born(y, t)
        BY DEF MarkInv
    <2>2. CASE y = x /\ t = s
        BY <1>1, <1>5, <2>2 DEF Born, TaskSet
    <2>3. CASE y = x /\ t # s
        BY <1>1, <1>5, <2>1, <2>3 DEF Born, TaskSet
    <2>4. CASE y # x
        BY <1>1, <1>5, <2>1, <2>4 DEF Born, TaskSet, Announcing
    <2> QED BY <2>2, <2>3, <2>4
<1>12. ASSUME NEW y \in Sides, NEW j \in Ids PROVE Entered(y, j)'
    <2>1. Entered(y, j) /\ (streams[y][j] # NoStream => streams[y][j] \in Sessions)
        BY TypeParts DEF MarkInv, TypeInv, StreamsT
    <2>2. CASE y = x
        BY <1>1, <1>5, <2>1, <2>2 DEF Entered, TaskSet, Past
    <2>3. CASE y # x
        BY <1>1, <1>5, <2>1, <2>3 DEF Entered, TaskSet, Past, Announcing
    <2> QED BY <2>2, <2>3
<1>13. ASSUME NEW t \in Sessions PROVE Accepted(t)'
    <2>1. Accepted(t) /\ Opener[t] \in Sides /\ Other(Opener[t]) \in Sides
        BY SideFacts DEF MarkInv
    <2> QED BY <1>1, <1>6, <1>7, <2>1 DEF Accepted, Past, TaskSet
<1> QED BY <1>9, <1>10, <1>11, <1>12, <1>13 DEF MarkInv, Marked

(* The other end takes the stream.                                          *)
LEMMA AcceptMarks ==
    ASSUME TypeInv, MarkInv, NEW x \in Sides, ConnAccept(x)
    PROVE  MarkInv'
<1> DEFINE z == Other(x)
           f == Head(wire[z])
           s == f.stream
           i == f.id
<1>1. z \in Sides /\ z # x /\ Other(z) = x /\ \A y \in Sides : y = x \/ y = z
    BY SideFacts
<1>2. /\ conn[x].at = "select" /\ ReadOff(z) /\ f \in News /\ s \in Sessions /\ i \in Ids
      /\ Given(x, s, i) /\ TaskSet(x, s, "answer")
      /\ UNCHANGED <<conn, mpsc>>
    BY <1>1, AcceptEffect DEF TypeInv
<1>3. f.kind = "new" /\ i # 0
    BY <1>2, FrameFacts, SideFacts
<1> HIDE DEF i, s, z
<1>4. Beheaded(Pipe(z)', Pipe(z), f)
    BY <1>1, <1>2, PipeRead
<1>5. Pipe(x)' = Pipe(x)
    BY <1>1, <1>2, PipeSame DEF ReadOff
<1> HIDE DEF f
<1>6. MarkOf(z, f) /\ Sole(z)
    BY <1>1, <1>4 DEF MarkInv, Marked, Beheaded, Loses
<1>7. Opener[s] = z /\ Past(z, s) /\ stream_id[z][s] = i /\ task[x][s] = "none"
    BY <1>1, <1>3, <1>6 DEF MarkOf, s, i
<1>8. stream_id[x][s] = 0
    BY <1>2, <1>7 DEF MarkInv, Born
<1>9. ASSUME NEW g, Holds(Pipe(z)', g), IsMark(g) PROVE g.stream # s
    <2>1. Before(Pipe(z), f, g)
        BY <1>4, <1>9 DEF Beheaded
    <2> QED BY <1>3, <1>6, <1>9, <2>1 DEF Sole, IsMark, s
<1>10. ASSUME NEW g, Holds(Pipe(x), g), IsMark(g) PROVE g.stream # s
    <2>1. MarkOf(x, g)
        BY <1>10 DEF MarkInv, Marked
    <2> QED BY <1>1, <1>7, <1>10, <2>1 DEF MarkOf, IsMark
<1>11. ASSUME NEW y \in Sides PROVE Sole(y)'
    <2>1. CASE y = x
        BY <1>5, <2>1 DEF MarkInv, Sole
    <2>2. CASE y = z
        BY <1>4, <1>6, <2>2 DEF Sole, Beheaded, Loses, Fewer
    <2> QED BY <1>1, <2>1, <2>2
<1>12. ASSUME NEW y \in Sides, NEW g, Holds(Pipe(y)', g) PROVE MarkOf(y, g)'
    <2>1. Holds(Pipe(y), g)
        BY <1>1, <1>4, <1>5, <1>12 DEF Beheaded, Loses, Fewer
    <2>2. MarkOf(y, g) /\ g \in Frames
        BY <2>1, QueuesTyped DEF MarkInv, Marked
    <2>3. IsMark(g) => g.stream \in Sessions /\ g.stream # s
        BY <1>1, <1>5, <1>9, <1>10, <1>12, <2>2, MarkFacts
    <2>4. Other(y) \in Sides
        BY SideFacts
    <2> QED BY <1>2, <2>2, <2>3, <2>4 DEF MarkOf, IsMark, Given, TaskSet, Past
<1>13. ASSUME NEW y \in Sides, NEW t \in Sessions PROVE Born(y, t)'
    <2>1. Born(y, t)
        BY DEF MarkInv
    <2>2. CASE y = x /\ t = s
        BY <1>2, <2>2 DEF Born, TaskSet, Announcing
    <2>3. CASE y # x \/ t # s
        BY <1>2, <2>1, <2>3 DEF Born, TaskSet, Announcing, Given
    <2> QED BY <2>2, <2>3
<1>14. ASSUME NEW y \in Sides, NEW j \in Ids PROVE Entered(y, j)'
    <2>1. Entered(y, j) /\ (streams[y][j] # NoStream => streams[y][j] \in Sessions)
        BY TypeParts DEF MarkInv, TypeInv, StreamsT
    <2>2. CASE y = x /\ j = i
        BY <1>2, <2>2 DEF Entered, TaskSet, Past, Given
    <2>3. CASE y = x /\ j # i
        <3>1. streams'[x][j] = streams[x][j] /\ j # 0
            BY <1>2, <2>3, SideFacts DEF Given
        <3> QED BY <1>2, <1>8, <2>1, <2>3, <3>1 DEF Entered, Announcing, Given, TaskSet, Past
    <2>4. CASE y # x
        BY <1>2, <2>1, <2>4 DEF Entered, Announcing, Given, TaskSet, Past
    <2> QED BY <2>2, <2>3, <2>4
<1>15. ASSUME NEW t \in Sessions PROVE Accepted(t)'
    <2>1. Accepted(t) /\ Opener[t] \in Sides /\ Other(Opener[t]) \in Sides
        BY SideFacts DEF MarkInv
    <2>2. CASE t = s
        BY <1>1, <1>2, <1>7, <2>2 DEF Accepted, Past, TaskSet, Given
    <2>3. CASE t # s
        BY <1>2, <2>1, <2>3 DEF Accepted, Past, TaskSet, Given
    <2> QED BY <2>2, <2>3
<1> QED BY <1>11, <1>12, <1>13, <1>14, <1>15 DEF MarkInv, Marked

(* Before anything is asked for.                                            *)
LEMMA InitMarked ==
    ASSUME Init
    PROVE  MarkInv
<1>1. \A x \in Sides, s \in Sessions : task[x][s] = "none" /\ stream_id[x][s] = 0
    BY DEF Init, PerStream
<1>2. \A x \in Sides, i \in Ids : streams[x][i] = NoStream
    BY DEF Init
<1>3. \A x \in Sides : conn[x].at = "select"
    BY DEF Init
<1>4. ASSUME NEW x \in Sides PROVE Pipe(x) = <<>>
    <2>1. wire[x] = <<>> /\ mpsc[x] = <<>> /\ InHand(x) = <<>>
        BY <1>3 DEF Init, InHand
    <2> QED BY <2>1 DEF Pipe
<1>5. \A x \in Sides : Sole(x) /\ Marked(x)
    BY <1>4, SmallFacts DEF Sole, Marked
<1>6. \A x \in Sides, s \in Sessions : Born(x, s)
    BY <1>1, <1>3 DEF Born, Announcing
<1>7. \A x \in Sides, i \in Ids : Entered(x, i)
    BY <1>2 DEF Entered
<1>8. \A s \in Sessions : Accepted(s)
    BY <1>1, SideFacts DEF Accepted
<1> QED BY <1>5, <1>6, <1>7, <1>8 DEF MarkInv

(* Every step keeps the histories of the streams.                           *)
LEMMA NextMarks ==
    ASSUME TypeInv, MarkInv, [Next]_vars
    PROVE  MarkInv'
<1>1. CASE UNCHANGED vars \/ LinkLost
    BY <1>1, LostSteady, SteadyMarks
<1>2. ASSUME NEW s \in Sessions, Ask(s) PROVE MarkInv'
    BY <1>2, AskMarks
<1>3. ASSUME NEW x \in Sides, ConnOpen(x) \/ ConnAnnounce(x) \/ ConnAccept(x) PROVE MarkInv'
    BY <1>3, OpenMarks, AnnounceMarks, AcceptMarks
<1>4. ASSUME NEW x \in Sides,
             \/ ConnRoute(x) \/ ConnDeliver(x) \/ ConnClose(x)
             \/ ConnWrite(x) \/ ConnFlush(x) \/ ConnEnds(x)
      PROVE  MarkInv'
    <2>1. Steady
        BY <1>4, RouteSteady, HandOverSteady, CloseSteady, WriteSteady, EndSteady
    <2> QED BY <2>1, SteadyMarks
<1>5. ASSUME NEW x \in Sides, NEW s \in Sessions,
             \/ Request(x, s) \/ Reply(x, s) \/ Write(x, s) \/ Close(x, s)
             \/ Await(x, s) \/ Answer(x, s) \/ Read(x, s) \/ Turns(x, s)
      PROVE  MarkInv'
    <2>1. Steady
        BY <1>5, TasksSteady
    <2> QED BY <2>1, SteadyMarks
<1> QED BY <1>1, <1>2, <1>3, <1>4, <1>5, Steps
-----------------------------------------------------------------------------
(* What the other end of the raw connection will still get: everything on   *)
(* its way while the connection works, what was written once it has failed. *)

Sent(x) == IF link THEN Pipe(x) ELSE wire[x]

(* A step that neither reads nor writes the raw connection.                 *)
Untouched(y) ==
    /\ wire'[y] = wire[y] /\ link' = link
    /\ conn'[y] = conn[y] \/ (conn[y].at # "write" /\ conn'[y].at # "write")

(* Such a step changes only what is queued.                                 *)
LEMMA SentQueue ==
    ASSUME NEW y \in Sides, Untouched(y)
    PROVE  /\ link => Sent(y)' = Pipe(y)' /\ Sent(y) = Pipe(y)
           /\ ~link => Sent(y)' = Sent(y)
           /\ mpsc'[y] = mpsc[y] => Alike(Sent(y)', Sent(y))
<1>1. link => Sent(y)' = Pipe(y)' /\ Sent(y) = Pipe(y)
    BY DEF Sent, Untouched
<1>2. ~link => Sent(y)' = Sent(y)
    BY DEF Sent, Untouched
<1>3. mpsc'[y] = mpsc[y] => Sent(y)' = Sent(y)
    BY <1>1, <1>2, PipeSame DEF Untouched
<1>4. Sent(y)' = Sent(y) => Alike(Sent(y)', Sent(y))
    BY DEF Alike
<1> QED BY <1>1, <1>2, <1>3, <1>4

(* A frame is queued.                                                       *)
LEMMA SentQueued ==
    ASSUME TypeInv, NEW x \in Sides, NEW f, Queued(x, f), \A y \in Sides : Untouched(y)
    PROVE  /\ \A y \in Sides : y # x => Alike(Sent(y)', Sent(y))
           /\ link => Grows(Sent(x)', Sent(x), f)
           /\ ~link => Alike(Sent(x)', Sent(x))
<1>1. \A y \in Sides : y # x => Alike(Sent(y)', Sent(y))
    BY SentQueue DEF Queued
<1>2. Grows(Pipe(x)', Pipe(x), f)
    BY PipeQueued DEF Untouched
<1>3. link => Grows(Sent(x)', Sent(x), f)
    BY <1>2, SentQueue
<1>4. ~link => Alike(Sent(x)', Sent(x))
    BY SentQueue DEF Alike
<1> QED BY <1>1, <1>3, <1>4

(* A frame is taken from the channel.                                       *)
LEMMA SentTaken ==
    ASSUME TypeInv, NEW x \in Sides, Taken(x), \A y \in Sides : Untouched(y),
           conn[x].at # "write" /\ conn'[x].at # "write"
    PROVE  /\ \A y \in Sides : y # x => Alike(Sent(y)', Sent(y))
           /\ Alike(Sent(x)', Sent(x)) \/ Loses(Sent(x)', Sent(x), Head(mpsc[x]))
<1>1. \A y \in Sides : y # x => Alike(Sent(y)', Sent(y))
    BY SentQueue DEF Taken
<1>2. Loses(Pipe(x)', Pipe(x), Head(mpsc[x]))
    BY PipeTaken DEF Untouched
<1>3. link => Loses(Sent(x)', Sent(x), Head(mpsc[x]))
    BY <1>2, SentQueue
<1>4. ~link => Alike(Sent(x)', Sent(x))
    BY SentQueue DEF Alike
<1> QED BY <1>1, <1>3, <1>4

(* A frame is read by the other end.                                        *)
LEMMA SentRead ==
    ASSUME TypeInv, NEW x \in Sides, NEW z \in Sides, z = Other(x), ReadOff(z),
           UNCHANGED <<mpsc, link>>, conn'[z] = conn[z],
           conn'[x] = conn[x] \/ (conn[x].at # "write" /\ conn'[x].at # "write")
    PROVE  Beheaded(Sent(z)', Sent(z), Head(wire[z])) /\ Alike(Sent(x)', Sent(x))
<1>1. Beheaded(Pipe(z)', Pipe(z), Head(wire[z])) /\ Beheaded(wire'[z], wire[z], Head(wire[z]))
    BY PipeRead
<1>2. Beheaded(Sent(z)', Sent(z), Head(wire[z]))
    BY <1>1 DEF Sent
<1>3. Untouched(x) /\ mpsc'[x] = mpsc[x]
    BY SideFacts DEF Untouched, ReadOff
<1> QED BY <1>2, <1>3, SentQueue

(* A frame is written, or lost with the connection.                         *)
LEMMA SentWritten ==
    ASSUME TypeInv, NEW x \in Sides, ConnWrite(x) \/ ConnFlush(x)
    PROVE  \A y \in Sides : Alike(Sent(y)', Sent(y))
<1>1. /\ link' = link
      /\ \A y \in Sides : y # x => conn'[y] = conn[y] /\ wire'[y] = wire[y] /\ mpsc'[y] = mpsc[y]
    <2>1. CASE ConnWrite(x)
        BY <2>1, WriteEffect DEF TypeInv, Taken, Written, ConnSet
    <2>2. CASE ConnFlush(x)
        BY <2>2, FlushEffect DEF TypeInv, Written, ConnSet
    <2> QED BY <2>1, <2>2
<1>2. \A y \in Sides : y # x => Alike(Sent(y)', Sent(y))
    BY <1>1, SentQueue DEF Untouched
<1>3. CASE link
    <2>1. Alike(Pipe(x)', Pipe(x))
        BY <1>3, PipeWrite, PipeFlush
    <2> QED BY <1>1, <1>2, <1>3, <2>1 DEF Sent
<1>4. CASE ~link
    <2>1. wire'[x] = wire[x]
        BY <1>4, PipeWrite, PipeFlush
    <2>2. Sent(x)' = Sent(x)
        BY <1>1, <1>4, <2>1 DEF Sent
    <2> QED BY <1>2, <2>2 DEF Alike
<1> QED BY <1>3, <1>4

(* The connection fails: what was not written is lost.                      *)
LEMMA SentCut ==
    ASSUME TypeInv, link' = FALSE, UNCHANGED wire
    PROVE  \A y \in Sides : Front(Sent(y)', Sent(y))
<1> SUFFICES ASSUME NEW y \in Sides PROVE Front(Sent(y)', Sent(y))
    OBVIOUS
<1>1. /\ wire[y] \in Seq(Frames) /\ InHand(y) \in Seq(Frames) /\ mpsc[y] \in Seq(Frames)
      /\ Pipe(y) = wire[y] \o InHand(y) \o mpsc[y]
    BY QueuesTyped
<1>2. Front(wire[y], wire[y] \o InHand(y) \o mpsc[y])
    BY <1>1, OnlyFirstPart
<1>3. Front(wire[y], Pipe(y)) /\ Front(wire[y], wire[y])
    BY <1>1, <1>2 DEF Front, Fewer
<1> QED BY <1>3 DEF Sent

-----------------------------------------------------------------------------
(* No payload overtakes the frame that announces its stream. *)

\* the other end has a stream of that id
Known(x, i) == \E t \in Sessions : stream_id[Other(x)][t] = i

IsNews(h, i) == h.kind = "new" /\ h.id = i

\* whoever has the id of a stream to send under was announced, or will be
Voiced(x) == link => \A s \in Sessions : Past(x, s) =>
    \/ Known(x, stream_id[x][s])
    \/ \E h : Holds(Sent(x), h) /\ IsNews(h, stream_id[x][s])

Ahead(x) == \A g :
    Holds(Sent(x), g) /\ g.kind = "data" /\ ~Known(x, g.id) =>
        \E h : Holds(Sent(x), h) /\ IsNews(h, g.id) /\ ~Before(Sent(x), g, h)

VoiceInv == \A x \in Sides : Voiced(x) /\ Ahead(x)

(* A step that announces nothing, and numbers nothing.                      *)
Speaks(x, f) == /\ f.kind # "new"
                /\ f.kind = "data" => \E s \in Sessions : Past(x, s) /\ stream_id[x][s] = f.id
Calm ==
    /\ UNCHANGED stream_id
    /\ \A y \in Sides, t \in Sessions : Past(y, t)' <=> Past(y, t)
    /\ link' => link
    /\ \A y \in Sides :
           \/ Alike(Sent(y)', Sent(y))
           \/ \E f : f.kind # "new" /\ Loses(Sent(y)', Sent(y), f)
           \/ \E f : link /\ Speaks(y, f) /\ Grows(Sent(y)', Sent(y), f)
           \/ ~link' /\ Front(Sent(y)', Sent(y))

(* A calm step leaves every payload behind its announcement.                *)
LEMMA CalmVoices ==
    ASSUME VoiceInv, Calm
    PROVE  VoiceInv'
<1> SUFFICES ASSUME NEW x \in Sides PROVE Voiced(x)' /\ Ahead(x)'
    BY DEF VoiceInv
<1>1. Voiced(x) /\ Ahead(x)
    BY DEF VoiceInv
<1>2. \A i : Known(x, i)' <=> Known(x, i)
    BY DEF Calm, Known
<1>3. ASSUME NEW h, NEW i, Holds(Sent(x), h), IsNews(h, i), link'
      PROVE  Holds(Sent(x)', h)
    BY <1>3 DEF Calm, Alike, Loses, Grows, IsNews
<1>4. Voiced(x)'
    BY <1>1, <1>2, <1>3 DEF Voiced, Calm
<1>5. ASSUME NEW g, Holds(Sent(x)', g), g.kind = "data", ~Known(x, g.id)
      PROVE  \E h : Holds(Sent(x)', h) /\ IsNews(h, g.id) /\ ~Before(Sent(x)', g, h)
    <2>1. CASE Holds(Sent(x), g)
        <3>1. PICK h : Holds(Sent(x), h) /\ IsNews(h, g.id) /\ ~Before(Sent(x), g, h)
            BY <1>1, <1>5, <2>1 DEF Ahead
        <3>2. ~Before(Sent(x)', g, h)
            BY <3>1 DEF Calm, Alike, Loses, Front, Fewer, Grows, Speaks, IsNews
        <3>3. Holds(Sent(x)', h)
            BY <1>5, <3>1 DEF Calm, Alike, Loses, Grows, Front, IsNews
        <3> QED BY <3>1, <3>2, <3>3
    <2>2. CASE ~Holds(Sent(x), g)
        <3>1. link /\ Speaks(x, g) /\ Grows(Sent(x)', Sent(x), g)
            BY <1>5, <2>2 DEF Calm, Alike, Loses, Front, Fewer, Grows
        <3>2. PICK s \in Sessions : Past(x, s) /\ stream_id[x][s] = g.id
            BY <1>5, <3>1 DEF Speaks
        <3>3. PICK h : Holds(Sent(x), h) /\ IsNews(h, g.id)
            BY <1>1, <1>5, <3>1, <3>2 DEF Voiced
        <3>4. ~Before(Sent(x), g, h)
            BY <2>2 DEF Before, Holds
        <3>5. ~Before(Sent(x)', g, h) /\ Holds(Sent(x)', h)
            BY <2>2, <3>1, <3>3, <3>4 DEF Grows
        <3> QED BY <3>3, <3>5
    <2> QED BY <2>1, <2>2
<1>6. Ahead(x)'
    BY <1>2, <1>5 DEF Ahead
<1> QED BY <1>4, <1>6

(* The steps of the task of a stream are calm.                              *)
LEMMA TaskCalm ==
    ASSUME TypeInv, NEW x \in Sides, NEW s \in Sessions, UNCHANGED <<connVars, stream_id>>,
           Past(x, s), UNCHANGED task \/ \E l \in TaskLabels \ {"none", "asked"} : TaskSet(x, s, l),
           UNCHANGED mpsc \/ \E f \in Frames : Speaks(x, f) /\ Queued(x, f)
    PROVE  Calm
<1>1. \A y \in Sides, t \in Sessions : Past(y, t)' <=> Past(y, t)
    BY DEF TaskSet, Past
<1>2. \A y \in Sides : Untouched(y)
    BY DEF connVars, Untouched
<1>3. CASE UNCHANGED mpsc
    <2>1. \A y \in Sides : Alike(Sent(y)', Sent(y))
        BY <1>2, <1>3, SentQueue
    <2> QED BY <1>1, <2>1 DEF Calm, connVars
<1>4. CASE \E f \in Frames : Speaks(x, f) /\ Queued(x, f)
    <2>1. PICK f \in Frames : Speaks(x, f) /\ Queued(x, f)
        BY <1>4
    <2>2. /\ \A y \in Sides : y # x => Alike(Sent(y)', Sent(y))
          /\ link => Grows(Sent(x)', Sent(x), f)
          /\ ~link => Alike(Sent(x)', Sent(x))
        BY <1>2, <2>1, SentQueued
    <2> QED BY <1>1, <2>1, <2>2 DEF Calm, connVars
<1> QED BY <1>3, <1>4

(* As above, action by action.                                              *)
LEMMA TasksCalm ==
    ASSUME TypeInv, NEW x \in Sides, NEW s \in Sessions,
           \/ Request(x, s) \/ Reply(x, s) \/ Write(x, s) \/ Close(x, s)
           \/ Await(x, s) \/ Answer(x, s) \/ Read(x, s) \/ Turns(x, s)
    PROVE  Calm
<1>1. {"await", "read", "reply", "write", "close", "done", "panic"}
          \subseteq TaskLabels \ {"none", "asked"}
    BY DEF TaskLabels
<1>2. ASSUME NEW f, Queued(x, f) PROVE f \in Frames
    BY <1>2 DEF Queued
<1>3. ASSUME NEW p, Past(x, s) PROVE Speaks(x, DataFrame(stream_id[x][s], p))
    BY <1>3, MadeFacts DEF Speaks
<1>4. CASE Request(x, s)
    BY <1>1, <1>2, <1>3, <1>4, RequestEffect, TaskCalm DEF TypeInv, Past
<1>5. CASE Reply(x, s)
    BY <1>1, <1>2, <1>3, <1>5, ReplyEffect, TaskCalm DEF TypeInv, Past
<1>6. CASE Write(x, s)
    BY <1>1, <1>2, <1>3, <1>6, SayEffect, TaskCalm DEF TypeInv, Past
<1>7. CASE Close(x, s)
    <2>1. /\ task[x][s] = "close" /\ stream_id[x][s] \in Ids
          /\ Queued(x, CloseFrame(stream_id[x][s])) /\ TaskSet(x, s, "done")
          /\ UNCHANGED <<connVars, stream_id>>
        BY <1>7, ShutEffect DEF TypeInv
    <2>2. Speaks(x, CloseFrame(stream_id[x][s]))
        BY <2>1, MadeFacts DEF Speaks
    <2> QED BY <1>1, <1>2, <2>1, <2>2, TaskCalm DEF Past
<1>8. CASE Await(x, s)
    BY <1>1, <1>8, AwaitEffect, TaskCalm DEF TypeInv, Past
<1>9. CASE Answer(x, s)
    BY <1>1, <1>9, AnswerEffect, TaskCalm DEF TypeInv, Past
<1>10. CASE Read(x, s)
    BY <1>10, ReadEffect, TaskCalm DEF TypeInv, Past
<1>11. CASE Turns(x, s)
    BY <1>1, <1>11, TurnEffect, TaskCalm DEF TypeInv, Past, Listens
<1> QED BY <1>4, <1>5, <1>6, <1>7, <1>8, <1>9, <1>10, <1>11

(* The swarm asks for a stream.                                             *)
LEMMA AskCalm ==
    ASSUME TypeInv, NEW s \in Sessions, Ask(s)
    PROVE  Calm
<1> DEFINE x == Opener[s]
<1>1. x \in Sides
    BY SideFacts
<1>2. /\ task[x][s] = "none" /\ Queued(x, AskFrame(s)) /\ TaskSet(x, s, "asked")
      /\ UNCHANGED <<conn, wire, link, stream_id>>
    BY <1>1, AskEffect DEF TypeInv, connVars
<1>3. Speaks(x, AskFrame(s))
    BY MadeFacts DEF Speaks
<1> HIDE DEF x
<1>4. \A y \in Sides : Untouched(y)
    BY <1>2 DEF Untouched
<1>5. /\ \A y \in Sides : y # x => Alike(Sent(y)', Sent(y))
      /\ link => Grows(Sent(x)', Sent(x), AskFrame(s))
      /\ ~link => Alike(Sent(x)', Sent(x))
    BY <1>1, <1>2, <1>4, SentQueued
<1>6. \A y \in Sides, t \in Sessions : Past(y, t)' <=> Past(y, t)
    BY <1>2 DEF Past, TaskSet
<1> QED BY <1>2, <1>3, <1>5, <1>6 DEF Calm

(* A step of a connection task that takes, reads or writes what is no news. *)
LEMMA ConnCalm ==
    ASSUME UNCHANGED <<task, stream_id>>, link' => link,
           \A y \in Sides :
               \/ Alike(Sent(y)', Sent(y))
               \/ \E f : f.kind # "new" /\ Loses(Sent(y)', Sent(y), f)
               \/ ~link' /\ Front(Sent(y)', Sent(y))
    PROVE  Calm
BY DEF Calm, Past

(* As above, action by action.                                              *)
LEMMA RouteCalm ==
    ASSUME TypeInv, NEW x \in Sides, ConnRoute(x)
    PROVE  Calm
<1> DEFINE z == Other(x)
           f == Head(wire[z])
<1>1. /\ conn[x].at = "select" /\ ReadOff(z) /\ f \in Datas
      /\ UNCHANGED conn \/ ConnSet(x, "deliver", f)
      /\ UNCHANGED <<mpsc, link, task, stream_id>>
    BY RouteEffect, SideFacts DEF TypeInv
<1>2. z \in Sides /\ z # x /\ \A y \in Sides : y = x \/ y = z
    BY SideFacts
<1>3. f.kind # "new"
    BY <1>1, FrameFacts
<1>4. conn'[z] = conn[z] /\ (conn'[x] = conn[x] \/ conn'[x].at = "deliver")
    BY <1>1, <1>2 DEF ConnSet
<1>5. Beheaded(Sent(z)', Sent(z), f) /\ Alike(Sent(x)', Sent(x))
    BY <1>1, <1>2, <1>4, SentRead
<1> QED BY <1>1, <1>2, <1>3, <1>5, ConnCalm DEF Beheaded

(* As above.                                                                *)
LEMMA HandOverCalm ==
    ASSUME TypeInv, NEW x \in Sides, ConnDeliver(x)
    PROVE  Calm
<1>1. /\ conn[x].at = "deliver" /\ ConnSet(x, "select", NoFrame)
      /\ UNCHANGED <<mpsc, wire, link, task, stream_id>>
    BY HandOverEffect DEF TypeInv
<1>2. \A y \in Sides : Untouched(y)
    BY <1>1 DEF ConnSet, Untouched
<1>3. \A y \in Sides : Alike(Sent(y)', Sent(y))
    BY <1>1, <1>2, SentQueue
<1> QED BY <1>1, <1>3, ConnCalm

(* As above.                                                                *)
LEMMA CloseCalm ==
    ASSUME TypeInv, NEW x \in Sides, ConnClose(x)
    PROVE  Calm
<1> DEFINE f == Head(mpsc[x])
<1>1. /\ conn[x].at = "select" /\ Taken(x) /\ f \in Closes
      /\ UNCHANGED <<conn, wire, link, task, stream_id>>
    BY CloseEffect DEF TypeInv, taskVars
<1>2. f.kind # "new"
    BY <1>1, FrameFacts
<1>3. \A y \in Sides : Untouched(y)
    BY <1>1 DEF Untouched
<1>4. /\ \A y \in Sides : y # x => Alike(Sent(y)', Sent(y))
      /\ Alike(Sent(x)', Sent(x)) \/ Loses(Sent(x)', Sent(x), f)
    BY <1>1, <1>3, SentTaken
<1> QED BY <1>1, <1>2, <1>4, ConnCalm

(* As above.                                                                *)
LEMMA WriteCalm ==
    ASSUME TypeInv, NEW x \in Sides, ConnWrite(x) \/ ConnFlush(x)
    PROVE  Calm
<1>1. UNCHANGED <<link, task, stream_id>>
    BY DEF ConnWrite, ConnFlush, taskVars
<1> QED BY <1>1, SentWritten, ConnCalm

(* As above.                                                                *)
LEMMA EndCalm ==
    ASSUME TypeInv, (\E x \in Sides : ConnEnds(x)) \/ LinkLost
    PROVE  Calm
<1>1. link' = FALSE /\ UNCHANGED <<wire, task, stream_id>>
    BY DEF ConnEnds, ConnEof, ConnWritePanic, ConnRoutePanic, Ends, LinkLost, taskVars
<1> QED BY <1>1, SentCut, ConnCalm

(* As above.                                                                *)
LEMMA StutterCalm ==
    ASSUME UNCHANGED vars
    PROVE  Calm
<1>1. \A y \in Sides : Untouched(y)
    BY DEF vars, Untouched
<1>2. \A y \in Sides : Alike(Sent(y)', Sent(y))
    BY <1>1, SentQueue DEF vars
<1> QED BY <1>2, ConnCalm DEF vars

(* What is sent are frames.                                                 *)
LEMMA SentTyped ==
    ASSUME TypeInv, NEW x \in Sides
    PROVE  Sent(x) \in Seq(Frames) /\ \A g : Holds(Sent(x), g) => g \in Frames /\ Holds(Pipe(x), g)
<1>1. /\ wire[x] \in Seq(Frames) /\ InHand(x) \in Seq(Frames) /\ mpsc[x] \in Seq(Frames)
      /\ Pipe(x) = wire[x] \o InHand(x) \o mpsc[x]
      /\ \A g : Holds(Pipe(x), g) => g \in Frames
      /\ \A g : Holds(wire[x], g) => Holds(Pipe(x), g)
    BY QueuesTyped
<1>2. Pipe(x) \in Seq(Frames)
    BY <1>1, ThreeParts
<1> QED BY <1>1, <1>2 DEF Sent

(* An id once known stays so: only a stream that has none is given one.     *)
LEMMA StillKnown ==
    ASSUME TypeInv, NEW x \in Sides, NEW z \in Sides, NEW s \in Sessions,
           stream_id[z][s] = 0,
           \A y \in Sides, t \in Sessions :
               y # z \/ t # s => stream_id'[y][t] = stream_id[y][t]
    PROVE  \A j \in Ids : Known(x, j) => Known(x, j)'
<1> SUFFICES ASSUME NEW j \in Ids, NEW t \in Sessions, stream_id[Other(x)][t] = j
             PROVE  Known(x, j)'
    BY DEF Known
<1>1. j # 0 /\ Other(x) \in Sides
    BY SideFacts
<1>2. stream_id'[Other(x)][t] = j
    BY <1>1
<1> QED BY <1>2 DEF Known

(* What is on its way keeps its announcement, or its id becomes known.      *)
LEMMA SpecialVoices ==
    ASSUME TypeInv, VoiceInv, NEW x \in Sides,
           \A j \in Ids : Known(x, j) => Known(x, j)',
           \A h : Holds(Sent(x), h) /\ h.kind = "new" =>
               Holds(Sent(x)', h) \/ Known(x, h.id)',
           \A g : Holds(Sent(x)', g) /\ g.kind = "data" => Holds(Sent(x), g),
           \A g, h : Before(Sent(x)', g, h) /\ g.kind = "data" =>
               Before(Sent(x), g, h) \/ ~Holds(Sent(x), h)
    PROVE  /\ Ahead(x)'
           /\ link => \A s \in Sessions, i \in Ids : Past(x, s) /\ stream_id[x][s] = i =>
                  Known(x, i)' \/ \E h : Holds(Sent(x)', h) /\ IsNews(h, i)
<1>1. Voiced(x) /\ Ahead(x)
    BY DEF VoiceInv
<1>2. ASSUME link, NEW s \in Sessions, NEW i \in Ids, Past(x, s), stream_id[x][s] = i
      PROVE  Known(x, i)' \/ \E h : Holds(Sent(x)', h) /\ IsNews(h, i)
    <2>1. Known(x, i) \/ \E h : Holds(Sent(x), h) /\ IsNews(h, i)
        BY <1>1, <1>2 DEF Voiced
    <2> QED BY <1>2, <2>1 DEF IsNews
<1>3. ASSUME NEW g, Holds(Sent(x)', g), g.kind = "data"
      PROVE  \/ Known(x, g.id)'
             \/ \E h : Holds(Sent(x)', h) /\ IsNews(h, g.id) /\ ~Before(Sent(x)', g, h)
    <2>1. Holds(Sent(x), g)
        BY <1>3
    <2>2. g.id \in Ids
        BY <1>3, <2>1, SentTyped, FrameFacts
    <2>3. CASE Known(x, g.id)
        BY <2>2, <2>3
    <2>4. CASE ~Known(x, g.id)
        <3>1. PICK h : Holds(Sent(x), h) /\ IsNews(h, g.id) /\ ~Before(Sent(x), g, h)
            BY <1>1, <1>3, <2>1, <2>4 DEF Ahead
        <3>2. ~Before(Sent(x)', g, h)
            BY <1>3, <3>1
        <3> QED BY <3>1, <3>2 DEF IsNews
    <2> QED BY <2>3, <2>4
<1> QED BY <1>2, <1>3 DEF Ahead

(* A stream asked for gets its id.                                          *)
LEMMA OpenVoices ==
    ASSUME TypeInv, MarkInv, VoiceInv, NEW x \in Sides, ConnOpen(x)
    PROVE  VoiceInv'
<1> DEFINE f == Head(mpsc[x])
           s == f.stream
           i == NextId(x)
<1>1. /\ conn[x].at = "select" /\ Taken(x) /\ f \in Asks /\ s \in Sessions
      /\ Given(x, s, i) /\ ConnSet(x, "announce", NewFrame(i, s))
      /\ UNCHANGED <<wire, link, task>>
    BY OpenEffect DEF TypeInv
<1> HIDE DEF i
<1>2. f.kind = "ask" /\ i \in Ids
    BY <1>1, FrameFacts DEF Given
<1>3. Loses(Pipe(x)', Pipe(x), f)
    BY <1>1, PipeTaken DEF ConnSet
<1>4. task[x][s] = "asked" /\ stream_id[x][s] = 0
    BY <1>2, <1>3 DEF MarkInv, Marked, MarkOf, Loses
<1>5. /\ \A y \in Sides : y # x => Alike(Sent(y)', Sent(y))
      /\ Alike(Sent(x)', Sent(x)) \/ Loses(Sent(x)', Sent(x), f)
    <2>1. /\ conn[x].at # "write" /\ conn'[x].at # "write"
          /\ \A y \in Sides : Untouched(y)
        BY <1>1 DEF ConnSet, Untouched
    <2> QED BY <1>1, <2>1, SentTaken
<1> HIDE DEF f, s
<1>6. ASSUME NEW y \in Sides, NEW j \in Ids, Known(y, j) PROVE Known(y, j)'
    BY <1>1, <1>2, <1>4, <1>6, StillKnown DEF Given
<1> SUFFICES ASSUME NEW y \in Sides PROVE Voiced(y)' /\ Ahead(y)'
    BY DEF VoiceInv
<1>7. link' = link
    BY <1>1
<1>8. \A h : Holds(Sent(y), h) /\ h.kind = "new" => Holds(Sent(y)', h)
    BY <1>2, <1>5 DEF Loses, Alike
<1>9. /\ \A g : Holds(Sent(y)', g) => Holds(Sent(y), g)
      /\ \A g, h : Before(Sent(y)', g, h) => Before(Sent(y), g, h)
    BY <1>5 DEF Loses, Fewer, Alike
<1>10. /\ Ahead(y)'
       /\ link => \A t \in Sessions, j \in Ids : Past(y, t) /\ stream_id[y][t] = j =>
              Known(y, j)' \/ \E h : Holds(Sent(y)', h) /\ IsNews(h, j)
    BY <1>6, <1>8, <1>9, SpecialVoices
<1>11. \A t \in Sessions : Past(y, t)' =>
           Past(y, t) /\ stream_id'[y][t] = stream_id[y][t] /\ stream_id[y][t] \in Ids
    BY <1>1, <1>4 DEF Past, Given, TypeInv, Equipped
<1>12. Voiced(y)'
    BY <1>7, <1>10, <1>11 DEF Voiced
<1> QED BY <1>10, <1>12

(* The stream is announced.                                                 *)
LEMMA AnnounceVoices ==
    ASSUME TypeInv, MarkInv, VoiceInv, NEW x \in Sides, ConnAnnounce(x)
    PROVE  VoiceInv'
<1> DEFINE f == conn[x].frame
           s == f.stream
<1>1. /\ conn[x].at = "announce" /\ f \in News /\ s \in Sessions
      /\ Queued(x, f) /\ TaskSet(x, s, "request") /\ ConnSet(x, "select", NoFrame)
      /\ UNCHANGED <<wire, link, stream_id>>
    BY AnnounceEffect DEF TypeInv
<1>2. f.kind = "new" /\ stream_id[x][s] = f.id
    BY <1>1, FrameFacts DEF TypeInv, Numbered
<1>3. link' = link
    BY <1>1
<1>4. /\ \A y \in Sides : y # x => Alike(Sent(y)', Sent(y))
      /\ link => Grows(Sent(x)', Sent(x), f)
      /\ ~link => Alike(Sent(x)', Sent(x))
    <2>1. \A y \in Sides : Untouched(y)
        BY <1>1 DEF ConnSet, Untouched
    <2> QED BY <1>1, <2>1, SentQueued
<1>5. task[x][s] = "asked"
    BY <1>1 DEF MarkInv, Born, Announcing
<1>6. ~Holds(Sent(x), f)
    BY <1>2, <1>5, SentTyped DEF MarkInv, Marked, MarkOf, Past
<1> HIDE DEF f, s
<1>7. \A y, j : Known(y, j) <=> Known(y, j)'
    BY <1>1 DEF Known
<1> SUFFICES ASSUME NEW y \in Sides PROVE Voiced(y)' /\ Ahead(y)'
    BY DEF VoiceInv
<1>8. Alike(Sent(y)', Sent(y)) \/ (y = x /\ Grows(Sent(x)', Sent(x), f))
    BY <1>4
<1>9. /\ \A h : Holds(Sent(y), h) => Holds(Sent(y)', h)
      /\ \A g : Holds(Sent(y)', g) /\ g.kind = "data" => Holds(Sent(y), g)
      /\ \A g, h : Before(Sent(y)', g, h) => Before(Sent(y), g, h) \/ ~Holds(Sent(y), h)
    BY <1>2, <1>6, <1>8 DEF Grows, Alike
<1>10. /\ Ahead(y)'
       /\ link => \A t \in Sessions, j \in Ids : Past(y, t) /\ stream_id[y][t] = j =>
              Known(y, j)' \/ \E h : Holds(Sent(y)', h) /\ IsNews(h, j)
    BY <1>7, <1>9, SpecialVoices
<1>11. Voiced(y)'
    <2> SUFFICES ASSUME link', NEW t \in Sessions, NEW j, Past(y, t)', stream_id[y][t] = j
                 PROVE  Known(y, j)' \/ \E h : Holds(Sent(y)', h) /\ IsNews(h, j)
        BY <1>1 DEF Voiced
    <2>1. CASE y = x /\ t = s
        BY <1>2, <1>3, <1>4, <2>1 DEF Grows, IsNews
    <2>2. CASE y # x \/ t # s
        <3>1. Past(y, t) /\ j \in Ids
            BY <1>1, <2>2 DEF Past, TaskSet, TypeInv, Equipped
        <3> QED BY <1>3, <1>10, <3>1
    <2> QED BY <2>1, <2>2
<1> QED BY <1>10, <1>11

(* The other end takes the stream.                                          *)
LEMMA AcceptVoices ==
    ASSUME TypeInv, MarkInv, VoiceInv, NEW x \in Sides, ConnAccept(x)
    PROVE  VoiceInv'
<1> DEFINE z == Other(x)
           f == Head(wire[z])
           s == f.stream
           i == f.id
<1>1. z \in Sides /\ z # x /\ Other(z) = x /\ \A y \in Sides : y = x \/ y = z
    BY SideFacts
<1>2. /\ conn[x].at = "select" /\ ReadOff(z) /\ f \in News /\ s \in Sessions /\ i \in Ids
      /\ Given(x, s, i) /\ TaskSet(x, s, "answer")
      /\ UNCHANGED <<conn, mpsc, link>>
    BY <1>1, AcceptEffect DEF TypeInv
<1>3. f.kind = "new"
    BY <1>2, FrameFacts
<1> HIDE DEF z
<1>4. Beheaded(Pipe(z)', Pipe(z), f)
    BY <1>1, <1>2, PipeRead
<1>5. Beheaded(Sent(z)', Sent(z), f) /\ Alike(Sent(x)', Sent(x))
    BY <1>1, <1>2, SentRead DEF z
<1>6. stream_id[z][s] = i /\ task[x][s] = "none"
    BY <1>1, <1>3, <1>4 DEF MarkInv, Marked, MarkOf, Beheaded, Loses
<1> HIDE DEF f, s, i
<1>7. stream_id[x][s] = 0
    BY <1>2, <1>6 DEF MarkInv, Born
<1>8. ASSUME NEW y \in Sides, NEW j \in Ids, Known(y, j) PROVE Known(y, j)'
    BY <1>2, <1>7, <1>8, StillKnown DEF Given
<1>9. \A j : j = i => Known(z, j)' /\ Known(x, j)'
    BY <1>1, <1>2, <1>6 DEF Known, Given, z
<1> SUFFICES ASSUME NEW y \in Sides PROVE Voiced(y)' /\ Ahead(y)'
    BY DEF VoiceInv
<1>10. link' = link
    BY <1>2
<1>11. /\ \A h : Holds(Sent(y), h) => Holds(Sent(y)', h) \/ (y = z /\ h.id = i)
       /\ \A g : Holds(Sent(y)', g) => Holds(Sent(y), g)
       /\ \A g, h : Before(Sent(y)', g, h) => Before(Sent(y), g, h)
    BY <1>1, <1>5 DEF Beheaded, Loses, Fewer, Alike, i
<1>12. /\ Ahead(y)'
       /\ link => \A t \in Sessions, j \in Ids : Past(y, t) /\ stream_id[y][t] = j =>
              Known(y, j)' \/ \E h : Holds(Sent(y)', h) /\ IsNews(h, j)
    BY <1>8, <1>9, <1>11, SpecialVoices
<1>13. Voiced(y)'
    <2> SUFFICES ASSUME link', NEW t \in Sessions, NEW j, Past(y, t)', stream_id'[y][t] = j
                 PROVE  Known(y, j)' \/ \E h : Holds(Sent(y)', h) /\ IsNews(h, j)
        BY DEF Voiced
    <2>1. CASE y = x /\ t = s
        BY <1>2, <1>9, <2>1 DEF Given
    <2>2. CASE y # x \/ t # s
        <3>1. Past(y, t) /\ stream_id[y][t] = j /\ j \in Ids
            BY <1>2, <2>2 DEF Past, TaskSet, Given, TypeInv, Equipped
        <3> QED BY <1>10, <1>12, <3>1
    <2> QED BY <2>1, <2>2
<1> QED BY <1>12, <1>13

(* Before anything is sent.                                                 *)
LEMMA InitVoiced ==
    ASSUME Init
    PROVE  VoiceInv
<1>1. \A x \in Sides, s \in Sessions : ~Past(x, s)
    BY DEF Init, PerStream, Past
<1>2. ASSUME NEW x \in Sides PROVE Pipe(x) = <<>>
    <2>1. wire[x] = <<>> /\ mpsc[x] = <<>> /\ InHand(x) = <<>>
        BY DEF Init, InHand
    <2> QED BY <2>1 DEF Pipe
<1>3. \A x \in Sides : Ahead(x)
    BY <1>2, SmallFacts DEF Ahead, Sent, Init
<1> QED BY <1>1, <1>3 DEF VoiceInv, Voiced

(* Every step leaves every payload behind its announcement.                 *)
LEMMA NextVoices ==
    ASSUME TypeInv, MarkInv, VoiceInv, [Next]_vars
    PROVE  VoiceInv'
<1>1. CASE UNCHANGED vars \/ LinkLost
    BY <1>1, StutterCalm, EndCalm, CalmVoices
<1>2. ASSUME NEW s \in Sessions, Ask(s) PROVE VoiceInv'
    BY <1>2, AskCalm, CalmVoices
<1>3. ASSUME NEW x \in Sides, ConnOpen(x) \/ ConnAnnounce(x) \/ ConnAccept(x) PROVE VoiceInv'
    BY <1>3, OpenVoices, AnnounceVoices, AcceptVoices
<1>4. ASSUME NEW x \in Sides,
             \/ ConnRoute(x) \/ ConnDeliver(x) \/ ConnClose(x)
             \/ ConnWrite(x) \/ ConnFlush(x) \/ ConnEnds(x)
      PROVE  VoiceInv'
    <2>1. Calm
        BY <1>4, RouteCalm, HandOverCalm, CloseCalm, WriteCalm, EndCalm
    <2> QED BY <2>1, CalmVoices
<1>5. ASSUME NEW x \in Sides, NEW s \in Sessions,
             \/ Request(x, s) \/ Reply(x, s) \/ Write(x, s) \/ Close(x, s)
             \/ Await(x, s) \/ Answer(x, s) \/ Read(x, s) \/ Turns(x, s)
      PROVE  VoiceInv'
    <2>1. Calm
        BY <1>5, TasksCalm
    <2> QED BY <2>1, CalmVoices
<1> QED BY <1>1, <1>2, <1>3, <1>4, <1>5, Steps

(* What is behind its announcement was announced first.                     *)
LEMMA VoicedFirst ==
    ASSUME TypeInv, VoiceInv
    PROVE  AnnouncedFirst
<1> SUFFICES ASSUME link, NEW x \in Sides, NEW k \in DOMAIN Pipe(x), Pipe(x)[k].kind = "data"
             PROVE  \/ \E s \in Sessions : stream_id[Other(x)][s] = Pipe(x)[k].id
                    \/ \E j \in 1..(k - 1) : /\ Pipe(x)[j].kind = "new"
                                             /\ Pipe(x)[j].id = Pipe(x)[k].id
    BY DEF AnnouncedFirst
<1> DEFINE L == Pipe(x)
<1>1. L \in Seq(Frames)
    <2>1. /\ wire[x] \in Seq(Frames) /\ InHand(x) \in Seq(Frames) /\ mpsc[x] \in Seq(Frames)
          /\ L = wire[x] \o InHand(x) \o mpsc[x]
        BY QueuesTyped
    <2> HIDE DEF L
    <2> QED BY <2>1
<1>2. Holds(L, L[k]) /\ Ahead(x) /\ L = Sent(x)
    BY DEF Holds, VoiceInv, Sent
<1>3. CASE Known(x, L[k].id)
    BY <1>3 DEF Known
<1>4. CASE ~Known(x, L[k].id)
    <2>1. PICK h : Holds(L, h) /\ IsNews(h, L[k].id) /\ ~Before(L, L[k], h)
        BY <1>2, <1>4 DEF Ahead
    <2> HIDE DEF L
    <2>2. PICK j \in DOMAIN L : L[j] = h
        BY <2>1 DEF Holds
    <2>3. j # k /\ ~(k < j)
        BY <2>1, <2>2 DEF IsNews, Before, L
    <2>4. DOMAIN L = 1..Len(L) /\ Len(L) \in Nat
        BY <1>1
    <2>5. k \in DOMAIN L
        BY DEF L
    <2>6. j \in 1..(k - 1)
        BY <2>2, <2>3, <2>4, <2>5
    <2> QED BY <2>1, <2>2, <2>6 DEF IsNews, L
<1> QED BY <1>3, <1>4

(* No payload overtakes the frame that announces its stream: the frame of a  *)
(* new stream is in the channel of the connection before the stream's task    *)
(* is spawned, and every queue after it keeps the order (the send before the  *)
(* spawn in the NewStream arm of conn_handler).                               *)
THEOREM PayloadsFollowTheirStream == Spec => []AnnouncedFirst
<1> DEFINE Inv == TypeInv /\ MarkInv /\ VoiceInv
<1>1. Init => Inv
    BY InitTyped, InitMarked, InitVoiced
<1>2. Inv /\ [Next]_vars => Inv'
    BY NextTyped, NextMarks, NextVoices
<1>3. Inv => AnnouncedFirst
    BY VoicedFirst
<1> QED BY <1>1, <1>2, <1>3, PTL DEF Spec
-----------------------------------------------------------------------------
(* What ends a connection task. *)

Over(x, s) == task[x][s] \in {"done", "panic"}

\* a stream whose CloseStream was handled is not registered any more
Forgotten(x) == \A s \in removed[x] : ~Attached(x, s) /\ Past(x, s)

\* the raw connection fails by itself, or with one of its ends
LostBy == ~link => Breakable \/ \E x \in Sides : ~Up(x)

Excused(x) == conn[x].at = "panic" =>
    \/ conn[x].frame = NoFrame /\ (Breakable \/ ~Up(Other(x)))
    \/ \E s \in Sessions : stream_id[x][s] = conn[x].frame.id /\ Over(x, s) /\ s \notin removed[x]

EndInv == LostBy /\ \A x \in Sides : Forgotten(x) /\ Excused(x)

(* A step that ends no connection task and handles no CloseStream.          *)
Lasting(y) ==
    /\ conn'[y] = conn[y] \/ (Up(y) /\ conn'[y].at \notin {"closed", "panic"})
    /\ \A i \in Ids : \/ streams'[y][i] \in {streams[y][i], NoStream}
                      \/ ~Past(y, streams'[y][i])
    /\ \A t \in Sessions : Past(y, t) =>
           /\ stream_id'[y][t] = stream_id[y][t] /\ Past(y, t)'
           /\ Over(y, t) => Over(y, t)'
    /\ removed'[y] = removed[y]

(* Such a step keeps the reasons.                                           *)
LEMMA LastingEnds ==
    ASSUME TypeInv, EndInv, link' = link, \A y \in Sides : Lasting(y)
    PROVE  EndInv'
<1>1. \A y \in Sides : Up(y)' <=> Up(y)
    BY DEF Lasting, Up
<1>2. LostBy'
    BY <1>1 DEF EndInv, LostBy
<1>3. ASSUME NEW x \in Sides PROVE Forgotten(x)'
    <2> SUFFICES ASSUME NEW s \in removed'[x] PROVE ~Attached(x, s)' /\ Past(x, s)'
        BY DEF Forgotten
    <2>1. removed'[x] = removed[x] /\ removed[x] \subseteq Sessions /\ Forgotten(x)
        BY TypeParts DEF Lasting, TypeInv, RemovedT, EndInv
    <2>2. s \in Sessions /\ ~Attached(x, s) /\ Past(x, s) /\ s # NoStream
        BY <2>1, SideFacts DEF Forgotten
    <2>3. \A i \in Ids : streams'[x][i] # s
        BY <2>2 DEF Lasting, Attached
    <2>4. Past(x, s)'
        BY <2>2 DEF Lasting
    <2> QED BY <2>3, <2>4 DEF Attached
<1>4. ASSUME NEW x \in Sides PROVE Excused(x)'
    <2> SUFFICES ASSUME conn'[x].at = "panic" PROVE Excused(x)'
        BY DEF Excused
    <2>1. conn'[x] = conn[x] /\ Excused(x) /\ Other(x) \in Sides
        BY SideFacts DEF Lasting, EndInv
    <2>2. CASE conn[x].frame = NoFrame /\ (Breakable \/ ~Up(Other(x)))
        <3>1. ~Up(Other(x)) => ~Up(Other(x))'
            BY <1>1, <2>1
        <3> QED BY <2>1, <2>2, <3>1 DEF Excused
    <2>3. CASE \E s \in Sessions : /\ stream_id[x][s] = conn[x].frame.id
                                   /\ Over(x, s) /\ s \notin removed[x]
        <3>1. PICK s \in Sessions : /\ stream_id[x][s] = conn[x].frame.id
                                    /\ Over(x, s) /\ s \notin removed[x]
            BY <2>3
        <3>2. stream_id'[x][s] = conn[x].frame.id /\ Over(x, s)' /\ s \notin removed'[x]
            BY <3>1 DEF Lasting, Over, Past
        <3> QED BY <2>1, <3>2 DEF Excused
    <2> QED BY <2>1, <2>2, <2>3 DEF Excused
<1> QED BY <1>2, <1>3, <1>4 DEF EndInv

(* The steps of the task of a stream: once over, it stays so.               *)
LEMMA TaskLasts ==
    ASSUME TypeInv, NEW x \in Sides, NEW s \in Sessions,
           UNCHANGED <<connVars, stream_id, removed>>, Past(x, s), ~Over(x, s),
           UNCHANGED task \/ \E l \in TaskLabels \ {"none", "asked"} : TaskSet(x, s, l)
    PROVE  link' = link /\ \A y \in Sides : Lasting(y)
<1>1. ASSUME NEW y \in Sides, NEW t \in Sessions, Past(y, t)
      PROVE  Past(y, t)' /\ (Over(y, t) => Over(y, t)')
    BY <1>1 DEF TaskSet, Past, Over
<1> QED BY <1>1 DEF Lasting, connVars

(* As above, action by action.                                              *)
LEMMA TasksLast ==
    ASSUME TypeInv, NEW x \in Sides, NEW s \in Sessions,
           \/ Request(x, s) \/ Reply(x, s) \/ Write(x, s) \/ Close(x, s)
           \/ Await(x, s) \/ Answer(x, s) \/ Read(x, s) \/ Turns(x, s)
    PROVE  link' = link /\ \A y \in Sides : Lasting(y)
<1>1. {"await", "read", "reply", "write", "close", "done", "panic"}
          \subseteq TaskLabels \ {"none", "asked"}
    BY DEF TaskLabels
<1>2. CASE Request(x, s)
    BY <1>1, <1>2, RequestEffect, TaskLasts DEF TypeInv, Past, Over, history
<1>3. CASE Reply(x, s)
    BY <1>1, <1>3, ReplyEffect, TaskLasts DEF TypeInv, Past, Over, history
<1>4. CASE Write(x, s)
    BY <1>1, <1>4, SayEffect, TaskLasts DEF TypeInv, Past, Over
<1>5. CASE Close(x, s)
    BY <1>1, <1>5, ShutEffect, TaskLasts DEF TypeInv, Past, Over, history
<1>6. CASE Await(x, s)
    BY <1>1, <1>6, AwaitEffect, TaskLasts DEF TypeInv, Past, Over
<1>7. CASE Answer(x, s)
    BY <1>1, <1>7, AnswerEffect, TaskLasts DEF TypeInv, Past, Over
<1>8. CASE Read(x, s)
    BY <1>8, ReadEffect, TaskLasts DEF TypeInv, Past, Over
<1>9. CASE Turns(x, s)
    BY <1>1, <1>9, TurnEffect, TaskLasts DEF TypeInv, Past, Over, Listens, history
<1> QED BY <1>2, <1>3, <1>4, <1>5, <1>6, <1>7, <1>8, <1>9

(* The swarm asks for a stream.                                             *)
LEMMA AskLasts ==
    ASSUME TypeInv, NEW s \in Sessions, Ask(s)
    PROVE  link' = link /\ \A y \in Sides : Lasting(y)
<1>1. Opener[s] \in Sides
    BY SideFacts
<1>2. /\ task[Opener[s]][s] = "none" /\ TaskSet(Opener[s], s, "asked")
      /\ UNCHANGED <<conn, streams, link, stream_id, removed>>
    BY <1>1, AskEffect DEF TypeInv, connVars, history
<1>3. ASSUME NEW y \in Sides, NEW t \in Sessions, Past(y, t)
      PROVE  task'[y][t] = task[y][t]
    BY <1>2, <1>3 DEF TaskSet, Past
<1> QED BY <1>2, <1>3 DEF Lasting, Past, Over

(* A stream gets an id, or its task, before that task runs.                 *)
LEMMA BirthLasts ==
    ASSUME TypeInv, NEW x \in Sides, NEW s \in Sessions, ~Past(x, s),
           \A y \in Sides : conn'[y] = conn[y]
                              \/ (Up(y) /\ conn'[y].at \notin {"closed", "panic"}),
           UNCHANGED streams \/ \E i \in Ids : Given(x, s, i),
           UNCHANGED stream_id \/ \E i \in Ids : Given(x, s, i),
           UNCHANGED task \/ \E l \in TaskLabels : TaskSet(x, s, l),
           UNCHANGED removed
    PROVE  \A y \in Sides : Lasting(y)
<1>1. ASSUME NEW y \in Sides, NEW t \in Sessions, Past(y, t)
      PROVE  task'[y][t] = task[y][t] /\ stream_id'[y][t] = stream_id[y][t]
    BY <1>1 DEF TaskSet, Past, Given
<1>2. ASSUME NEW y \in Sides, NEW i \in Ids
      PROVE  streams'[y][i] \in {streams[y][i], NoStream} \/ ~Past(y, streams'[y][i])
    <2>1. streams'[y][i] = streams[y][i] \/ (y = x /\ streams'[y][i] = s)
        BY DEF Given
    <2> QED BY <2>1
<1> QED BY <1>1, <1>2 DEF Lasting, Past, Over

(* As above, action by action.                                              *)
LEMMA BirthsLast ==
    ASSUME TypeInv, MarkInv, NEW x \in Sides, ConnOpen(x) \/ ConnAnnounce(x) \/ ConnAccept(x)
    PROVE  link' = link /\ \A y \in Sides : Lasting(y)
<1>1. CASE ConnOpen(x)
    <2> DEFINE f == Head(mpsc[x])
    <2>1. /\ conn[x].at = "select" /\ Taken(x) /\ f \in Asks /\ f.stream \in Sessions
          /\ Given(x, f.stream, NextId(x)) /\ ConnSet(x, "announce", NewFrame(NextId(x), f.stream))
          /\ UNCHANGED <<wire, link, task, removed>>
        BY <1>1, OpenEffect DEF TypeInv, history
    <2>2. Loses(Pipe(x)', Pipe(x), f) /\ f.kind = "ask"
        BY <2>1, PipeTaken, FrameFacts DEF ConnSet
    <2> HIDE DEF f
    <2>3. ~Past(x, f.stream)
        BY <2>2 DEF MarkInv, Marked, MarkOf, Loses, Past
    <2>4. \A y \in Sides : conn'[y] = conn[y] \/ (Up(y) /\ conn'[y].at \notin {"closed", "panic"})
        BY <2>1 DEF ConnSet, Up
    <2>5. \E i \in Ids : Given(x, f.stream, i)
        BY <2>1 DEF Given
    <2> QED BY <2>1, <2>3, <2>4, <2>5, BirthLasts
<1>2. CASE ConnAnnounce(x)
    <2> DEFINE f == conn[x].frame
    <2>1. /\ conn[x].at = "announce" /\ f.stream \in Sessions
          /\ TaskSet(x, f.stream, "request") /\ ConnSet(x, "select", NoFrame)
          /\ UNCHANGED <<streams, link, stream_id, removed>>
        BY <1>2, AnnounceEffect DEF TypeInv, history
    <2>2. ~Past(x, f.stream)
        BY <2>1 DEF MarkInv, Born, Announcing, Past
    <2>3. \A y \in Sides : conn'[y] = conn[y] \/ (Up(y) /\ conn'[y].at \notin {"closed", "panic"})
        BY <2>1 DEF ConnSet, Up
    <2>4. "request" \in TaskLabels
        BY DEF TaskLabels
    <2> QED BY <2>1, <2>2, <2>3, <2>4, BirthLasts
<1>3. CASE ConnAccept(x)
    <2> DEFINE z == Other(x)
               f == Head(wire[z])
    <2>1. z \in Sides /\ z # x /\ Other(z) = x
        BY SideFacts
    <2>2. /\ ReadOff(z) /\ f \in News /\ f.stream \in Sessions
          /\ Given(x, f.stream, f.id) /\ TaskSet(x, f.stream, "answer")
          /\ UNCHANGED <<conn, mpsc, link, removed>>
        BY <1>3, <2>1, AcceptEffect DEF TypeInv, history
    <2>3. Beheaded(Pipe(z)', Pipe(z), f) /\ f.kind = "new"
        BY <2>1, <2>2, PipeRead, FrameFacts
    <2>4. ~Past(x, f.stream)
        BY <2>1, <2>3 DEF MarkInv, Marked, MarkOf, Beheaded, Loses, Past
    <2>5. "answer" \in TaskLabels /\ \E i \in Ids : Given(x, f.stream, i)
        BY <2>2 DEF TaskLabels, Given
    <2> QED BY <2>2, <2>4, <2>5, BirthLasts
<1> QED BY <1>1, <1>2, <1>3

(* The connection task reads, delivers or writes a frame.                   *)
LEMMA ConnLasts ==
    ASSUME TypeInv, NEW x \in Sides,
           ConnRoute(x) \/ ConnDeliver(x) \/ ConnWrite(x) \/ ConnFlush(x)
    PROVE  link' = link /\ \A y \in Sides : Lasting(y)
<1>1. /\ UNCHANGED <<streams, link, task, stream_id, removed>>
      /\ conn[x].at \in {"select", "deliver", "write"}
      /\ UNCHANGED conn \/ \E l \in {"select", "deliver", "write"} : \E f : ConnSet(x, l, f)
    <2>1. CASE ConnRoute(x)
        BY <2>1, RouteEffect, SideFacts DEF TypeInv, history
    <2>2. CASE ConnDeliver(x)
        BY <2>2, HandOverEffect DEF TypeInv, history
    <2>3. CASE ConnWrite(x)
        BY <2>3, WriteEffect DEF TypeInv, history, taskVars
    <2>4. CASE ConnFlush(x)
        BY <2>4, FlushEffect DEF TypeInv, history, taskVars
    <2> QED BY <2>1, <2>2, <2>3, <2>4
<1>2. \A y \in Sides : conn'[y] = conn[y] \/ (Up(y) /\ conn'[y].at \notin {"closed", "panic"})
    BY <1>1 DEF ConnSet, Up
<1> QED BY <1>1, <1>2 DEF Lasting, Past, Over

(* A CloseStream is handled: its stream is registered nowhere.              *)
LEMMA CloseEnds ==
    ASSUME TypeInv, MarkInv, EndInv, NEW x \in Sides, ConnClose(x)
    PROVE  EndInv'
<1> DEFINE i == Head(mpsc[x]).id
<1>1. /\ conn[x].at = "select" /\ i \in Ids /\ streams'[x][i] = NoStream
      /\ \A j \in Ids : j # i => streams'[x][j] = streams[x][j]
      /\ \A y \in Sides : y # x => streams'[y] = streams[y]
      /\ \A s : s \in removed'[x] <=> s \in removed[x] \/ (s = streams[x][i] /\ s # NoStream)
      /\ \A y \in Sides : y # x => removed'[y] = removed[y]
      /\ RemovedT' /\ UNCHANGED <<conn, link, task, stream_id>>
    BY CloseEffect DEF TypeInv, taskVars
<1> HIDE DEF i
<1>2. LostBy'
    BY <1>1 DEF EndInv, LostBy, Up
<1>3. ASSUME NEW y \in Sides PROVE Forgotten(y)'
    <2> SUFFICES ASSUME NEW s \in removed'[y] PROVE ~Attached(y, s)' /\ Past(y, s)'
        BY DEF Forgotten
    <2>1. s \in Sessions /\ s # NoStream
        BY <1>1, SideFacts DEF RemovedT
    <2>2. CASE s \in removed[y]
        <3>1. ~Attached(y, s) /\ Past(y, s)
            BY <2>2 DEF EndInv, Forgotten
        <3>2. \A j \in Ids : streams'[y][j] # s
            BY <1>1, <2>1, <3>1 DEF Attached
        <3> QED BY <1>1, <3>1, <3>2 DEF Attached, Past
    <2>3. CASE y = x /\ s = streams[x][i]
        <3>1. stream_id[x][s] = i /\ Past(x, s)
            BY <1>1, <2>1, <2>3 DEF MarkInv, Entered, Announcing
        <3>2. \A j \in Ids : streams[x][j] = s => j = i
            BY <2>1, <3>1 DEF MarkInv, Entered
        <3>3. \A j \in Ids : streams'[x][j] # s
            BY <1>1, <2>1, <3>2
        <3> QED BY <1>1, <2>3, <3>1, <3>3 DEF Attached, Past
    <2> QED BY <1>1, <2>2, <2>3
<1>4. ASSUME NEW y \in Sides PROVE Excused(y)'
    <2>1. Excused(y) /\ (conn[y].at = "panic" => y # x)
        BY <1>1 DEF EndInv
    <2> QED BY <1>1, <2>1 DEF Excused, Over, Up
<1> QED BY <1>2, <1>3, <1>4 DEF EndInv

(* A connection task ends: it has its excuse.                               *)
LEMMA EndEnds ==
    ASSUME TypeInv, MarkInv, EndInv, NEW x \in Sides, ConnEnds(x)
    PROVE  EndInv'
<1>1. /\ \/ /\ ~link /\ conn[x].at \in {"select", "write"}
            /\ Ended(x, "closed", NoFrame) \/ Ended(x, "panic", NoFrame)
         \/ /\ conn[x].at = "deliver" /\ ~Listens(x, streams[x][conn[x].frame.id])
            /\ Ended(x, "panic", conn[x].frame)
      /\ UNCHANGED <<task, stream_id, removed>>
    BY EndEffect DEF TypeInv, taskVars, history
<1>2. /\ conn'[x].at \in {"closed", "panic"} /\ Up(x)
      /\ \A i \in Ids : streams'[x][i] = NoStream
      /\ \A y \in Sides : y # x => conn'[y] = conn[y] /\ streams'[y] = streams[y]
    BY <1>1 DEF Ended, ConnSet, Up
<1>3. ~Up(x)' /\ \A y \in Sides : ~Up(y) => ~Up(y)'
    BY <1>2 DEF Up
<1>4. LostBy'
    BY <1>3 DEF LostBy
<1>5. ASSUME NEW y \in Sides PROVE Forgotten(y)'
    <2> SUFFICES ASSUME NEW s \in removed[y] PROVE ~Attached(y, s)' /\ Past(y, s)'
        BY <1>1 DEF Forgotten
    <2>1. ~Attached(y, s) /\ Past(y, s) /\ s \in Sessions /\ s # NoStream
        BY TypeParts, SideFacts DEF EndInv, Forgotten, TypeInv, RemovedT
    <2>2. \A j \in Ids : streams'[y][j] # s
        BY <1>2, <2>1 DEF Attached
    <2> QED BY <1>1, <2>1, <2>2 DEF Attached, Past
<1>6. ASSUME NEW y \in Sides PROVE Excused(y)'
    <2>1. CASE y # x
        <3>1. conn'[y] = conn[y] /\ Excused(y) /\ Other(y) \in Sides
            BY <1>2, <2>1, SideFacts DEF EndInv
        <3>2. ~Up(Other(y)) => ~Up(Other(y))'
            BY <1>3, <3>1
        <3> QED BY <1>1, <3>1, <3>2 DEF Excused, Over
    <2>2. CASE y = x /\ conn[x].at # "deliver"
        <3>1. Breakable \/ ~Up(Other(x))
            BY <1>1, <1>2, <2>2, SideFacts DEF EndInv, LostBy
        <3>2. Breakable \/ ~Up(Other(x))'
            BY <1>3, <3>1, SideFacts
        <3>3. conn'[x].frame = NoFrame
            BY <1>1, <2>2 DEF Ended, ConnSet
        <3> QED BY <2>2, <3>2, <3>3 DEF Excused
    <2>3. CASE y = x /\ conn[x].at = "deliver"
        <3> DEFINE i == conn[x].frame.id
        <3>1. i \in Ids /\ streams[x][i] # NoStream
            BY <2>3, FrameFacts DEF TypeInv, Shape
        <3>2. PICK s \in Sessions : s = streams[x][i]
            BY <3>1, TypeParts DEF TypeInv, StreamsT
        <3>3. stream_id[x][s] = i /\ Past(x, s)
            BY <2>3, <3>1, <3>2 DEF MarkInv, Entered, Announcing
        <3>4. s \notin removed[x]
            BY <3>1, <3>2 DEF EndInv, Forgotten, Attached
        <3>5. conn'[x].frame = conn[x].frame /\ ~Listens(x, s)
            BY <1>1, <2>3, <3>2 DEF Ended, ConnSet
        <3>6. Over(x, s)
            BY <3>3, <3>5 DEF Over, Listens, Past
        <3>7. stream_id'[x][s] = conn'[x].frame.id /\ Over(x, s)' /\ s \notin removed'[x]
            BY <1>1, <3>3, <3>4, <3>5, <3>6 DEF Over
        <3> QED BY <2>3, <3>2, <3>7 DEF Excused
    <2> QED BY <1>1, <2>1, <2>2, <2>3
<1> QED BY <1>4, <1>5, <1>6 DEF EndInv

(* The raw connection fails by itself, or nothing happens.                  *)
LEMMA LostEnds ==
    ASSUME EndInv, LinkLost \/ UNCHANGED vars
    PROVE  EndInv'
<1>1. UNCHANGED <<conn, streams, task, stream_id, removed>> /\ (Breakable \/ link' = link)
    BY DEF LinkLost, vars, taskVars, history
<1> QED BY <1>1 DEF EndInv, LostBy, Forgotten, Excused, Over, Up, Attached, Past

(* Before anything has ended.                                               *)
LEMMA InitEnds ==
    ASSUME Init
    PROVE  EndInv
<1>1. \A x \in Sides : conn[x].at = "select" /\ removed[x] = {} /\ link
    BY DEF Init
<1> QED BY <1>1, SideFacts DEF EndInv, LostBy, Forgotten, Excused

(* Every step keeps the reasons.                                            *)
LEMMA NextEnds ==
    ASSUME TypeInv, MarkInv, EndInv, [Next]_vars
    PROVE  EndInv'
<1>1. CASE UNCHANGED vars \/ LinkLost
    BY <1>1, LostEnds
<1>2. ASSUME NEW s \in Sessions, Ask(s) PROVE EndInv'
    BY <1>2, AskLasts, LastingEnds
<1>3. ASSUME NEW x \in Sides, ConnOpen(x) \/ ConnAnnounce(x) \/ ConnAccept(x) PROVE EndInv'
    BY <1>3, BirthsLast, LastingEnds
<1>4. ASSUME NEW x \in Sides, ConnRoute(x) \/ ConnDeliver(x) \/ ConnWrite(x) \/ ConnFlush(x)
      PROVE  EndInv'
    BY <1>4, ConnLasts, LastingEnds
<1>5. ASSUME NEW x \in Sides, ConnClose(x) \/ ConnEnds(x) PROVE EndInv'
    BY <1>5, CloseEnds, EndEnds
<1>6. ASSUME NEW x \in Sides, NEW s \in Sessions,
             \/ Request(x, s) \/ Reply(x, s) \/ Write(x, s) \/ Close(x, s)
             \/ Await(x, s) \/ Answer(x, s) \/ Read(x, s) \/ Turns(x, s)
      PROVE  EndInv'
    BY <1>6, TasksLast, LastingEnds
<1> QED BY <1>1, <1>2, <1>3, <1>4, <1>5, <1>6, Steps

(* While the raw connection works, only one thing ends a connection task: a *)
(* payload for a stream whose task ended before its CloseStream was handled *)
(* (the unwrap() of the send in handle_incoming).  A stream whose CloseStream *)
(* was handled is registered nowhere, so no payload is sent to its task.     *)
THEOREM PanicsHaveACause == Spec => []PanicsNeedAnEndedStream
<1> DEFINE Inv == TypeInv /\ MarkInv /\ EndInv
<1>1. Init => Inv
    BY InitTyped, InitMarked, InitEnds
<1>2. Inv /\ [Next]_vars => Inv'
    BY NextTyped, NextMarks, NextEnds
<1>3. Inv => PanicsNeedAnEndedStream
    BY DEF EndInv, Excused, Over, PanicsNeedAnEndedStream
<1> QED BY <1>1, <1>2, <1>3, PTL DEF Spec
-----------------------------------------------------------------------------
(* What an end says on a stream, word after word: the words numbered from c *)
(* to n, and no others, are on their way, in order and with none missing.   *)

Mine(i, g) == g.kind = "data" /\ g.id = i
Silence(L, i) == \A g : Holds(L, g) => ~Mine(i, g)

Chain(L, i, W, c, n) ==
    /\ \A g : Holds(L, g) /\ Mine(i, g) => \E r \in Nat : c =< r /\ r =< n /\ g = W[r]
    /\ \A r \in Nat : Holds(L, W[r]) /\ r > c => Holds(L, W[r - 1])
    /\ \A q, r \in Nat : Before(L, W[q], W[r]) => q < r

Words(W, i) == /\ \A q, r \in Nat : W[q] = W[r] => q = r
               /\ \A r \in Nat : Mine(i, W[r])

\* a queue that differs in what others say, or is cut
Near(M, L, i, cut) ==
    \/ Alike(M, L)
    \/ \E f : ~Mine(i, f) /\ Loses(M, L, f)
    \/ \E f : ~Mine(i, f) /\ Grows(M, L, f)
    \/ cut /\ Front(M, L)

(* Nothing said makes no difference.                                        *)
LEMMA SilentChain ==
    ASSUME NEW S, NEW L \in Seq(S), NEW i, NEW W, NEW c, NEW n, Silence(L, i), Words(W, i)
    PROVE  Chain(L, i, W, c, n)
<1>1. \A r \in Nat : ~Holds(L, W[r])
    BY DEF Silence, Words
<1>2. \A g, h : Before(L, g, h) => Holds(L, g)
    BY HeldFacts
<1> QED BY <1>1, <1>2 DEF Chain, Silence

(* What others say makes no difference either.                              *)
LEMMA NearChain ==
    ASSUME NEW M, NEW L, NEW i, NEW W, NEW c \in Nat, NEW n \in Nat, NEW cut,
           Words(W, i), Near(M, L, i, cut)
    PROVE  /\ Silence(L, i) => Silence(M, i)
           /\ Chain(L, i, W, c, n) => Chain(M, i, W, c, n)
           /\ ~cut => \A g : Mine(i, g) /\ Holds(L, g) => Holds(M, g)
<1>1. \A g : Mine(i, g) /\ Holds(M, g) => Holds(L, g)
    BY DEF Near, Alike, Loses, Grows, Front, Fewer
<1>2. \A g, h : Mine(i, h) /\ Before(M, g, h) => Before(L, g, h)
    BY DEF Near, Alike, Loses, Grows, Front, Fewer
<1>3. ~cut => \A g : Mine(i, g) /\ Holds(L, g) => Holds(M, g)
    BY DEF Near, Alike, Loses, Grows
<1>4. \A g, h : Mine(i, g) /\ Mine(i, h) /\ Holds(M, h) /\ Holds(L, g) =>
          Holds(M, g) \/ Before(L, h, g)
    BY DEF Near, Alike, Loses, Grows, Front
<1>5. ASSUME Chain(L, i, W, c, n) PROVE Chain(M, i, W, c, n)
    <2>1. \A g : Holds(M, g) /\ Mine(i, g) => \E r \in Nat : c =< r /\ r =< n /\ g = W[r]
        BY <1>1, <1>5 DEF Chain
    <2>2. \A q, r \in Nat : Before(M, W[q], W[r]) => q < r
        BY <1>2, <1>5 DEF Chain, Words
    <2>3. ASSUME NEW r \in Nat, Holds(M, W[r]), r > c PROVE Holds(M, W[r - 1])
        <3>1. r - 1 \in Nat /\ ~(r < r - 1)
            BY <2>3
        <3>2. Mine(i, W[r]) /\ Mine(i, W[r - 1])
            BY <3>1 DEF Words
        <3>3. Holds(L, W[r - 1])
            BY <1>1, <1>5, <2>3, <3>2 DEF Chain
        <3>4. ~Before(L, W[r], W[r - 1])
            BY <1>5, <3>1 DEF Chain
        <3> QED BY <1>4, <2>3, <3>2, <3>3, <3>4
    <2> QED BY <2>1, <2>2, <2>3 DEF Chain
<1> QED BY <1>1, <1>3, <1>5 DEF Silence

(* The next word is said.                                                   *)
LEMMA SaidChain ==
    ASSUME NEW M, NEW L, NEW i, NEW W, NEW c \in Nat, NEW n \in Nat, NEW m \in Nat,
           Words(W, i), Chain(L, i, W, c, n), Grows(M, L, W[m]), c =< m,
           \A g : Holds(L, g) /\ Mine(i, g) => \E r \in Nat : c =< r /\ r < m /\ g = W[r],
           c = m \/ Holds(L, W[m - 1])
    PROVE  Chain(M, i, W, c, m)
<1>1. ASSUME NEW g, Holds(M, g), Mine(i, g)
      PROVE  \E r \in Nat : c =< r /\ r =< m /\ g = W[r]
    BY <1>1 DEF Grows
<1>2. ASSUME NEW r \in Nat, Holds(M, W[r]), r > c PROVE Holds(M, W[r - 1])
    <2>1. CASE Holds(L, W[r])
        BY <1>2, <2>1 DEF Chain, Grows
    <2>2. CASE r = m
        BY <1>2, <2>2 DEF Grows
    <2> QED BY <1>2, <2>1, <2>2 DEF Grows, Words
<1>3. ASSUME NEW q \in Nat, NEW r \in Nat, Before(M, W[q], W[r]) PROVE q < r
    <2>1. CASE Before(L, W[q], W[r])
        BY <2>1 DEF Chain
    <2>2. CASE Holds(L, W[q]) /\ W[r] = W[m]
        <3>1. r = m /\ Mine(i, W[q])
            BY <2>2 DEF Words
        <3>2. PICK p \in Nat : p < m /\ W[q] = W[p]
            BY <2>2, <3>1
        <3> QED BY <3>1, <3>2 DEF Words
    <2> QED BY <1>3, <2>1, <2>2 DEF Grows
<1> QED BY <1>1, <1>2, <1>3 DEF Chain

(* The first word on its way is the next to be heard.                       *)
LEMMA FirstWord ==
    ASSUME NEW M, NEW L, NEW i, NEW W, NEW c \in Nat, NEW n \in Nat, NEW f,
           Words(W, i), Chain(L, i, W, c, n), Beheaded(M, L, f), Mine(i, f)
    PROVE  f = W[c] /\ c =< n /\ Chain(M, i, W, c + 1, n)
<1>1. PICK r \in Nat : c =< r /\ r =< n /\ f = W[r]
    BY DEF Chain, Beheaded, Loses
<1>2. r = c
    <2> SUFFICES ASSUME r > c PROVE FALSE
        BY <1>1
    <2>1. r - 1 \in Nat /\ ~(r < r - 1) /\ r # r - 1
        BY <1>1
    <2>2. Holds(L, W[r - 1])
        BY <1>1 DEF Chain, Beheaded, Loses
    <2>3. Holds(M, W[r - 1])
        BY <1>1, <2>1, <2>2 DEF Beheaded, Loses, Words
    <2>4. Before(L, W[r], W[r - 1])
        BY <1>1, <2>3 DEF Beheaded
    <2> QED BY <1>1, <2>1, <2>4 DEF Chain
<1>3. f = W[c] /\ c =< n
    BY <1>1, <1>2
<1>4. ASSUME NEW g, Holds(M, g), Mine(i, g)
      PROVE  \E q \in Nat : c + 1 =< q /\ q =< n /\ g = W[q]
    <2>1. Before(L, W[c], g) /\ Holds(L, g)
        BY <1>3, <1>4 DEF Beheaded, Loses, Fewer
    <2>2. PICK q \in Nat : c =< q /\ q =< n /\ g = W[q]
        BY <1>4, <2>1 DEF Chain
    <2>3. c < q
        BY <2>1, <2>2 DEF Chain
    <2> QED BY <2>2, <2>3
<1>5. ASSUME NEW q \in Nat, Holds(M, W[q]), q > c + 1 PROVE Holds(M, W[q - 1])
    <2>1. q - 1 \in Nat /\ q - 1 # c /\ q > c
        BY <1>5
    <2>2. Holds(L, W[q - 1])
        BY <1>5, <2>1 DEF Chain, Beheaded, Loses, Fewer
    <2>3. W[q - 1] # f
        BY <1>3, <2>1 DEF Words
    <2> QED BY <2>2, <2>3 DEF Beheaded, Loses
<1>6. \A p, q \in Nat : Before(M, W[p], W[q]) => p < q
    BY DEF Chain, Beheaded, Loses, Fewer
<1> QED BY <1>3, <1>4, <1>5, <1>6 DEF Chain

(* What changes in the last part of a queue changes in the queue.           *)
LEMMA NearLast ==
    ASSUME NEW S, NEW u \in Seq(S), NEW v \in Seq(S), NEW w \in Seq(S), NEW n \in Seq(S),
           NEW i, NEW cut
    PROVE  /\ Near(n, w, i, cut) => Near(u \o v \o n, u \o v \o w, i, cut)
           /\ \A f : Grows(n, w, f) => Grows(u \o v \o n, u \o v \o w, f)
<1> DEFINE M == u \o v \o n
           L == u \o v \o w
<1>1. /\ \A g : Holds(M, g) <=> Holds(u, g) \/ Holds(v, g) \/ Holds(n, g)
      /\ \A g, h : Before(M, g, h) <=>
             \/ Before(u, g, h) \/ Before(v, g, h) \/ Before(n, g, h)
             \/ Holds(u, g) /\ (Holds(v, h) \/ Holds(n, h))
             \/ Holds(v, g) /\ Holds(n, h)
    BY ThreeParts
<1>2. /\ \A g : Holds(L, g) <=> Holds(u, g) \/ Holds(v, g) \/ Holds(w, g)
      /\ \A g, h : Before(L, g, h) <=>
             \/ Before(u, g, h) \/ Before(v, g, h) \/ Before(w, g, h)
             \/ Holds(u, g) /\ (Holds(v, h) \/ Holds(w, h))
             \/ Holds(v, g) /\ Holds(w, h)
    BY ThreeParts
<1> HIDE DEF L, M
<1>3. ASSUME NEW f, Grows(n, w, f) PROVE Grows(M, L, f)
    BY <1>1, <1>2, <1>3 DEF Grows
<1>4. ASSUME NEW f, Loses(n, w, f) PROVE Loses(M, L, f)
    BY <1>1, <1>2, <1>4 DEF Loses, Fewer
<1>5. ASSUME Alike(n, w) PROVE Alike(M, L)
    BY <1>1, <1>2, <1>5 DEF Alike
<1>6. ASSUME Front(n, w) PROVE Front(M, L)
    <2>1. Fewer(M, L)
        BY <1>1, <1>2, <1>6 DEF Front, Fewer
    <2>2. ASSUME NEW g, NEW h, Holds(M, h), Holds(L, g) PROVE Holds(M, g) \/ Before(L, h, g)
        BY <1>1, <1>2, <1>6, <2>2 DEF Front
    <2> QED BY <2>1, <2>2 DEF Front
<1>7. Near(n, w, i, cut) => Near(M, L, i, cut)
    BY <1>3, <1>4, <1>5, <1>6 DEF Near
<1> QED BY <1>3, <1>7 DEF L, M
-----------------------------------------------------------------------------
(* When one end opens every stream, its ids are its own. *)

OneOpener == \A s, t \in Sessions : Opener[s] = Opener[t]

\* who asks and who answers
Roles(x, s) == /\ task[x][s] \in {"asked", "request", "await"} => Opener[s] = x
               /\ task[x][s] \in {"answer", "reply"} => Opener[s] # x

IdOf(s) == stream_id[Opener[s]][s]
IdInv ==
    /\ \A x \in Sides, s \in Sessions : Roles(x, s)
    /\ \A s \in Sessions : IdOf(s) =< stream_counter[Opener[s]]
    /\ \A s, t \in Sessions : IdOf(s) = IdOf(t) /\ IdOf(s) # 0 => s = t

(* A stream has one id at both ends.                                        *)
LEMMA OneId ==
    ASSUME TypeInv, MarkInv, NEW x \in Sides, NEW s \in Sessions, stream_id[x][s] # 0
    PROVE  stream_id[x][s] = IdOf(s)
<1>1. Born(x, s) /\ Accepted(s) /\ Opener[s] \in Sides
    BY SideFacts DEF MarkInv
<1>2. x = Opener[s] \/ x = Other(Opener[s])
    BY <1>1, SideFacts
<1> QED BY <1>1, <1>2 DEF Born, Accepted, IdOf

(* An id belongs to one stream.                                             *)
LEMMA IdsMatch ==
    ASSUME TypeInv, MarkInv, IdInv, NEW x \in Sides, NEW y \in Sides,
           NEW s \in Sessions, NEW t \in Sessions,
           stream_id[x][s] = stream_id[y][t], stream_id[x][s] # 0
    PROVE  s = t
<1>1. stream_id[x][s] = IdOf(s) /\ stream_id[y][t] = IdOf(t)
    BY OneId
<1> QED BY <1>1 DEF IdInv

(* What has an id at the far end of a running stream runs, or ran, there.   *)
LEMMA BothPast ==
    ASSUME TypeInv, MarkInv, NEW x \in Sides, NEW y \in Sides, NEW s \in Sessions,
           Past(x, s), stream_id[y][s] # 0
    PROVE  Past(y, s)
<1>1. Born(y, s) /\ Accepted(s) /\ Opener[s] \in Sides
    BY SideFacts DEF MarkInv
<1>2. CASE y = Opener[s]
    <2>1. x = y \/ x = Other(y)
        BY SideFacts
    <2> QED BY <1>1, <1>2, <2>1 DEF Accepted, Past
<1>3. CASE y # Opener[s]
    BY <1>1, <1>3 DEF Born, Past
<1> QED BY <1>2, <1>3

(* Steps that give out no id.                                               *)
LEMMA IdsKept ==
    ASSUME IdInv, UNCHANGED <<stream_id, stream_counter>>,
           \A x \in Sides, s \in Sessions : Roles(x, s)'
    PROVE  IdInv'
BY DEF IdInv, IdOf

(* The steps of the task of a stream keep its role.                         *)
LEMMA TasksIds ==
    ASSUME TypeInv, IdInv, NEW x \in Sides, NEW s \in Sessions,
           \/ Request(x, s) \/ Reply(x, s) \/ Write(x, s) \/ Close(x, s)
           \/ Await(x, s) \/ Answer(x, s) \/ Read(x, s) \/ Turns(x, s)
    PROVE  IdInv'
<1>1. /\ UNCHANGED <<stream_id, stream_counter>>
      /\ \A y \in Sides, t \in Sessions : y # x \/ t # s => task'[y][t] = task[y][t]
      /\ \/ task[x][s] = "request" /\ task'[x][s] = "await"
         \/ task[x][s] = "answer" /\ task'[x][s] = "reply"
         \/ task'[x][s] \in {"read", "write", "close", "done", "panic"}
    <2>1. CASE Request(x, s)
        BY <2>1, RequestEffect DEF TypeInv, TaskSet, connVars
    <2>2. CASE Reply(x, s)
        BY <2>2, ReplyEffect DEF TypeInv, TaskSet, connVars
    <2>3. CASE Write(x, s)
        BY <2>3, SayEffect DEF TypeInv, TaskSet, connVars
    <2>4. CASE Close(x, s)
        BY <2>4, ShutEffect DEF TypeInv, TaskSet, connVars
    <2>5. CASE Await(x, s)
        BY <2>5, AwaitEffect DEF TypeInv, TaskSet, connVars
    <2>6. CASE Answer(x, s)
        BY <2>6, AnswerEffect DEF TypeInv, TaskSet, connVars
    <2>7. CASE Read(x, s)
        BY <2>7, ReadEffect DEF TypeInv, connVars
    <2>8. CASE Turns(x, s)
        BY <2>8, TurnEffect DEF TypeInv, TaskSet, connVars
    <2> QED BY <2>1, <2>2, <2>3, <2>4, <2>5, <2>6, <2>7, <2>8
<1>2. ASSUME NEW y \in Sides, NEW t \in Sessions PROVE Roles(y, t)'
    BY <1>1 DEF IdInv, Roles
<1> QED BY <1>1, <1>2, IdsKept

(* The steps of a connection task that give out no id.                      *)
LEMMA ConnIds ==
    ASSUME TypeInv, IdInv,
           \/ LinkLost \/ UNCHANGED vars
           \/ \E x \in Sides : \/ ConnRoute(x) \/ ConnDeliver(x) \/ ConnClose(x)
                               \/ ConnWrite(x) \/ ConnFlush(x) \/ ConnEnds(x)
    PROVE  IdInv'
<1>1. UNCHANGED <<stream_id, stream_counter, task>>
    <2>1. CASE LinkLost \/ UNCHANGED vars
        BY <2>1 DEF LinkLost, vars, taskVars
    <2>2. ASSUME NEW x \in Sides, ConnRoute(x) PROVE UNCHANGED <<stream_id, stream_counter, task>>
        BY <2>2, RouteEffect, SideFacts DEF TypeInv
    <2>3. ASSUME NEW x \in Sides, ConnDeliver(x) PROVE UNCHANGED <<stream_id, stream_counter, task>>
        BY <2>3, HandOverEffect DEF TypeInv
    <2>4. ASSUME NEW x \in Sides, ConnClose(x) PROVE UNCHANGED <<stream_id, stream_counter, task>>
        BY <2>4, CloseEffect DEF TypeInv, taskVars
    <2>5. ASSUME NEW x \in Sides, ConnWrite(x) PROVE UNCHANGED <<stream_id, stream_counter, task>>
        BY <2>5, WriteEffect DEF TypeInv, taskVars
    <2>6. ASSUME NEW x \in Sides, ConnFlush(x) PROVE UNCHANGED <<stream_id, stream_counter, task>>
        BY <2>6, FlushEffect DEF TypeInv, taskVars
    <2>7. ASSUME NEW x \in Sides, ConnEnds(x) PROVE UNCHANGED <<stream_id, stream_counter, task>>
        BY <2>7, EndEffect DEF TypeInv, taskVars
    <2> QED BY <2>1, <2>2, <2>3, <2>4, <2>5, <2>6, <2>7
<1>2. ASSUME NEW y \in Sides, NEW t \in Sessions PROVE Roles(y, t)'
    BY <1>1 DEF IdInv, Roles
<1> QED BY <1>1, <1>2, IdsKept

(* A stream is asked for by its opener.                                     *)
LEMMA AskIds ==
    ASSUME TypeInv, IdInv, NEW s \in Sessions, Ask(s)
    PROVE  IdInv'
<1>1. Opener[s] \in Sides
    BY SideFacts
<1>2. TaskSet(Opener[s], s, "asked") /\ UNCHANGED <<stream_id, stream_counter>>
    BY <1>1, AskEffect DEF TypeInv, connVars
<1>3. ASSUME NEW y \in Sides, NEW t \in Sessions PROVE Roles(y, t)'
    BY <1>2 DEF IdInv, Roles, TaskSet
<1> QED BY <1>2, <1>3, IdsKept

(* What is opened: a stream asked for here, still without an id.            *)
LEMMA OpenFacts ==
    ASSUME TypeInv, MarkInv, NEW x \in Sides, ConnOpen(x),
           NEW s \in Sessions, s = Head(mpsc[x]).stream
    PROVE  task[x][s] = "asked" /\ stream_id[x][s] = 0 /\ Opener[s] = x
<1> DEFINE f == Head(mpsc[x])
<1>1. /\ conn[x].at = "select" /\ Taken(x) /\ f \in Asks
      /\ ConnSet(x, "announce", NewFrame(NextId(x), f.stream)) /\ UNCHANGED wire
    BY OpenEffect DEF TypeInv
<1>2. Loses(Pipe(x)', Pipe(x), f) /\ f.kind = "ask" /\ s = f.stream
    BY <1>1, PipeTaken, FrameFacts DEF ConnSet
<1> HIDE DEF f
<1>3. task[x][s] = "asked" /\ stream_id[x][s] = 0
    BY <1>2 DEF MarkInv, Marked, MarkOf, Loses
<1> QED BY <1>1, <1>3 DEF MarkInv, Born, Announcing

(* What is announced: a stream asked for here, which has its id.            *)
LEMMA AnnounceFacts ==
    ASSUME TypeInv, MarkInv, NEW x \in Sides, conn[x].at = "announce",
           NEW s \in Sessions, s = conn[x].frame.stream
    PROVE  task[x][s] = "asked" /\ stream_id[x][s] = conn[x].frame.id /\ Opener[s] = x
<1>1. Announcing(x, s) /\ Born(x, s)
    BY DEF Announcing, MarkInv
<1> QED BY <1>1 DEF Born, TypeInv, Numbered

(* What is accepted: a stream of the other end, unknown here.               *)
LEMMA AcceptFacts ==
    ASSUME TypeInv, MarkInv, NEW x \in Sides, NEW z \in Sides, z = Other(x), ConnAccept(x),
           NEW f, f = Head(wire[z]), NEW s \in Sessions, s = f.stream
    PROVE  /\ task[x][s] = "none" /\ stream_id[x][s] = 0 /\ Opener[s] = z
           /\ Past(z, s) /\ stream_id[z][s] = f.id
<1>1. ReadOff(z) /\ f \in News /\ UNCHANGED <<conn, mpsc>>
    BY AcceptEffect DEF TypeInv
<1>2. Beheaded(Pipe(z)', Pipe(z), f) /\ f.kind = "new" /\ Other(z) = x
    BY <1>1, PipeRead, FrameFacts, SideFacts
<1>3. MarkOf(z, f)
    BY <1>2 DEF MarkInv, Marked, Beheaded, Loses
<1> QED BY <1>2, <1>3 DEF MarkOf, MarkInv, Born

(* A stream gets the next id.                                               *)
LEMMA OpenIds ==
    ASSUME OneOpener, TypeInv, MarkInv, IdInv, NEW x \in Sides, ConnOpen(x)
    PROVE  IdInv'
<1>1. PICK s \in Sessions : s = Head(mpsc[x]).stream
    BY OpenEffect DEF TypeInv
<1>2. task[x][s] = "asked" /\ stream_id[x][s] = 0 /\ Opener[s] = x
    BY <1>1, OpenFacts
<1>3. PICK i \in Ids : i = stream_counter[x] + 1 /\ Given(x, s, i) /\ UNCHANGED task
    BY <1>1, OpenEffect DEF TypeInv, Given, NextId
<1>4. stream_counter[x] \in Nat /\ i \in Nat /\ i # 0
    BY <1>3, TypeParts, SideFacts DEF TypeInv, CounterT
<1>5. \A t \in Sessions : Opener[t] = x
    BY <1>2 DEF OneOpener
<1>6. \A t \in Sessions : IdOf(t)' = IF t = s THEN i ELSE IdOf(t)
    BY <1>2, <1>3, <1>5 DEF IdOf, Given
<1>7. \A t \in Sessions : IdOf(t) =< stream_counter[x] /\ IdOf(t) \in Nat
    BY <1>5, TypeParts, SideFacts DEF IdInv, IdOf, TypeInv, IdT
<1>8. \A t \in Sessions : IdOf(t) # i
    BY <1>3, <1>4, <1>7
<1>9. \A t \in Sessions : IdOf(t)' =< stream_counter'[Opener[t]]
    BY <1>3, <1>4, <1>5, <1>6, <1>7 DEF Given
<1>10. \A t, u \in Sessions : IdOf(t)' = IdOf(u)' /\ IdOf(t)' # 0 => t = u
    BY <1>6, <1>8 DEF IdInv
<1>11. ASSUME NEW y \in Sides, NEW t \in Sessions PROVE Roles(y, t)'
    BY <1>3 DEF IdInv, Roles
<1> QED BY <1>9, <1>10, <1>11 DEF IdInv

(* Its task starts.                                                         *)
LEMMA AnnounceIds ==
    ASSUME TypeInv, MarkInv, IdInv, NEW x \in Sides, ConnAnnounce(x)
    PROVE  IdInv'
<1>1. PICK s \in Sessions : /\ s = conn[x].frame.stream /\ conn[x].at = "announce"
                            /\ TaskSet(x, s, "request")
                            /\ UNCHANGED <<stream_id, stream_counter>>
    BY AnnounceEffect DEF TypeInv
<1>2. Opener[s] = x
    BY <1>1, AnnounceFacts
<1>3. ASSUME NEW y \in Sides, NEW t \in Sessions PROVE Roles(y, t)'
    BY <1>1, <1>2 DEF IdInv, Roles, TaskSet
<1> QED BY <1>1, <1>3, IdsKept

(* The other end takes over its id.                                         *)
LEMMA AcceptIds ==
    ASSUME OneOpener, TypeInv, MarkInv, IdInv, NEW x \in Sides, ConnAccept(x)
    PROVE  IdInv'
<1> DEFINE z == Other(x)
           f == Head(wire[z])
<1>1. z \in Sides /\ z # x
    BY SideFacts
<1>2. PICK s \in Sessions : s = f.stream /\ Given(x, s, f.id) /\ TaskSet(x, s, "answer")
    BY <1>1, AcceptEffect DEF TypeInv
<1>3. Opener[s] = z
    BY <1>1, <1>2, AcceptFacts
<1>4. \A t \in Sessions : Opener[t] = z
    BY <1>3 DEF OneOpener
<1> HIDE DEF z, f
<1>5. \A t \in Sessions : IdOf(t)' = IdOf(t) /\ stream_counter'[Opener[t]] = stream_counter[z]
    BY <1>1, <1>2, <1>4 DEF IdOf, Given
<1>6. ASSUME NEW y \in Sides, NEW t \in Sessions PROVE Roles(y, t)'
    BY <1>1, <1>2, <1>3 DEF IdInv, Roles, TaskSet
<1> QED BY <1>4, <1>5, <1>6 DEF IdInv

(* No ids at first.                                                         *)
LEMMA InitIds ==
    ASSUME Init
    PROVE  IdInv
<1>1. /\ \A x \in Sides, s \in Sessions : stream_id[x][s] = 0 /\ task[x][s] = "none"
      /\ \A x \in Sides : stream_counter[x] = 0
    BY DEF Init, PerStream
<1>2. \A s \in Sessions : IdOf(s) = 0 /\ IdOf(s) =< stream_counter[Opener[s]]
    BY <1>1, SideFacts DEF IdOf
<1> QED BY <1>1, <1>2 DEF IdInv, Roles

(* Every step keeps the ids apart.                                          *)
LEMMA NextIds ==
    ASSUME OneOpener, TypeInv, MarkInv, IdInv, [Next]_vars
    PROVE  IdInv'
<1>1. ASSUME NEW s \in Sessions, Ask(s) PROVE IdInv'
    BY <1>1, AskIds
<1>2. ASSUME NEW x \in Sides, ConnOpen(x) \/ ConnAnnounce(x) \/ ConnAccept(x) PROVE IdInv'
    BY <1>2, OpenIds, AnnounceIds, AcceptIds
<1>3. ASSUME NEW x \in Sides,
             \/ ConnRoute(x) \/ ConnDeliver(x) \/ ConnClose(x)
             \/ ConnWrite(x) \/ ConnFlush(x) \/ ConnEnds(x)
      PROVE  IdInv'
    BY <1>3, ConnIds
<1>4. CASE LinkLost \/ UNCHANGED vars
    BY <1>4, ConnIds
<1>5. ASSUME NEW x \in Sides, NEW s \in Sessions,
             \/ Request(x, s) \/ Reply(x, s) \/ Write(x, s) \/ Close(x, s)
             \/ Await(x, s) \/ Answer(x, s) \/ Read(x, s) \/ Turns(x, s)
      PROVE  IdInv'
    BY <1>5, TasksIds
<1> QED BY <1>1, <1>2, <1>3, <1>4, <1>5, Steps
-----------------------------------------------------------------------------
(* Whose frames they are, and where they will be routed to. *)

\* what a frame names belongs to a stream that runs, or ran
OwnedBy(x, g) == \E t \in Sessions : Past(x, t) /\ stream_id[x][t] = g.id
InDelivery(y, g) == conn[y].at = "deliver" /\ conn[y].frame = g
Owned(x) == \A g : (Holds(Sent(x), g) \/ InDelivery(Other(x), g)) /\ g.kind = "data" =>
                       OwnedBy(x, g)
Closers(y) == \A g : Holds(mpsc[y], g) /\ g.kind = "close" =>
                         \E s \in Sessions : Past(y, s) /\ stream_id[y][s] = g.id /\ Over(y, s)

\* a stream that runs, or is about to, is registered under its id
Starts(y, s) == Past(y, s) \/ Announcing(y, s)
Registered(y, s) == Up(y) /\ ~Over(y, s) /\ Starts(y, s) => streams[y][stream_id[y][s]] = s

RouteInv == \A y \in Sides : Owned(y) /\ Closers(y) /\ \A s \in Sessions : Registered(y, s)

Durable == \A y \in Sides, t \in Sessions : Past(y, t) =>
    /\ stream_id'[y][t] = stream_id[y][t] /\ Past(y, t)'
    /\ Over(y, t) => Over(y, t)'

(* A stream that runs keeps its id, and once over it stays so.              *)
LEMMA NextDurable ==
    ASSUME TypeInv, MarkInv, [Next]_vars
    PROVE  Durable
<1>1. ASSUME \A y \in Sides : Lasting(y) PROVE Durable
    BY <1>1 DEF Lasting, Durable
<1>2. ASSUME UNCHANGED <<stream_id, task>> PROVE Durable
    BY <1>2 DEF Durable, Past, Over
<1>3. ASSUME NEW s \in Sessions, Ask(s) PROVE Durable
    BY <1>1, <1>3, AskLasts
<1>4. ASSUME NEW x \in Sides, ConnOpen(x) \/ ConnAnnounce(x) \/ ConnAccept(x) PROVE Durable
    BY <1>1, <1>4, BirthsLast
<1>5. ASSUME NEW x \in Sides, ConnRoute(x) \/ ConnDeliver(x) \/ ConnWrite(x) \/ ConnFlush(x)
      PROVE  Durable
    BY <1>1, <1>5, ConnLasts
<1>6. ASSUME NEW x \in Sides, ConnClose(x) PROVE Durable
    BY <1>2, <1>6, CloseEffect DEF TypeInv, taskVars
<1>7. ASSUME NEW x \in Sides, ConnEnds(x) PROVE Durable
    BY <1>2, <1>7, EndEffect DEF TypeInv, taskVars
<1>8. CASE LinkLost \/ UNCHANGED vars
    BY <1>2, <1>8 DEF LinkLost, vars, taskVars
<1>9. ASSUME NEW x \in Sides, NEW s \in Sessions,
             \/ Request(x, s) \/ Reply(x, s) \/ Write(x, s) \/ Close(x, s)
             \/ Await(x, s) \/ Answer(x, s) \/ Read(x, s) \/ Turns(x, s)
      PROVE  Durable
    BY <1>1, <1>9, TasksLast
<1> QED BY <1>3, <1>4, <1>5, <1>6, <1>7, <1>8, <1>9, Steps

(* Where a payload that was sent comes from ...                             *)
LEMMA SentOrigin ==
    ASSUME TypeInv, MarkInv, [Next]_vars, NEW x \in Sides, NEW g, g.kind = "data",
           Holds(Sent(x)', g)
    PROVE  Holds(Sent(x), g) \/ Speaks(x, g)
<1>1. ASSUME Calm PROVE Holds(Sent(x), g) \/ Speaks(x, g)
    BY <1>1 DEF Calm, Alike, Loses, Fewer, Grows, Front
<1>2. ASSUME NEW s \in Sessions, Ask(s) PROVE Calm
    BY <1>2, AskCalm
<1>3. ASSUME NEW y \in Sides, ConnOpen(y) PROVE Holds(Sent(x), g)
    <2>1. /\ conn[y].at # "write" /\ conn'[y].at # "write" /\ Taken(y)
          /\ \A z \in Sides : Untouched(z)
        BY <1>3, OpenEffect DEF TypeInv, ConnSet, Untouched
    <2> QED BY <2>1, SentTaken DEF Alike, Loses, Fewer
<1>4. ASSUME NEW y \in Sides, ConnAnnounce(y) PROVE Holds(Sent(x), g)
    <2> DEFINE f == conn[y].frame
    <2>1. /\ Queued(y, f) /\ f \in News /\ \A z \in Sides : Untouched(z)
        BY <1>4, AnnounceEffect DEF TypeInv, ConnSet, Untouched
    <2>2. f.kind = "new"
        BY <2>1, FrameFacts
    <2> HIDE DEF f
    <2>3. Alike(Sent(x)', Sent(x)) \/ Grows(Sent(x)', Sent(x), f)
        BY <2>1, SentQueued
    <2> QED BY <2>2, <2>3 DEF Alike, Grows
<1>5. ASSUME NEW y \in Sides, ConnAccept(y) PROVE Holds(Sent(x), g)
    <2> DEFINE z == Other(y)
               f == Head(wire[z])
    <2>1. z \in Sides /\ \A u \in Sides : u = y \/ u = z
        BY SideFacts
    <2>2. ReadOff(z) /\ UNCHANGED <<conn, mpsc, link>>
        BY <1>5, <2>1, AcceptEffect DEF TypeInv
    <2>3. Beheaded(Sent(z)', Sent(z), f) /\ Alike(Sent(y)', Sent(y))
        BY <2>1, <2>2, SentRead
    <2> QED BY <2>1, <2>3 DEF Alike, Beheaded, Loses, Fewer
<1>6. ASSUME NEW y \in Sides,
             \/ ConnRoute(y) \/ ConnDeliver(y) \/ ConnClose(y)
             \/ ConnWrite(y) \/ ConnFlush(y) \/ ConnEnds(y)
      PROVE  Calm
    BY <1>6, RouteCalm, HandOverCalm, CloseCalm, WriteCalm, EndCalm
<1>7. LinkLost \/ UNCHANGED vars => Calm
    BY EndCalm, StutterCalm
<1>8. ASSUME NEW y \in Sides, NEW s \in Sessions,
             \/ Request(y, s) \/ Reply(y, s) \/ Write(y, s) \/ Close(y, s)
             \/ Await(y, s) \/ Answer(y, s) \/ Read(y, s) \/ Turns(y, s)
      PROVE  Calm
    BY <1>8, TasksCalm
<1> QED BY <1>1, <1>2, <1>3, <1>4, <1>5, <1>6, <1>7, <1>8, Steps

(* ... where one that is being delivered comes from ...                     *)
LEMMA HandOrigin ==
    ASSUME TypeInv, [Next]_vars, NEW y \in Sides, NEW g, InDelivery(y, g)'
    PROVE  InDelivery(y, g) \/ Holds(Sent(Other(y)), g)
<1>1. ASSUME conn'[y] = conn[y] \/ conn'[y].at # "deliver" PROVE InDelivery(y, g)
    BY <1>1 DEF InDelivery
<1>2. ASSUME NEW x \in Sides, NEW l, NEW f, ConnSet(x, l, f), l # "deliver"
      PROVE  InDelivery(y, g)
    BY <1>1, <1>2 DEF ConnSet
<1>3. ASSUME NEW s \in Sessions, Ask(s) PROVE InDelivery(y, g)
    BY <1>1, <1>3 DEF Ask, connVars
<1>4. ASSUME NEW x \in Sides, ConnOpen(x) \/ ConnAnnounce(x) \/ ConnAccept(x)
      PROVE  InDelivery(y, g)
    <2>1. CASE ConnOpen(x)
        BY <1>2, <2>1, OpenEffect DEF TypeInv
    <2>2. CASE ConnAnnounce(x)
        BY <1>2, <2>2, AnnounceEffect DEF TypeInv
    <2>3. CASE ConnAccept(x)
        BY <1>1, <2>3 DEF ConnAccept
    <2> QED BY <1>4, <2>1, <2>2, <2>3
<1>5. ASSUME NEW x \in Sides, ConnRoute(x) PROVE InDelivery(y, g) \/ Holds(Sent(Other(y)), g)
    <2> DEFINE z == Other(x)
               f == Head(wire[z])
    <2>1. z \in Sides /\ z # x
        BY SideFacts
    <2>2. /\ ReadOff(z) /\ conn[x].at = "select" /\ UNCHANGED <<mpsc, link>>
          /\ UNCHANGED conn \/ ConnSet(x, "deliver", f)
        BY <1>5, <2>1, RouteEffect DEF TypeInv
    <2>3. Holds(Sent(z), f)
        <3>1. /\ conn'[z] = conn[z]
              /\ conn'[x] = conn[x] \/ (conn[x].at # "write" /\ conn'[x].at # "write")
            BY <2>1, <2>2 DEF ConnSet
        <3> QED BY <2>1, <2>2, <3>1, SentRead DEF Beheaded, Loses
    <2>4. CASE y = x /\ ConnSet(x, "deliver", f)
        BY <2>3, <2>4 DEF InDelivery, ConnSet
    <2>5. CASE conn'[y] = conn[y]
        BY <1>1, <2>5
    <2> QED BY <2>2, <2>4, <2>5 DEF ConnSet
<1>6. ASSUME NEW x \in Sides, ConnDeliver(x) PROVE InDelivery(y, g)
    BY <1>2, <1>6, HandOverEffect DEF TypeInv
<1>7. ASSUME NEW x \in Sides, ConnClose(x) PROVE InDelivery(y, g)
    BY <1>1, <1>7 DEF ConnClose
<1>8. ASSUME NEW x \in Sides, ConnWrite(x) \/ ConnFlush(x) PROVE InDelivery(y, g)
    BY <1>1, <1>2, <1>8, WriteEffect, FlushEffect DEF TypeInv
<1>9. ASSUME NEW x \in Sides, ConnEnds(x) PROVE InDelivery(y, g)
    BY <1>2, <1>9, EndEffect DEF TypeInv, Ended
<1>10. CASE LinkLost \/ UNCHANGED vars
    BY <1>1, <1>10 DEF LinkLost, vars
<1>11. ASSUME NEW x \in Sides, NEW s \in Sessions,
              \/ Request(x, s) \/ Reply(x, s) \/ Write(x, s) \/ Close(x, s)
              \/ Await(x, s) \/ Answer(x, s) \/ Read(x, s) \/ Turns(x, s)
       PROVE  InDelivery(y, g)
    <2>1. UNCHANGED conn
        BY <1>11 DEF Request, Reply, Write, Close, Await, Answer, Read, Turns, StartWrite,
                     StartClose, Return, TaskFails, connVars
    <2> QED BY <1>1, <2>1
<1> QED BY <1>3, <1>4, <1>5, <1>6, <1>7, <1>8, <1>9, <1>10, <1>11, Steps

(* ... and where a CloseStream does.                                        *)
LEMMA CloseOrigin ==
    ASSUME TypeInv, [Next]_vars, NEW y \in Sides, NEW g, g.kind = "close", Holds(mpsc'[y], g)
    PROVE  \/ Holds(mpsc[y], g)
           \/ \E s \in Sessions : Past(y, s) /\ stream_id[y][s] = g.id /\ Over(y, s)'
<1>1. ASSUME NEW x \in Sides, NEW f, Queued(x, f)
      PROVE  Holds(mpsc[y], g) \/ (x = y /\ g = f)
    <2>1. mpsc[x] \in Seq(Frames) /\ f \in Frames
        BY <1>1, QueuesTyped DEF Queued
    <2>2. Holds(Append(mpsc[x], f), g) <=> Holds(mpsc[x], g) \/ g = f
        BY <2>1, AppendFacts
    <2> QED BY <1>1, <2>2 DEF Queued
<1>2. ASSUME NEW x \in Sides, Taken(x) PROVE Holds(mpsc[y], g)
    <2>1. mpsc[x] \in Seq(Frames)
        BY QueuesTyped
    <2> QED BY <1>2, <2>1, TailFacts DEF Taken
<1>3. ASSUME UNCHANGED mpsc PROVE Holds(mpsc[y], g)
    BY <1>3
<1>4. ASSUME NEW s \in Sessions, Ask(s) PROVE Holds(mpsc[y], g)
    BY <1>1, <1>4, AskEffect, SideFacts, MadeFacts DEF TypeInv
<1>5. ASSUME NEW x \in Sides, ConnOpen(x) \/ ConnAnnounce(x) \/ ConnAccept(x)
      PROVE  Holds(mpsc[y], g)
    <2>1. CASE ConnOpen(x)
        BY <1>2, <2>1, OpenEffect DEF TypeInv
    <2>2. CASE ConnAnnounce(x)
        BY <1>1, <2>2, AnnounceEffect, FrameFacts DEF TypeInv
    <2>3. CASE ConnAccept(x)
        BY <1>3, <2>3 DEF ConnAccept
    <2> QED BY <1>5, <2>1, <2>2, <2>3
<1>6. ASSUME NEW x \in Sides, ConnRoute(x) \/ ConnDeliver(x) \/ ConnFlush(x)
      PROVE  Holds(mpsc[y], g)
    BY <1>3, <1>6 DEF ConnRoute, ConnDeliver, ConnFlush
<1>7. ASSUME NEW x \in Sides, ConnClose(x) \/ ConnWrite(x) PROVE Holds(mpsc[y], g)
    BY <1>2, <1>7, CloseEffect, WriteEffect DEF TypeInv
<1>8. ASSUME NEW x \in Sides, ConnEnds(x) PROVE Holds(mpsc[y], g)
    <2>1. mpsc'[x] = <<>> /\ \A z \in Sides : z # x => mpsc'[z] = mpsc[z]
        BY <1>8, EndEffect DEF TypeInv, Ended
    <2> QED BY <2>1, SmallFacts
<1>9. CASE LinkLost \/ UNCHANGED vars
    BY <1>3, <1>9 DEF LinkLost, vars
<1>10. ASSUME NEW x \in Sides, NEW s \in Sessions, Request(x, s) \/ Reply(x, s) \/ Write(x, s)
       PROVE  Holds(mpsc[y], g)
    BY <1>1, <1>10, RequestEffect, ReplyEffect, SayEffect, MadeFacts DEF TypeInv
<1>11. ASSUME NEW x \in Sides, NEW s \in Sessions, Close(x, s)
       PROVE  \/ Holds(mpsc[y], g)
              \/ \E t \in Sessions : Past(y, t) /\ stream_id[y][t] = g.id /\ Over(y, t)'
    <2>1. /\ task[x][s] = "close" /\ stream_id[x][s] \in Ids
          /\ Queued(x, CloseFrame(stream_id[x][s])) /\ TaskSet(x, s, "done")
        BY <1>11, ShutEffect DEF TypeInv
    <2>2. Past(x, s) /\ Over(x, s)'
        BY <2>1 DEF TaskSet, Past, Over
    <2>3. CloseFrame(stream_id[x][s]).id = stream_id[x][s]
        BY <2>1, MadeFacts
    <2> QED BY <1>1, <2>1, <2>2, <2>3
<1>12. ASSUME NEW x \in Sides, NEW s \in Sessions, Await(x, s) \/ Answer(x, s) \/ Read(x, s)
                                                   \/ Turns(x, s)
       PROVE  Holds(mpsc[y], g)
    <2>1. UNCHANGED mpsc
        BY <1>12 DEF Await, Answer, Read, Turns, StartWrite, StartClose, Return, TaskFails
    <2> QED BY <1>3, <2>1
<1> QED BY <1>4, <1>5, <1>6, <1>7, <1>8, <1>9, <1>10, <1>11, <1>12, Steps

(* What is on its way keeps its owner, and what was closed its end.         *)
LEMMA OwnersKept ==
    ASSUME TypeInv, MarkInv, RouteInv, [Next]_vars, NEW y \in Sides
    PROVE  Owned(y)' /\ Closers(y)'
<1>1. Durable
    BY NextDurable
<1>2. Other(y) \in Sides /\ Other(Other(y)) = y /\ Owned(y) /\ Closers(y)
    BY SideFacts DEF RouteInv
<1>3. ASSUME NEW g, OwnedBy(y, g) PROVE OwnedBy(y, g)'
    BY <1>1, <1>3 DEF OwnedBy, Durable
<1>4. ASSUME NEW g, g.kind = "data", Holds(Sent(y)', g) PROVE OwnedBy(y, g)
    <2>1. Holds(Sent(y), g) \/ Speaks(y, g)
        BY <1>4, SentOrigin
    <2> QED BY <1>2, <1>4, <2>1 DEF Owned, OwnedBy, Speaks
<1>5. ASSUME NEW g, g.kind = "data", InDelivery(Other(y), g)' PROVE OwnedBy(y, g)
    <2>1. InDelivery(Other(y), g) \/ Holds(Sent(y), g)
        BY <1>2, <1>5, HandOrigin
    <2> QED BY <1>2, <1>5, <2>1 DEF Owned
<1>6. Owned(y)'
    BY <1>3, <1>4, <1>5 DEF Owned
<1>7. ASSUME NEW g, g.kind = "close", Holds(mpsc'[y], g)
      PROVE  \E s \in Sessions : Past(y, s) /\ stream_id[y][s] = g.id /\ Over(y, s)'
    <2>1. CASE Holds(mpsc[y], g)
        <3>1. PICK s \in Sessions : Past(y, s) /\ stream_id[y][s] = g.id /\ Over(y, s)
            BY <1>2, <1>7, <2>1 DEF Closers
        <3>2. Over(y, s)'
            BY <1>1, <3>1 DEF Durable
        <3> QED BY <3>1, <3>2
    <2> QED BY <1>7, <2>1, CloseOrigin
<1>8. Closers(y)'
    BY <1>1, <1>7 DEF Closers, Durable
<1> QED BY <1>6, <1>8

(* A stream stays registered while its id, and what is registered, stay.    *)
LEMMA RegisteredKept ==
    ASSUME NEW y \in Sides, NEW s \in Sessions, Registered(y, s), Durable,
           ~Up(y)' \/ (Up(y) /\ streams'[y] = streams[y]),
           Starts(y, s)' => Starts(y, s), stream_id'[y][s] = stream_id[y][s]
    PROVE  Registered(y, s)'
<1>1. Over(y, s) => Over(y, s)'
    BY DEF Durable, Over, Past
<1> QED BY <1>1 DEF Registered

(* The steps that register nothing, and remove nothing of an end that runs. *)
LEMMA QuietRegistered ==
    ASSUME TypeInv, MarkInv, RouteInv, [Next]_vars, UNCHANGED stream_id,
           \A y \in Sides, t \in Sessions : Past(y, t)' => Past(y, t),
           \A y \in Sides : \/ conn'[y] = conn[y] /\ streams'[y] = streams[y]
                            \/ ~Up(y)'
                            \/ Up(y) /\ conn'[y].at # "announce" /\ streams'[y] = streams[y]
    PROVE  \A y \in Sides, t \in Sessions : Registered(y, t)'
<1> SUFFICES ASSUME NEW y \in Sides, NEW t \in Sessions PROVE Registered(y, t)'
    OBVIOUS
<1>1. Registered(y, t) /\ Durable
    BY NextDurable DEF RouteInv
<1>2. ~Up(y)' \/ (Up(y) /\ streams'[y] = streams[y])
    BY DEF Up
<1>3. CASE ~Up(y)'
    BY <1>3 DEF Registered
<1>4. CASE Up(y)'
    <2>1. Announcing(y, t)' => Announcing(y, t)
        BY <1>4 DEF Announcing
    <2> QED BY <1>1, <1>2, <2>1, RegisteredKept DEF Starts
<1> QED BY <1>3, <1>4

(* A stream that closes was over when its end was told.                     *)
LEMMA CloseRegistered ==
    ASSUME OneOpener, TypeInv, MarkInv, IdInv, RouteInv, [Next]_vars, NEW x \in Sides, ConnClose(x)
    PROVE  \A y \in Sides, t \in Sessions : Registered(y, t)'
<1> SUFFICES ASSUME NEW y \in Sides, NEW t \in Sessions PROVE Registered(y, t)'
    OBVIOUS
<1>1. Registered(y, t) /\ Durable
    BY NextDurable DEF RouteInv
<1>2. PICK f : f = Head(mpsc[x])
    OBVIOUS
<1>3. /\ conn[x].at = "select" /\ Taken(x) /\ f \in Closes /\ f.id \in Ids
      /\ \A j \in Ids : j # f.id => streams'[x][j] = streams[x][j]
      /\ \A z \in Sides : z # x => streams'[z] = streams[z]
      /\ UNCHANGED <<conn, stream_id, task>>
    BY <1>2, CloseEffect DEF TypeInv, taskVars
<1>4. Starts(y, t)' <=> Starts(y, t)
    BY <1>3 DEF Starts, Past, Announcing
<1>5. CASE y # x
    <2>1. Up(y)' <=> Up(y)
        BY <1>3 DEF Up
    <2> QED BY <1>1, <1>3, <1>4, <1>5, <2>1, RegisteredKept
<1>6. CASE y = x /\ Starts(x, t)
    <2>1. Past(x, t) /\ stream_id[x][t] \in Ids
        BY <1>3, <1>6 DEF Starts, Announcing, TypeInv, Equipped
    <2>2. CASE stream_id[x][t] = f.id
        <3>1. Holds(mpsc[x], f) /\ f.kind = "close"
            <4>1. mpsc[x] \in Seq(Frames) /\ mpsc[x] # <<>>
                BY <1>3, QueuesTyped DEF Taken
            <4> QED BY <1>2, <1>3, <4>1, TailFacts, FrameFacts
        <3>2. PICK u \in Sessions : stream_id[x][u] = f.id /\ Over(x, u)
            BY <3>1 DEF RouteInv, Closers
        <3>3. u = t
            BY <1>3, <2>2, <3>2, IdsMatch, SideFacts
        <3> QED BY <1>3, <1>6, <3>2, <3>3 DEF Registered, Over
    <2>3. CASE stream_id[x][t] # f.id
        <3>1. streams'[x][stream_id[x][t]] = streams[x][stream_id[x][t]]
            BY <1>3, <2>1, <2>3
        <3> QED BY <1>1, <1>3, <1>4, <1>6, <3>1 DEF Registered, Up, Over
    <2> QED BY <2>2, <2>3
<1>7. CASE ~Starts(x, t) /\ y = x
    BY <1>4, <1>7 DEF Registered
<1> QED BY <1>5, <1>6, <1>7

(* A stream is registered under an id no other stream has.                  *)
LEMMA GivenRegistered ==
    ASSUME TypeInv, RouteInv, NEW x \in Sides, NEW s \in Sessions, NEW i \in Ids, Given(x, s, i),
           Durable, \A t \in Sessions : t # s => stream_id[x][t] # i,
           \A y \in Sides : Up(y)' => Up(y),
           \A y \in Sides, t \in Sessions : y # x \/ t # s => (Starts(y, t)' => Starts(y, t))
    PROVE  \A y \in Sides, t \in Sessions : Registered(y, t)'
<1> SUFFICES ASSUME NEW y \in Sides, NEW t \in Sessions PROVE Registered(y, t)'
    OBVIOUS
<1>1. Registered(y, t)
    BY DEF RouteInv
<1>2. CASE y = x /\ t = s
    BY <1>2 DEF Registered, Given
<1>3. CASE y # x
    BY <1>1, <1>3, RegisteredKept DEF Given
<1>4. CASE y = x /\ t # s
    <2>1. stream_id'[x][t] = stream_id[x][t] /\ stream_id[x][t] # i
        BY <1>4 DEF Given
    <2>2. ASSUME Starts(x, t)
          PROVE  streams'[x][stream_id[x][t]] = streams[x][stream_id[x][t]]
        <3>1. stream_id[x][t] \in Ids
            <4>1. CASE Past(x, t)
                BY <4>1 DEF TypeInv, Equipped
            <4>2. CASE Announcing(x, t)
                BY <4>2, FrameFacts DEF Announcing, TypeInv, Numbered, Shape
            <4> QED BY <2>2, <4>1, <4>2 DEF Starts
        <3> QED BY <2>1, <3>1 DEF Given
    <2>3. Over(x, t) => Over(x, t)'
        BY DEF Durable, Over, Past
    <2> QED BY <1>1, <1>4, <2>1, <2>2, <2>3 DEF Registered
<1> QED BY <1>2, <1>3, <1>4

(* The id that is next is new.                                              *)
LEMMA OpenRegistered ==
    ASSUME OneOpener, TypeInv, MarkInv, IdInv, RouteInv, [Next]_vars, NEW x \in Sides, ConnOpen(x)
    PROVE  \A y \in Sides, t \in Sessions : Registered(y, t)'
<1>1. PICK s \in Sessions : s = Head(mpsc[x]).stream
    BY OpenEffect DEF TypeInv
<1>2. Opener[s] = x
    BY <1>1, OpenFacts
<1>3. PICK i \in Ids : /\ i = stream_counter[x] + 1 /\ Given(x, s, i) /\ UNCHANGED task
                       /\ ConnSet(x, "announce", NewFrame(i, s)) /\ conn[x].at = "select"
    BY <1>1, OpenEffect DEF TypeInv, Given, NextId
<1>4. stream_counter[x] \in Nat /\ i \in Nat
    BY <1>3, TypeParts, SideFacts DEF TypeInv, CounterT
<1>5. \A t \in Sessions : stream_id[x][t] =< stream_counter[x] /\ stream_id[x][t] \in Nat
    BY <1>2, TypeParts, SideFacts DEF OneOpener, IdInv, IdOf, TypeInv, IdT
<1>6. \A t \in Sessions : stream_id[x][t] # i
    BY <1>3, <1>4, <1>5
<1>7. \A y \in Sides : Up(y)' => Up(y)
    BY <1>3 DEF ConnSet, Up
<1>8. \A y \in Sides, t \in Sessions : y # x \/ t # s => (Starts(y, t)' => Starts(y, t))
    BY <1>3, MadeFacts DEF ConnSet, Starts, Past, Announcing
<1> QED BY <1>3, <1>6, <1>7, <1>8, NextDurable, GivenRegistered

(* The id that is taken over is the stream's own.                           *)
LEMMA AcceptRegistered ==
    ASSUME OneOpener, TypeInv, MarkInv, IdInv, RouteInv, [Next]_vars, NEW x \in Sides,
           ConnAccept(x)
    PROVE  \A y \in Sides, t \in Sessions : Registered(y, t)'
<1>1. PICK z \in Sides : z = Other(x)
    BY SideFacts
<1>2. PICK f : f = Head(wire[z])
    OBVIOUS
<1>3. PICK s \in Sessions : /\ s = f.stream /\ f.id \in Ids /\ Given(x, s, f.id)
                            /\ TaskSet(x, s, "answer") /\ UNCHANGED conn
    BY <1>1, <1>2, AcceptEffect DEF TypeInv
<1>4. stream_id[z][s] = f.id
    BY <1>1, <1>2, <1>3, AcceptFacts
<1>5. \A t \in Sessions : t # s => stream_id[x][t] # f.id
    BY <1>3, <1>4, IdsMatch, SideFacts
<1>6. \A y \in Sides : Up(y)' => Up(y)
    BY <1>3 DEF Up
<1>7. \A y \in Sides, t \in Sessions : y # x \/ t # s => (Starts(y, t)' => Starts(y, t))
    BY <1>3 DEF TaskSet, Starts, Past, Announcing
<1> QED BY <1>3, <1>5, <1>6, <1>7, NextDurable, GivenRegistered

(* Registered streams stay so until they are over.                          *)
LEMMA NextRegistered ==
    ASSUME OneOpener, TypeInv, MarkInv, IdInv, RouteInv, [Next]_vars
    PROVE  \A y \in Sides, t \in Sessions : Registered(y, t)'
<1> DEFINE Goal == \A y \in Sides, t \in Sessions : Registered(y, t)'
<1>1. ASSUME Calm, \A y \in Sides :
                 \/ conn'[y] = conn[y] /\ streams'[y] = streams[y]
                 \/ ~Up(y)'
                 \/ Up(y) /\ conn'[y].at # "announce" /\ streams'[y] = streams[y]
      PROVE  Goal
    BY <1>1, QuietRegistered DEF Calm
<1>2. ASSUME NEW s \in Sessions, Ask(s) PROVE Goal
    <2>1. UNCHANGED <<conn, streams>>
        BY <1>2 DEF Ask, connVars
    <2> QED BY <1>1, <1>2, <2>1, AskCalm
<1>3. ASSUME NEW x \in Sides, ConnOpen(x) PROVE Goal
    BY <1>3, OpenRegistered
<1>4. ASSUME NEW x \in Sides, ConnAnnounce(x) PROVE Goal
    <2>1. PICK f : f = conn[x].frame
        OBVIOUS
    <2>2. /\ conn[x].at = "announce" /\ TaskSet(x, f.stream, "request") /\ f.stream \in Sessions
          /\ ConnSet(x, "select", NoFrame) /\ UNCHANGED <<streams, stream_id>>
        BY <1>4, <2>1, AnnounceEffect DEF TypeInv
    <2>3. \A y \in Sides, t \in Sessions : Starts(y, t)' => Starts(y, t)
        BY <2>1, <2>2 DEF Starts, Past, Announcing, TaskSet, ConnSet
    <2>4. \A y \in Sides : Up(y)' => Up(y)
        BY <2>2 DEF Up, ConnSet
    <2> QED BY <2>2, <2>3, <2>4, NextDurable, RegisteredKept DEF RouteInv
<1>5. ASSUME NEW x \in Sides, ConnAccept(x) PROVE Goal
    BY <1>5, AcceptRegistered
<1>6. ASSUME NEW x \in Sides, ConnRoute(x) PROVE Goal
    <2>1. /\ conn[x].at = "select" /\ UNCHANGED streams
          /\ UNCHANGED conn \/ \E f : ConnSet(x, "deliver", f)
        BY <1>6, RouteEffect, SideFacts DEF TypeInv
    <2>2. \A y \in Sides : \/ conn'[y] = conn[y] /\ streams'[y] = streams[y]
                           \/ Up(y) /\ conn'[y].at # "announce" /\ streams'[y] = streams[y]
        BY <2>1 DEF ConnSet, Up
    <2> QED BY <1>1, <1>6, <2>2, RouteCalm
<1>7. ASSUME NEW x \in Sides, ConnDeliver(x) \/ ConnFlush(x) PROVE Goal
    <2>1. /\ conn[x].at \in {"deliver", "write"} /\ UNCHANGED streams
          /\ ConnSet(x, "select", NoFrame)
        BY <1>7, HandOverEffect, FlushEffect DEF TypeInv
    <2>2. \A y \in Sides : \/ conn'[y] = conn[y] /\ streams'[y] = streams[y]
                           \/ Up(y) /\ conn'[y].at # "announce" /\ streams'[y] = streams[y]
        BY <2>1 DEF ConnSet, Up
    <2> QED BY <1>1, <1>7, <2>2, HandOverCalm, WriteCalm
<1>8. ASSUME NEW x \in Sides, ConnWrite(x) PROVE Goal
    <2>1. /\ conn[x].at = "select" /\ UNCHANGED streams
          /\ UNCHANGED conn \/ \E f : ConnSet(x, "write", f)
        BY <1>8, WriteEffect DEF TypeInv
    <2>2. \A y \in Sides : \/ conn'[y] = conn[y] /\ streams'[y] = streams[y]
                           \/ Up(y) /\ conn'[y].at # "announce" /\ streams'[y] = streams[y]
        BY <2>1 DEF ConnSet, Up
    <2> QED BY <1>1, <1>8, <2>2, WriteCalm
<1>9. ASSUME NEW x \in Sides, ConnClose(x) PROVE Goal
    BY <1>9, CloseRegistered
<1>10. ASSUME NEW x \in Sides, ConnEnds(x) PROVE Goal
    <2>1. \E l \in {"closed", "panic"} : \E f : Ended(x, l, f)
        BY <1>10, EndEffect DEF TypeInv
    <2>2. \A y \in Sides : \/ conn'[y] = conn[y] /\ streams'[y] = streams[y]
                           \/ ~Up(y)'
        BY <2>1 DEF Ended, ConnSet, Up
    <2> QED BY <1>1, <1>10, <2>2, EndCalm
<1>11. CASE LinkLost \/ UNCHANGED vars
    <2>1. UNCHANGED <<conn, streams>>
        BY <1>11 DEF LinkLost, vars
    <2> QED BY <1>1, <1>11, <2>1, EndCalm, StutterCalm
<1>12. ASSUME NEW x \in Sides, NEW s \in Sessions,
             \/ Request(x, s) \/ Reply(x, s) \/ Write(x, s) \/ Close(x, s)
             \/ Await(x, s) \/ Answer(x, s) \/ Read(x, s) \/ Turns(x, s)
      PROVE  Goal
    <2>1. UNCHANGED <<conn, streams>>
        BY <1>12 DEF Request, Reply, Write, Close, Await, Answer, Read, Turns, StartWrite,
                     StartClose, Return, TaskFails, connVars
    <2> QED BY <1>1, <1>12, <2>1, TasksCalm
<1> QED BY <1>2, <1>3, <1>4, <1>5, <1>6, <1>7, <1>8, <1>9, <1>10, <1>11, <1>12, Steps

(* No streams, and nothing on its way, at first.                            *)
LEMMA InitRoutes ==
    ASSUME Init
    PROVE  RouteInv
<1>1. /\ \A x \in Sides : /\ wire[x] = <<>> /\ mpsc[x] = <<>>
                          /\ conn[x].at = "select"
      /\ \A x \in Sides, s \in Sessions : task[x][s] = "none"
    BY DEF Init, PerStream
<1>2. ASSUME NEW x \in Sides PROVE Owned(x)
    <2>1. Sent(x) = <<>>
        BY <1>1 DEF Sent, Pipe, InHand
    <2>2. Other(x) \in Sides
        BY SideFacts
    <2> QED BY <1>1, <2>1, <2>2, SmallFacts DEF Owned, InDelivery
<1>3. ASSUME NEW x \in Sides PROVE Closers(x)
    BY <1>1, SmallFacts DEF Closers
<1>4. ASSUME NEW x \in Sides, NEW s \in Sessions PROVE Registered(x, s)
    BY <1>1 DEF Registered, Starts, Past, Announcing
<1> QED BY <1>2, <1>3, <1>4 DEF RouteInv

(* Every step keeps the routes.                                             *)
LEMMA NextRoutes ==
    ASSUME OneOpener, TypeInv, MarkInv, IdInv, RouteInv, [Next]_vars
    PROVE  RouteInv'
<1>1. \A y \in Sides : Owned(y)' /\ Closers(y)'
    BY OwnersKept
<1>2. \A y \in Sides, s \in Sessions : Registered(y, s)'
    BY NextRegistered
<1> QED BY <1>1, <1>2 DEF RouteInv
-----------------------------------------------------------------------------
(* What an end says on a stream, on its way to the handler at the other. *)

\* payloads that wait for the task of a stream, as the frames they came in
Img(i, q) == [k \in 1..Len(q) |-> DataFrame(i, q[k])]
\* a frame that waits to be delivered
Held(y) == IF conn[y].at = "deliver" THEN <<conn[y].frame>> ELSE <<>>
\* what will still reach the other end
Rest(x) == IF Up(Other(x)) THEN Sent(x) ELSE <<>>
Coming(x, s) ==
    Img(stream_id[x][s], inbox[Other(x)][s]) \o Held(Other(x)) \o Rest(x)

\* the words of an end on a stream: the name of a protocol, then its messages
Script(x, s) == [r \in Nat |->
    DataFrame(stream_id[x][s],
              IF r = 0 THEN (IF Opener[s] = x THEN ProtoOf[s] ELSE agreed[x][s])
                       ELSE Message(s, x, r))]

\* the number of the next word to be heard
Heard(y, s) == IF task[y][s] \in {"none", "asked", "request", "await", "answer"}
               THEN 0 ELSE Len(got[y][s]) + 1

(* Payloads as frames.                                                      *)
LEMMA ImgFacts ==
    ASSUME NEW i \in Ids, NEW q \in Seq(Payloads)
    PROVE  /\ Img(i, q) \in Seq(Frames)
           /\ Img(i, <<>>) = <<>>
           /\ \A p \in Payloads : Img(i, Append(q, p)) = Append(Img(i, q), DataFrame(i, p))
           /\ q # <<>> => /\ Img(i, q) # <<>> /\ Head(Img(i, q)) = DataFrame(i, Head(q))
                          /\ Img(i, Tail(q)) = Tail(Img(i, q))
<1>1. \A p \in Payloads : DataFrame(i, p) \in Frames
    BY MadeFacts, FrameFacts
<1>2. \A u \in Seq(Payloads) : Img(i, u) \in Seq(Frames) /\ Len(Img(i, u)) = Len(u)
    <2> SUFFICES ASSUME NEW u \in Seq(Payloads)
                 PROVE  Img(i, u) \in Seq(Frames) /\ Len(Img(i, u)) = Len(u)
        OBVIOUS
    <2>1. Len(u) \in Nat /\ \A k \in 1..Len(u) : u[k] \in Payloads
        OBVIOUS
    <2>2. Img(i, u) \in [1..Len(u) -> Frames]
        BY <1>1, <2>1 DEF Img
    <2> QED BY <2>1, <2>2
<1>3. \A u \in Seq(Payloads) : \A k \in 1..Len(u) : Img(i, u)[k] = DataFrame(i, u[k])
    BY DEF Img
<1>4. Img(i, <<>>) = <<>>
    <2>1. <<>> \in Seq(Payloads) /\ Len(<<>>) = 0
        OBVIOUS
    <2>2. Img(i, <<>>) \in Seq(Frames) /\ Len(Img(i, <<>>)) = 0
        BY <1>2, <2>1
    <2> QED BY <2>2, EmptySeq
<1>5. ASSUME NEW p \in Payloads
      PROVE  Img(i, Append(q, p)) = Append(Img(i, q), DataFrame(i, p))
    <2> DEFINE a == Append(q, p)
               b == Append(Img(i, q), DataFrame(i, p))
    <2>1. a \in Seq(Payloads) /\ Len(a) = Len(q) + 1 /\ Len(q) \in Nat
        OBVIOUS
    <2>2. b \in Seq(Frames) /\ Len(b) = Len(q) + 1
        BY <1>1, <1>2
    <2>3. ASSUME NEW k \in 1..(Len(q) + 1) PROVE Img(i, a)[k] = b[k]
        <3>1. Img(i, a)[k] = DataFrame(i, a[k])
            BY <1>3, <2>1
        <3>2. CASE k = Len(q) + 1
            <4>1. a[k] = p
                BY <2>1, <3>2
            <4>2. b[k] = DataFrame(i, p)
                BY <1>1, <1>2, <2>1, <3>2
            <4> QED BY <3>1, <4>1, <4>2
        <3>3. CASE k # Len(q) + 1
            <4>1. k \in 1..Len(q)
                BY <2>1, <3>3
            <4>2. a[k] = q[k]
                BY <4>1
            <4>3. b[k] = Img(i, q)[k]
                BY <1>1, <1>2, <4>1
            <4> QED BY <1>3, <3>1, <4>1, <4>2, <4>3
        <3> QED BY <3>2, <3>3
    <2>4. Img(i, a) \in Seq(Frames) /\ Len(Img(i, a)) = Len(q) + 1
        BY <1>2, <2>1
    <2> HIDE DEF a, b
    <2>5. Img(i, a) = b
        BY <2>2, <2>3, <2>4, SeqEqual
    <2> QED BY <2>5 DEF a, b
<1>6. ASSUME q # <<>>
      PROVE  /\ Img(i, q) # <<>> /\ Head(Img(i, q)) = DataFrame(i, Head(q))
             /\ Img(i, Tail(q)) = Tail(Img(i, q))
    <2> DEFINE a == Tail(q)
               m == Img(i, q)
    <2>1. /\ Len(q) \in Nat /\ Len(q) > 0 /\ Head(q) = q[1]
          /\ a \in Seq(Payloads) /\ Len(a) = Len(q) - 1
          /\ \A k \in 1..(Len(q) - 1) : a[k] = q[k + 1]
        BY <1>6
    <2>2. m \in Seq(Frames) /\ Len(m) = Len(q) /\ m[1] = DataFrame(i, q[1])
        BY <1>2, <1>3, <2>1
    <2> HIDE DEF m
    <2>3. /\ m # <<>> /\ Head(m) = m[1] /\ Tail(m) \in Seq(Frames)
          /\ Len(Tail(m)) = Len(q) - 1 /\ \A k \in 1..(Len(q) - 1) : Tail(m)[k] = m[k + 1]
        BY <2>1, <2>2
    <2>4. ASSUME NEW k \in 1..(Len(q) - 1) PROVE Img(i, a)[k] = Tail(m)[k]
        <3>1. k + 1 \in 1..Len(q) /\ k \in 1..Len(a)
            BY <2>1
        <3>2. Img(i, a)[k] = DataFrame(i, a[k])
            BY <1>3, <2>1, <3>1
        <3>3. m[k + 1] = DataFrame(i, q[k + 1])
            BY <1>3, <3>1 DEF m
        <3> QED BY <2>1, <2>3, <3>2, <3>3
    <2>5. Img(i, a) \in Seq(Frames) /\ Len(Img(i, a)) = Len(q) - 1
        BY <1>2, <2>1
    <2> HIDE DEF a
    <2>6. Img(i, a) = Tail(m)
        BY <2>3, <2>4, <2>5, SeqEqual
    <2> QED BY <2>1, <2>2, <2>3, <2>6 DEF a, m
<1> QED BY <1>2, <1>4, <1>5, <1>6

(* The words of an end on a stream differ, and are its own.                 *)
LEMMA ScriptWords ==
    ASSUME AgreedT, NEW x \in Sides, NEW s \in Sessions
    PROVE  /\ Words(Script(x, s), stream_id[x][s])
           /\ \A r \in Nat : r > 0 =>
                  Script(x, s)[r] = DataFrame(stream_id[x][s], Message(s, x, r))
           /\ Script(x, s)[0] = DataFrame(stream_id[x][s],
                                    IF Opener[s] = x THEN ProtoOf[s] ELSE agreed[x][s])
<1> DEFINE i == stream_id[x][s]
           p == IF Opener[s] = x THEN ProtoOf[s] ELSE agreed[x][s]
           W == Script(x, s)
<1>1. W = [r \in Nat |-> DataFrame(i, IF r = 0 THEN p ELSE Message(s, x, r))]
    BY DEF Script
<1>2. p \in Protocols \cup {NoProtocol}
    BY SideFacts DEF AgreedT
<1> HIDE DEF i, p, W
<1>3. \A r \in Nat : r > 0 => W[r] = DataFrame(i, Message(s, x, r))
    BY <1>1
<1>4. W[0] = DataFrame(i, p)
    BY <1>1
<1>5. ASSUME NEW q \in Nat, NEW r \in Nat, W[q] = W[r] PROVE q = r
    <2>1. CASE q > 0 /\ r > 0
        <3>1. Message(s, x, q) = Message(s, x, r)
            BY <1>3, <1>5, <2>1, MadeFacts
        <3> QED BY <3>1 DEF Message
    <2>2. \A n \in Nat : n > 0 => W[0] # W[n]
        <3> SUFFICES ASSUME NEW n \in Nat, n > 0, W[0] = W[n] PROVE FALSE
            OBVIOUS
        <3>1. p = Message(s, x, n)
            <4>1. DataFrame(i, p) = DataFrame(i, Message(s, x, n))
                BY <1>3, <1>4
            <4>2. DataFrame(i, p).payload = p
                BY MadeFacts
            <4>3. DataFrame(i, Message(s, x, n)).payload = Message(s, x, n)
                BY MadeFacts
            <4> QED BY <4>1, <4>2, <4>3
        <3>2. Message(s, x, n) \in Messages
            BY DEF Message, Messages
        <3> QED BY <1>2, <3>1, <3>2, PayloadsDiffer
    <2> QED BY <1>5, <2>1, <2>2
<1>6. \A r \in Nat : Mine(i, W[r])
    <2> SUFFICES ASSUME NEW r \in Nat PROVE Mine(i, W[r])
        OBVIOUS
    <2>1. \E u : W[r] = DataFrame(i, u)
        BY <1>3, <1>4
    <2> QED BY <2>1, MadeFacts DEF Mine
<1>7. Words(W, i)
    BY <1>5, <1>6 DEF Words
<1> QED BY <1>3, <1>4, <1>7 DEF i, p, W

(* The three parts of what is coming.                                       *)
LEMMA ComingTyped ==
    ASSUME TypeInv, NEW x \in Sides, NEW y \in Sides, y = Other(x), NEW s \in Sessions,
           stream_id[x][s] \in Ids
    PROVE  /\ inbox[y][s] \in Seq(Payloads)
           /\ Img(stream_id[x][s], inbox[y][s]) \in Seq(Frames)
           /\ Held(y) \in Seq(Frames) /\ Rest(x) \in Seq(Frames)
           /\ Coming(x, s) = Img(stream_id[x][s], inbox[y][s]) \o Held(y) \o Rest(x)
<1>1. inbox[y][s] \in Seq(Payloads)
    BY TypeParts DEF TypeInv, InboxT
<1>2. Img(stream_id[x][s], inbox[y][s]) \in Seq(Frames)
    BY <1>1, ImgFacts
<1>3. Held(y) \in Seq(Frames)
    <2>1. CASE conn[y].at = "deliver"
        <3>1. conn[y].frame \in Frames
            BY <2>1, FrameFacts DEF TypeInv, Shape
        <3> QED BY <2>1, <3>1 DEF Held
    <2>2. CASE conn[y].at # "deliver"
        BY <2>2 DEF Held
    <2> QED BY <2>1, <2>2
<1>4. Rest(x) \in Seq(Frames)
    BY SentTyped DEF Rest
<1> QED BY <1>1, <1>2, <1>3, <1>4 DEF Coming
-----------------------------------------------------------------------------
(* The story of a stream, from what one end says to what the other hears. *)

Early(x, s) == task[x][s] \in {"none", "asked", "request", "answer", "reply"}
Young(x, s) == Early(x, s) \/ task[x][s] = "await"
Talks(x, s) == task[x][s] \in {"await", "read", "write", "close"}

\* what the two handlers have seen
Seen(x, y, s) ==
    /\ Young(x, s) => sent[x][s] = 0 /\ got[x][s] = <<>>
    /\ Early(x, s) /\ Opener[s] = y => agreed[y][s] = NoProtocol
    /\ \A n \in DOMAIN got[y][s] : got[y][s][n] = Message(s, x, n)
    /\ Opener[s] = x /\ agreed[x][s] # NoProtocol => agreed[y][s] = agreed[x][s]

\* what is on its way
Told(x, y, s) ==
    /\ ~Past(x, s) => inbox[y][s] = <<>>
    /\ ~Over(y, s) =>
           /\ Early(x, s) => Heard(y, s) = 0
           /\ Past(x, s) => Chain(Coming(x, s), stream_id[x][s], Script(x, s),
                                  Heard(y, s), sent[x][s])
           /\ Past(x, s) /\ Early(x, s) => Silence(Coming(x, s), stream_id[x][s])
           /\ link /\ Talks(x, s) => \/ Heard(y, s) = sent[x][s] + 1
                                     \/ Holds(Coming(x, s), Script(x, s)[sent[x][s]])

FlowInv == \A x, y \in Sides, s \in Sessions : y = Other(x) => Seen(x, y, s) /\ Told(x, y, s)

(* The numbers of the words.                                                *)
LEMMA CountsTyped ==
    ASSUME TypeInv, NEW x \in Sides, NEW s \in Sessions
    PROVE  /\ sent[x][s] \in Nat /\ got[x][s] \in Seq(Payloads) /\ Len(got[x][s]) \in Nat
           /\ Heard(x, s) \in Nat /\ AgreedT
           /\ Past(x, s) => stream_id[x][s] \in Ids /\ stream_id[x][s] # 0
           /\ Words(Script(x, s), stream_id[x][s])
<1>1. sent[x][s] \in Nat /\ got[x][s] \in Seq(Payloads) /\ AgreedT
    BY TypeParts DEF TypeInv, SentT, GotT
<1>2. Len(got[x][s]) \in Nat
    BY <1>1
<1>3. Past(x, s) => stream_id[x][s] \in Ids /\ stream_id[x][s] # 0
    BY SideFacts DEF TypeInv, Equipped
<1> QED BY <1>1, <1>2, <1>3, ScriptWords DEF Heard

(* All words differ, and are their stream's.                                *)
LEMMA ScriptsDiffer ==
    TypeInv => \A x \in Sides, s \in Sessions : Words(Script(x, s), stream_id[x][s])
BY CountsTyped

(* The same of the words of the next state.                                 *)
LEMMA ScriptStays ==
    ASSUME TypeInv'
    PROVE  (\A x \in Sides, s \in Sessions : Words(Script(x, s), stream_id[x][s]))'
BY ScriptsDiffer, PTL

(* The same words, to the same id.                                          *)
LEMMA ScriptSame ==
    ASSUME NEW x \in Sides, NEW s \in Sessions, stream_id'[x][s] = stream_id[x][s],
           agreed'[x][s] = agreed[x][s] \/ Opener[s] = x
    PROVE  Script(x, s)' = Script(x, s)
BY DEF Script

(* What the handlers have seen stays while they see nothing.                *)
LEMMA SeenKept ==
    ASSUME NEW x \in Sides, NEW y \in Sides, NEW s \in Sessions, Seen(x, y, s),
           sent'[x][s] = sent[x][s], got'[x][s] = got[x][s], got'[y][s] = got[y][s],
           agreed'[x][s] = agreed[x][s], agreed'[y][s] = agreed[y][s],
           Young(x, s)' => Young(x, s), Early(x, s)' => Early(x, s)
    PROVE  Seen(x, y, s)'
BY DEF Seen

(* The story stays while nothing is said and nothing heard.                 *)
LEMMA ToldKept ==
    ASSUME TypeInv, FlowInv, NEW x \in Sides, NEW y \in Sides, y = Other(x), NEW s \in Sessions,
           Durable, link' => link,
           Past(x, s)' => Past(x, s), Early(x, s)' => Early(x, s), Talks(x, s)' => Talks(x, s),
           ~Over(y, s)' => ~Over(y, s) /\ Heard(y, s)' = Heard(y, s),
           Past(x, s) \/ inbox'[y][s] = inbox[y][s],
           sent'[x][s] = sent[x][s], agreed'[x][s] = agreed[x][s] \/ Opener[s] = x,
           Past(x, s) /\ ~Over(y, s)' =>
               Near(Coming(x, s)', Coming(x, s), stream_id[x][s], ~link')
    PROVE  Told(x, y, s)'
<1>1. Told(x, y, s)
    BY DEF FlowInv
<1>2. CASE ~Past(x, s)
    <2>1. ~Past(x, s)' /\ ~Talks(x, s)'
        BY <1>2 DEF Past, Talks
    <2>2. inbox'[y][s] = <<>>
        BY <1>1, <1>2 DEF Told
    <2> QED BY <1>1, <2>1, <2>2 DEF Told
<1>3. CASE Past(x, s)
    <2> DEFINE L == Coming(x, s)
               M == Coming(x, s)'
               i == stream_id[x][s]
               W == Script(x, s)
               n == sent[x][s]
               c == Heard(y, s)
    <2>1. Past(x, s)' /\ stream_id'[x][s] = i /\ (~Over(y, s)' => Near(M, L, i, ~link'))
        BY <1>3 DEF Durable
    <2>2. Words(W, i) /\ n \in Nat /\ c \in Nat
        BY CountsTyped
    <2>3. Script(x, s)' = W
        BY <2>1, ScriptSame
    <2>4. \A r \in Nat : Mine(i, W[r])
        BY <2>2 DEF Words
    <2>5. ~Over(y, s) =>
              /\ Early(x, s) => c = 0
              /\ Chain(L, i, W, c, n)
              /\ Early(x, s) => Silence(L, i)
              /\ link /\ Talks(x, s) => c = n + 1 \/ Holds(L, W[n])
        BY <1>1, <1>3 DEF Told
    <2>6. ~Over(y, s)' =>
              /\ Early(x, s)' => Heard(y, s)' = 0
              /\ Chain(M, i, W, Heard(y, s)', n)
              /\ Early(x, s)' => Silence(M, i)
              /\ link' /\ Talks(x, s)' => Heard(y, s)' = n + 1 \/ Holds(M, W[n])
        <3> HIDE DEF L, M, i, W, n, c
        <3> SUFFICES ASSUME ~Over(y, s)'
                     PROVE  /\ Early(x, s)' => Heard(y, s)' = 0
                            /\ Chain(M, i, W, Heard(y, s)', n)
                            /\ Early(x, s)' => Silence(M, i)
                            /\ link' /\ Talks(x, s)' => Heard(y, s)' = n + 1 \/ Holds(M, W[n])
            OBVIOUS
        <3>1. ~Over(y, s) /\ Heard(y, s)' = c
            BY DEF c
        <3>2. Chain(M, i, W, c, n) /\ (Early(x, s) => Silence(M, i))
            BY <2>1, <2>2, <2>5, <3>1, NearChain
        <3>3. link' => \A g : Mine(i, g) /\ Holds(L, g) => Holds(M, g)
            BY <2>1, <2>2, NearChain
        <3>4. link' /\ Talks(x, s)' => c = n + 1 \/ Holds(M, W[n])
            BY <2>2, <2>4, <2>5, <3>1, <3>3
        <3> QED BY <2>5, <3>1, <3>2, <3>4
    <2>7. sent'[x][s] = n
        OBVIOUS
    <2> HIDE DEF L, W, n, c, i
    <2> QED BY <2>1, <2>3, <2>6, <2>7 DEF Told
<1> QED BY <1>2, <1>3

(* What was sent is made of frames, after a step as before it.              *)
LEMMA SentAreFrames == TypeInv => \A x \in Sides : Sent(x) \in Seq(Frames)
BY SentTyped

(* The same of what will have been sent.                                    *)
LEMMA SentStayFrames ==
    ASSUME TypeInv'
    PROVE  (\A x \in Sides : Sent(x) \in Seq(Frames))'
BY SentAreFrames, PTL

(* Only what is on the connection changes.                                  *)
LEMMA ComingKept ==
    ASSUME TypeInv, TypeInv', NEW x \in Sides, NEW y \in Sides, y = Other(x), NEW s \in Sessions,
           Past(x, s), Past(x, s)', stream_id'[x][s] = stream_id[x][s],
           inbox'[y][s] = inbox[y][s],
           \/ conn'[y] = conn[y]
           \/ /\ conn[y].at # "deliver" /\ conn'[y].at # "deliver"
              /\ Up(y) /\ Up(y)',
           Near(Sent(x)', Sent(x), stream_id[x][s], ~link')
    PROVE  Near(Coming(x, s)', Coming(x, s), stream_id[x][s], ~link')
<1> DEFINE u == Img(stream_id[x][s], inbox[y][s])
           v == Held(y)
           w == Rest(x)
           m == Rest(x)'
<1>1. stream_id[x][s] \in Ids
    BY CountsTyped
<1>2. u \in Seq(Frames) /\ v \in Seq(Frames) /\ w \in Seq(Frames) /\ Coming(x, s) = u \o v \o w
    BY <1>1, ComingTyped
<1>3. Held(y)' = Held(y) /\ (Up(y)' <=> Up(y))
    BY DEF Held, Up
<1>4. m \in Seq(Frames)
    <2>1. Sent(x)' \in Seq(Frames)
        BY SentStayFrames
    <2> QED BY <2>1 DEF Rest
<1>5. Coming(x, s)' = u \o v \o m
    BY <1>3 DEF Coming
<1>6. Near(m, w, stream_id[x][s], ~link')
    <2>1. CASE Up(y)
        BY <1>3, <2>1 DEF Rest
    <2>2. CASE ~Up(y)
        <3>1. m = <<>> /\ w = <<>>
            BY <1>3, <2>2 DEF Rest
        <3> QED BY <3>1 DEF Near, Alike
    <2> QED BY <2>1, <2>2
<1> HIDE DEF u, v, w, m
<1> QED BY <1>2, <1>4, <1>5, <1>6, NearLast

(* What a step of a connection task leaves of what an end says on a stream. *)
LEMMA SentNear ==
    ASSUME TypeInv, NEW x \in Sides, NEW i \in Ids,
           \/ \E s \in Sessions : Ask(s)
           \/ \E z \in Sides :
                  \/ ConnOpen(z) \/ ConnAnnounce(z) \/ ConnAccept(z) \/ ConnDeliver(z)
                  \/ ConnClose(z) \/ ConnWrite(z) \/ ConnFlush(z) \/ ConnEnds(z)
           \/ ConnRoute(x)
           \/ LinkLost \/ UNCHANGED vars
    PROVE  Near(Sent(x)', Sent(x), i, ~link')
<1> DEFINE Goal == Near(Sent(x)', Sent(x), i, ~link')
<1>1. ASSUME NEW z \in Sides, NEW f, Queued(z, f), f.kind # "data",
             \A y \in Sides : Untouched(y)
      PROVE  Goal
    <2>1. Alike(Sent(x)', Sent(x)) \/ Grows(Sent(x)', Sent(x), f)
        BY <1>1, SentQueued
    <2> QED BY <1>1, <2>1 DEF Near, Mine
<1>2. ASSUME NEW z \in Sides, Taken(z), Head(mpsc[z]).kind # "data",
             \A y \in Sides : Untouched(y), conn[z].at # "write", conn'[z].at # "write"
      PROVE  Goal
    <2>1. Alike(Sent(x)', Sent(x)) \/ Loses(Sent(x)', Sent(x), Head(mpsc[z]))
        BY <1>2, SentTaken
    <2> QED BY <1>2, <2>1 DEF Near, Mine
<1>3. ASSUME NEW s \in Sessions, Ask(s) PROVE Goal
    <2>1. Opener[s] \in Sides
        BY SideFacts
    <2>2. /\ Queued(Opener[s], AskFrame(s)) /\ AskFrame(s).kind = "ask"
          /\ UNCHANGED <<conn, wire, link>>
        BY <1>3, <2>1, AskEffect, MadeFacts DEF TypeInv, connVars
    <2>3. \A y \in Sides : Untouched(y)
        BY <2>2 DEF Untouched
    <2> QED BY <1>1, <2>1, <2>2, <2>3
<1>4. ASSUME NEW z \in Sides, ConnOpen(z) PROVE Goal
    <2>1. /\ conn[z].at # "write" /\ conn'[z].at # "write" /\ Taken(z) /\ Head(mpsc[z]) \in Asks
          /\ \A y \in Sides : Untouched(y)
        BY <1>4, OpenEffect DEF TypeInv, ConnSet, Untouched
    <2> QED BY <1>2, <2>1, FrameFacts
<1>5. ASSUME NEW z \in Sides, ConnAnnounce(z) PROVE Goal
    <2>1. PICK f : f = conn[z].frame
        OBVIOUS
    <2>2. /\ Queued(z, f) /\ f \in News /\ \A y \in Sides : Untouched(y)
        BY <1>5, <2>1, AnnounceEffect DEF TypeInv, ConnSet, Untouched
    <2> QED BY <1>1, <2>2, FrameFacts
<1>6. ASSUME NEW z \in Sides, ConnAccept(z) \/ (ConnRoute(z) /\ z = x) PROVE Goal
    <2>1. PICK y \in Sides : y = Other(z) /\ y # z
        BY SideFacts
    <2>2. PICK f : f = Head(wire[y])
        OBVIOUS
    <2>3. /\ ReadOff(y) /\ UNCHANGED <<mpsc, link>> /\ conn'[y] = conn[y]
          /\ conn'[z] = conn[z] \/ (conn[z].at # "write" /\ conn'[z].at # "write")
          /\ z = x \/ f.kind # "data"
        <3>1. CASE ConnAccept(z)
            BY <2>1, <2>2, <3>1, AcceptEffect, FrameFacts DEF TypeInv
        <3>2. CASE ConnRoute(z) /\ z = x
            BY <2>1, <2>2, <3>2, RouteEffect DEF TypeInv, ConnSet
        <3> QED BY <1>6, <3>1, <3>2
    <2>4. Beheaded(Sent(y)', Sent(y), f) /\ Alike(Sent(z)', Sent(z))
        BY <2>1, <2>2, <2>3, SentRead
    <2>5. x = z \/ x = y
        BY <2>1, SideFacts
    <2> QED BY <2>1, <2>3, <2>4, <2>5 DEF Near, Mine, Beheaded
<1>7. ASSUME NEW z \in Sides, ConnDeliver(z) PROVE Goal
    <2>1. UNCHANGED <<wire, link, mpsc>> /\ conn[z].at = "deliver" /\ ConnSet(z, "select", NoFrame)
        BY <1>7, HandOverEffect DEF TypeInv
    <2>2. Untouched(x)
        BY <2>1 DEF Untouched, ConnSet
    <2> QED BY <2>1, <2>2, SentQueue DEF Near
<1>8. ASSUME NEW z \in Sides, ConnClose(z) PROVE Goal
    <2>1. /\ conn[z].at # "write" /\ conn'[z].at # "write" /\ Taken(z) /\ Head(mpsc[z]) \in Closes
          /\ \A y \in Sides : Untouched(y)
        BY <1>8, CloseEffect DEF TypeInv, Untouched
    <2> QED BY <1>2, <2>1, FrameFacts
<1>9. ASSUME NEW z \in Sides, ConnWrite(z) \/ ConnFlush(z) PROVE Goal
    BY <1>9, SentWritten DEF Near
<1>10. ASSUME (\E z \in Sides : ConnEnds(z)) \/ LinkLost PROVE Goal
    <2>1. link' = FALSE /\ UNCHANGED wire
        <3>1. CASE LinkLost
            BY <3>1 DEF LinkLost
        <3>2. ASSUME NEW z \in Sides, ConnEnds(z) PROVE link' = FALSE /\ UNCHANGED wire
            BY <3>2, EndEffect DEF TypeInv, Ended
        <3> QED BY <1>10, <3>1, <3>2
    <2> QED BY <2>1, SentCut DEF Near
<1>11. CASE UNCHANGED vars
    <2>1. Untouched(x) /\ mpsc'[x] = mpsc[x]
        BY <1>11 DEF vars, Untouched
    <2> QED BY <2>1, SentQueue DEF Near
<1> QED BY <1>3, <1>4, <1>5, <1>6, <1>7, <1>8, <1>9, <1>10, <1>11

\* the tasks of a stream turn to nothing that would be missed
Keeps(x, y, s) ==
    /\ Past(x, s)' => Past(x, s)
    /\ Young(x, s)' => Young(x, s)
    /\ Early(x, s)' => Early(x, s)
    /\ Talks(x, s)' => Talks(x, s)
    /\ ~Over(y, s)' => ~Over(y, s) /\ Heard(y, s)' = Heard(y, s)

(* Tasks that stay where they are, or are asked for, miss nothing.          *)
LEMMA SameKeeps ==
    ASSUME NEW x \in Sides, NEW y \in Sides, NEW s \in Sessions, got'[y][s] = got[y][s],
           \A z \in {x, y} : \/ task'[z][s] = task[z][s]
                             \/ task[z][s] = "none" /\ task'[z][s] = "asked"
    PROVE  Keeps(x, y, s)
BY DEF Keeps, Past, Young, Early, Talks, Over, Heard

(* A pair that a step leaves alone.                                         *)
LEMMA PairKept ==
    ASSUME TypeInv, TypeInv', FlowInv, NEW x \in Sides, NEW y \in Sides, y = Other(x),
           NEW s \in Sessions, Durable, link' => link,
           sent'[x][s] = sent[x][s], got'[x][s] = got[x][s], got'[y][s] = got[y][s],
           agreed'[x][s] = agreed[x][s], agreed'[y][s] = agreed[y][s],
           Keeps(x, y, s), inbox'[y][s] = inbox[y][s],
           \/ conn'[y] = conn[y]
           \/ /\ conn[y].at # "deliver" /\ conn'[y].at # "deliver"
              /\ Up(y) /\ Up(y)',
           Past(x, s) => Near(Sent(x)', Sent(x), stream_id[x][s], ~link')
    PROVE  Seen(x, y, s)' /\ Told(x, y, s)'
<1>1. Seen(x, y, s)
    BY DEF FlowInv
<1>2. Seen(x, y, s)'
    BY <1>1, SeenKept DEF Keeps
<1>3. ASSUME Past(x, s) PROVE Near(Coming(x, s)', Coming(x, s), stream_id[x][s], ~link')
    BY <1>3, ComingKept DEF Durable
<1>4. Told(x, y, s)'
    BY <1>3, ToldKept DEF Keeps
<1> QED BY <1>2, <1>4

(* Steps that leave a pair alone, or change only what is sent.              *)
LEMMA AwayFlow ==
    ASSUME TypeInv, TypeInv', MarkInv, FlowInv, [Next]_vars,
           NEW x \in Sides, NEW y \in Sides, y = Other(x), NEW s \in Sessions,
           \/ \E t \in Sessions : Ask(t)
           \/ \E z \in Sides : ConnOpen(z) \/ ConnClose(z) \/ ConnWrite(z) \/ ConnFlush(z)
           \/ ConnRoute(x) \/ ConnDeliver(x) \/ ConnEnds(x)
           \/ LinkLost \/ UNCHANGED vars
    PROVE  Seen(x, y, s)' /\ Told(x, y, s)'
<1> DEFINE Goal == Seen(x, y, s)' /\ Told(x, y, s)'
           Stays == \/ conn'[y] = conn[y]
                    \/ /\ conn[y].at # "deliver" /\ conn'[y].at # "deliver"
                       /\ Up(y) /\ Up(y)'
           Tasks == \A z \in Sides : \/ task'[z][s] = task[z][s]
                                     \/ task[z][s] = "none" /\ task'[z][s] = "asked"
           Waits == inbox'[y][s] = inbox[y][s]
<1>1. y # x /\ Durable
    BY NextDurable, SideFacts
<1>2. Past(x, s) => Near(Sent(x)', Sent(x), stream_id[x][s], ~link')
    <2>1. Past(x, s) => stream_id[x][s] \in Ids
        BY CountsTyped
    <2> QED BY <2>1, SentNear
<1>3. ASSUME Stays, Tasks, link' => link, UNCHANGED <<sent, got, agreed>>, Waits PROVE Goal
    <2>1. Keeps(x, y, s)
        BY <1>3, SameKeeps
    <2> QED BY <1>1, <1>2, <1>3, <2>1, PairKept
<1> HIDE DEF Goal
<1>4. ASSUME NEW t \in Sessions, Ask(t) PROVE Goal
    <2>1. Opener[t] \in Sides
        BY SideFacts
    <2>2. /\ UNCHANGED <<conn, link, inbox, sent, got, agreed>>
          /\ task[Opener[t]][t] = "none" /\ TaskSet(Opener[t], t, "asked")
        BY <1>4, <2>1, AskEffect DEF TypeInv, connVars, history
    <2>3. Tasks
        BY <2>2 DEF TaskSet
    <2> QED BY <1>3, <2>2, <2>3
<1>5. ASSUME NEW z \in Sides, ConnOpen(z) PROVE Goal
    <2>1. /\ UNCHANGED <<link, task, inbox, sent, got, agreed>>
          /\ conn[z].at = "select" /\ \E f : ConnSet(z, "announce", f)
        BY <1>5, OpenEffect DEF TypeInv, history
    <2>2. Stays
        BY <2>1 DEF ConnSet, Up
    <2> QED BY <1>3, <2>1, <2>2
<1>6. ASSUME NEW z \in Sides, ConnClose(z) PROVE Goal
    <2>1. UNCHANGED <<conn, link, task, inbox, sent, got, agreed>>
        BY <1>6, CloseEffect DEF TypeInv, taskVars
    <2> QED BY <1>3, <2>1
<1>7. ASSUME NEW z \in Sides, ConnWrite(z) \/ ConnFlush(z) PROVE Goal
    <2>1. /\ UNCHANGED <<link, task, inbox, sent, got, agreed>>
          /\ \/ UNCHANGED conn
             \/ /\ conn[z].at \in {"select", "write"}
                /\ \E l \in {"select", "write"} : \E f : ConnSet(z, l, f)
        <3>1. CASE ConnWrite(z)
            BY <3>1, WriteEffect DEF TypeInv, taskVars, history
        <3>2. CASE ConnFlush(z)
            BY <3>2, FlushEffect DEF TypeInv, taskVars, history
        <3> QED BY <1>7, <3>1, <3>2
    <2>2. Stays
        BY <2>1 DEF ConnSet, Up
    <2> QED BY <1>3, <2>1, <2>2
<1>8. CASE ConnRoute(x) \/ ConnDeliver(x)
    <2>1. /\ UNCHANGED <<link, task, sent, got, agreed>>
          /\ UNCHANGED conn \/ \E l, f : ConnSet(x, l, f)
          /\ UNCHANGED inbox \/ \E t, p : Delivered(x, t, p)
        <3>1. CASE ConnRoute(x)
            BY <3>1, RouteEffect, SideFacts DEF TypeInv, history
        <3>2. CASE ConnDeliver(x)
            BY <3>2, HandOverEffect DEF TypeInv, history
        <3> QED BY <1>8, <3>1, <3>2
    <2>2. Stays /\ Waits
        BY <1>1, <2>1 DEF ConnSet, Delivered
    <2>3. Tasks /\ (link' => link)
        BY <2>1
    <2>4. UNCHANGED <<sent, got, agreed>>
        BY <2>1
    <2> HIDE DEF Stays, Waits, Tasks
    <2> QED BY <1>3, <2>2, <2>3, <2>4 DEF Goal
<1>9. CASE ConnEnds(x)
    <2>1. /\ link' = FALSE /\ conn'[y] = conn[y]
          /\ UNCHANGED <<task, inbox, sent, got, agreed>>
        BY <1>1, <1>9, EndEffect DEF TypeInv, Ended, ConnSet, taskVars, history
    <2>2. Stays /\ Tasks /\ Waits
        BY <2>1
    <2>3. link' => link
        BY <2>1
    <2>4. UNCHANGED <<sent, got, agreed>>
        BY <2>1
    <2> HIDE DEF Stays, Waits, Tasks
    <2> QED BY <1>3, <2>2, <2>3, <2>4 DEF Goal
<1>10. CASE LinkLost \/ UNCHANGED vars
    <2>1. link' => link
        BY <1>10 DEF LinkLost, vars
    <2>2. UNCHANGED <<conn, task, inbox, sent, got, agreed>>
        BY <1>10 DEF LinkLost, vars, taskVars, history
    <2>3. Stays /\ Tasks /\ Waits
        BY <2>2
    <2>4. UNCHANGED <<sent, got, agreed>>
        BY <2>2
    <2> HIDE DEF Stays, Waits, Tasks
    <2> QED BY <1>3, <2>1, <2>3, <2>4 DEF Goal
<1> QED BY <1>4, <1>5, <1>6, <1>7, <1>8, <1>9, <1>10 DEF Goal

(* What is coming is made of frames, after a step as before it.             *)
LEMMA ComingIsTyped ==
    TypeInv => \A x, y \in Sides, s \in Sessions : y = Other(x) /\ stream_id[x][s] \in Ids =>
        /\ inbox[y][s] \in Seq(Payloads)
        /\ Img(stream_id[x][s], inbox[y][s]) \in Seq(Frames)
        /\ Held(y) \in Seq(Frames) /\ Rest(x) \in Seq(Frames)
        /\ Coming(x, s) = Img(stream_id[x][s], inbox[y][s]) \o Held(y) \o Rest(x)
BY ComingTyped

(* The same of what will be coming.                                         *)
LEMMA ComingStaysTyped ==
    ASSUME TypeInv'
    PROVE  (\A x, y \in Sides, s \in Sessions : y = Other(x) /\ stream_id[x][s] \in Ids =>
        /\ inbox[y][s] \in Seq(Payloads)
        /\ Img(stream_id[x][s], inbox[y][s]) \in Seq(Frames)
        /\ Held(y) \in Seq(Frames) /\ Rest(x) \in Seq(Frames)
        /\ Coming(x, s) = Img(stream_id[x][s], inbox[y][s]) \o Held(y) \o Rest(x))'
BY ComingIsTyped, PTL

(* What is coming had an owner before the step.                             *)
LEMMA OwnedBefore ==
    ASSUME TypeInv, MarkInv, RouteInv, [Next]_vars, NEW y \in Sides, NEW g, g.kind = "data",
           Holds(Sent(y)', g) \/ InDelivery(Other(y), g)'
    PROVE  OwnedBy(y, g)
<1>1. Other(y) \in Sides /\ Other(Other(y)) = y /\ Owned(y)
    BY SideFacts DEF RouteInv
<1>2. \/ Holds(Sent(y), g) \/ Speaks(y, g)
      \/ InDelivery(Other(y), g)
    BY <1>1, SentOrigin, HandOrigin
<1> QED BY <1>1, <1>2 DEF Owned, OwnedBy, Speaks

(* A stream that starts has said nothing yet.                               *)
LEMMA BornFlow ==
    ASSUME TypeInv, TypeInv', MarkInv, RouteInv, FlowInv, [Next]_vars,
           NEW x \in Sides, NEW y \in Sides, y = Other(x), NEW s \in Sessions,
           ~Past(x, s), Past(x, s)', Early(x, s)', task'[y][s] = task[y][s],
           inbox'[y][s] = inbox[y][s], UNCHANGED <<sent, got, agreed>>,
           \A t \in Sessions : Past(x, t) => stream_id[x][t] # stream_id'[x][s]
    PROVE  Seen(x, y, s)' /\ Told(x, y, s)'
<1> DEFINE i == stream_id'[x][s]
           M == Coming(x, s)'
<1>1. Seen(x, y, s) /\ Told(x, y, s) /\ Early(x, s)
    BY DEF FlowInv, Past, Early
<1>2. Seen(x, y, s)'
    BY <1>1, SeenKept DEF Young
<1>3. i \in Ids
    BY DEF TypeInv, Equipped
<1>4. inbox[y][s] = <<>> /\ Img(i, <<>>) = <<>>
    BY <1>1, <1>3, ImgFacts, EmptySeq DEF Told
<1>5. /\ Held(y)' \in Seq(Frames) /\ Rest(x)' \in Seq(Frames)
      /\ M = <<>> \o Held(y)' \o Rest(x)'
    <2>1. /\ Held(y)' \in Seq(Frames) /\ Rest(x)' \in Seq(Frames)
          /\ M = Img(i, inbox'[y][s]) \o Held(y)' \o Rest(x)'
        BY <1>3, ComingStaysTyped
    <2>2. Img(i, inbox'[y][s]) = <<>>
        BY <1>4
    <2> HIDE DEF M, i
    <2> QED BY <2>1, <2>2
<1>6. \A g : Holds(M, g) => Holds(Held(y)', g) \/ Holds(Rest(x)', g)
    <2>1. <<>> \in Seq(Frames)
        OBVIOUS
    <2> HIDE DEF M
    <2> QED BY <1>5, <2>1, ThreeParts, SmallFacts
<1>7. \A g : Holds(Held(y)', g) => InDelivery(y, g)'
    BY SmallFacts DEF Held, InDelivery
<1>8. \A g : Holds(Rest(x)', g) => Holds(Sent(x)', g)
    BY SmallFacts DEF Rest
<1> HIDE DEF i, M
<1>9. Silence(M, i)
    <2> SUFFICES ASSUME NEW g, Holds(M, g), Mine(i, g) PROVE FALSE
        BY DEF Silence
    <2>1. OwnedBy(x, g)
        BY <1>6, <1>7, <1>8, OwnedBefore DEF Mine
    <2> QED BY <2>1 DEF OwnedBy, Mine, i
<1>10. ~Over(y, s)' => Heard(y, s)' = 0
    BY <1>1 DEF Told, Over, Heard
<1>11. Words(Script(x, s)', i)
    BY ScriptStays DEF i
<1>12. ASSUME NEW n, NEW c PROVE Chain(M, i, Script(x, s)', c, n)
    <2>1. M \in Seq(Frames)
        <3>1. <<>> \in Seq(Frames)
            OBVIOUS
        <3> QED BY <1>5, <3>1, ThreeParts
    <2> QED BY <1>9, <1>11, <2>1, SilentChain
<1>13. ~Talks(x, s)'
    BY DEF Talks, Early
<1>14. Told(x, y, s)'
    BY <1>9, <1>10, <1>12, <1>13 DEF Told, M, i
<1> QED BY <1>2, <1>14

(* A stream is announced.                                                   *)
LEMMA AnnounceFlow ==
    ASSUME TypeInv, TypeInv', MarkInv, IdInv, RouteInv, FlowInv, [Next]_vars,
           NEW x \in Sides, NEW y \in Sides, y = Other(x), NEW s \in Sessions,
           NEW z \in Sides, ConnAnnounce(z)
    PROVE  Seen(x, y, s)' /\ Told(x, y, s)'
<1>1. PICK f : f = conn[z].frame
    OBVIOUS
<1>2. PICK t \in Sessions : t = f.stream
    BY <1>1, AnnounceEffect DEF TypeInv
<1>3. /\ conn[z].at = "announce" /\ f.id \in Ids /\ TaskSet(z, t, "request")
      /\ ConnSet(z, "select", NoFrame)
      /\ UNCHANGED <<link, stream_id, inbox, sent, got, agreed>>
    BY <1>1, <1>2, AnnounceEffect, FrameFacts DEF TypeInv, history
<1>4. task[z][t] = "asked" /\ stream_id[z][t] = f.id
    BY <1>1, <1>2, <1>3, AnnounceFacts
<1>5. y # x /\ Durable
    BY NextDurable, SideFacts
<1>6. CASE x = z /\ s = t
    <2>1. ~Past(x, s) /\ Past(x, s)' /\ Early(x, s)' /\ task'[y][s] = task[y][s]
        BY <1>3, <1>4, <1>5, <1>6 DEF TaskSet, Past, Early
    <2>2. ASSUME NEW r \in Sessions, Past(x, r) PROVE stream_id[x][r] # stream_id'[x][s]
        <3> SUFFICES ASSUME stream_id[x][r] = stream_id[x][s] PROVE FALSE
            BY <1>3
        <3>1. stream_id[x][r] # 0
            BY <2>2, CountsTyped
        <3> QED BY <2>1, <2>2, <3>1, IdsMatch
    <2>3. inbox'[y][s] = inbox[y][s] /\ UNCHANGED <<sent, got, agreed>>
        BY <1>3
    <2> QED BY <2>1, <2>2, <2>3, BornFlow
<1>7. CASE x # z \/ s # t
    <2>1. Keeps(x, y, s)
        BY <1>3, <1>4, <1>5, <1>7 DEF Keeps, TaskSet, Past, Young, Early, Talks, Over, Heard
    <2>2. \/ conn'[y] = conn[y]
          \/ /\ conn[y].at # "deliver" /\ conn'[y].at # "deliver"
             /\ Up(y) /\ Up(y)'
        BY <1>3 DEF ConnSet, Up
    <2>3. Past(x, s) => Near(Sent(x)', Sent(x), stream_id[x][s], ~link')
        BY CountsTyped, SentNear
    <2> QED BY <1>3, <1>5, <2>1, <2>2, <2>3, PairKept
<1> QED BY <1>6, <1>7

(* A stream is accepted.                                                    *)
LEMMA AcceptFlow ==
    ASSUME TypeInv, TypeInv', MarkInv, IdInv, RouteInv, FlowInv, [Next]_vars,
           NEW x \in Sides, NEW y \in Sides, y = Other(x), NEW s \in Sessions,
           NEW z \in Sides, ConnAccept(z)
    PROVE  Seen(x, y, s)' /\ Told(x, y, s)'
<1>1. PICK o \in Sides : o = Other(z)
    BY SideFacts
<1>2. PICK f : f = Head(wire[o])
    OBVIOUS
<1>3. PICK t \in Sessions : t = f.stream
    BY <1>1, <1>2, AcceptEffect DEF TypeInv
<1>4. /\ f.id \in Ids /\ TaskSet(z, t, "answer") /\ Given(z, t, f.id)
      /\ UNCHANGED <<conn, link, inbox, sent, got, agreed>>
    BY <1>1, <1>2, <1>3, AcceptEffect DEF TypeInv, history
<1>5. task[z][t] = "none" /\ stream_id[o][t] = f.id
    BY <1>1, <1>2, <1>3, AcceptFacts
<1>6. y # x /\ Durable
    BY NextDurable, SideFacts
<1>7. CASE x = z /\ s = t
    <2>1. ~Past(x, s) /\ Past(x, s)' /\ Early(x, s)' /\ task'[y][s] = task[y][s]
        BY <1>4, <1>5, <1>6, <1>7 DEF TaskSet, Past, Early
    <2>2. ASSUME NEW r \in Sessions, Past(x, r) PROVE stream_id[x][r] # stream_id'[x][s]
        <3> SUFFICES ASSUME stream_id[x][r] = stream_id[o][s] PROVE FALSE
            BY <1>4, <1>5, <1>7 DEF Given
        <3>1. stream_id[x][r] # 0
            BY <2>2, CountsTyped
        <3> QED BY <2>1, <2>2, <3>1, IdsMatch
    <2>3. inbox'[y][s] = inbox[y][s] /\ UNCHANGED <<sent, got, agreed>>
        BY <1>4
    <2> QED BY <2>1, <2>2, <2>3, BornFlow
<1>8. CASE x # z \/ s # t
    <2>1. Keeps(x, y, s)
        BY <1>4, <1>5, <1>6, <1>8 DEF Keeps, TaskSet, Past, Young, Early, Talks, Over, Heard
    <2>2. conn'[y] = conn[y]
        BY <1>4
    <2>3. Past(x, s) => Near(Sent(x)', Sent(x), stream_id[x][s], ~link')
        BY CountsTyped, SentNear
    <2> QED BY <1>4, <1>6, <2>1, <2>2, <2>3, PairKept
<1> QED BY <1>7, <1>8

(* The steps of the connection tasks that move what is coming.              *)
LEMMA MovedFlow ==
    ASSUME TypeInv, FlowInv, [Next]_vars, MarkInv,
           NEW x \in Sides, NEW y \in Sides, y = Other(x), NEW s \in Sessions,
           link' => link, UNCHANGED <<task, sent, got, agreed>>,
           Past(x, s) \/ inbox'[y][s] = inbox[y][s],
           Past(x, s) /\ ~Over(y, s) =>
               Near(Coming(x, s)', Coming(x, s), stream_id[x][s], ~link')
    PROVE  Seen(x, y, s)' /\ Told(x, y, s)'
<1>1. Seen(x, y, s) /\ Durable
    BY NextDurable DEF FlowInv
<1>2. Keeps(x, y, s)
    BY SameKeeps
<1>3. Seen(x, y, s)'
    BY <1>1, <1>2, SeenKept DEF Keeps
<1>4. Told(x, y, s)'
    BY <1>1, <1>2, ToldKept DEF Keeps
<1> QED BY <1>3, <1>4

(* The connection task that reads ends.                                     *)
LEMMA EndFlow ==
    ASSUME TypeInv, MarkInv, FlowInv, [Next]_vars,
           NEW x \in Sides, NEW y \in Sides, y = Other(x), NEW s \in Sessions, ConnEnds(y)
    PROVE  Seen(x, y, s)' /\ Told(x, y, s)'
<1>1. /\ link' = FALSE /\ ~Up(y)' /\ conn'[y].at # "deliver"
      /\ UNCHANGED <<task, sent, got, agreed, stream_id, inbox>>
    BY EndEffect DEF TypeInv, Ended, ConnSet, Up, taskVars, history
<1>2. ASSUME Past(x, s) PROVE Near(Coming(x, s)', Coming(x, s), stream_id[x][s], ~link')
    <2> DEFINE u == Img(stream_id[x][s], inbox[y][s])
               v == Held(y)
               w == Rest(x)
    <2>1. stream_id[x][s] \in Ids
        BY <1>2, CountsTyped
    <2>2. u \in Seq(Frames) /\ v \in Seq(Frames) /\ w \in Seq(Frames)
          /\ Coming(x, s) = u \o v \o w
        BY <2>1, ComingTyped
    <2>3. Coming(x, s)' = u \o <<>> \o <<>>
        BY <1>1 DEF Coming, Held, Rest
    <2> HIDE DEF u, v, w
    <2>4. Front(u \o <<>> \o <<>>, u \o v \o w)
        BY <2>2, OnlyFirstPart
    <2> QED BY <1>1, <2>2, <2>3, <2>4 DEF Near
<1> QED BY <1>1, <1>2, MovedFlow

(* A payload for a registered stream was said on that stream.               *)
LEMMA Addressed ==
    ASSUME TypeInv, MarkInv, IdInv, NEW x \in Sides, NEW y \in Sides, NEW f, f.id \in Ids,
           NEW t \in Sessions, t = streams[y][f.id], OwnedBy(x, f)
    PROVE  /\ Past(x, t) /\ stream_id[x][t] = f.id
           /\ \A s \in Sessions : stream_id[x][s] = f.id => s = t
<1>1. stream_id[y][t] = f.id /\ f.id # 0
    BY SideFacts DEF MarkInv, Entered
<1>2. \A s \in Sessions : stream_id[x][s] = f.id => s = t
    BY <1>1, IdsMatch
<1> QED BY <1>1, <1>2 DEF OwnedBy

(* A payload is delivered.                                                  *)
LEMMA HandOverFlow ==
    ASSUME TypeInv, MarkInv, IdInv, RouteInv, FlowInv, [Next]_vars,
           NEW x \in Sides, NEW y \in Sides, y = Other(x), NEW s \in Sessions, ConnDeliver(y)
    PROVE  Seen(x, y, s)' /\ Told(x, y, s)'
<1>1. PICK f : f = conn[y].frame
    OBVIOUS
<1>2. PICK t : t = streams[y][f.id]
    OBVIOUS
<1>3. /\ conn[y].at = "deliver" /\ f \in Datas /\ f.id \in Ids /\ t \in Sessions
      /\ Delivered(y, t, f.payload) /\ ConnSet(y, "select", NoFrame)
      /\ UNCHANGED <<mpsc, wire, link, task, stream_id, sent, got, agreed>>
    BY <1>1, <1>2, HandOverEffect DEF TypeInv, history
<1>4. f.kind = "data" /\ f = DataFrame(f.id, f.payload) /\ f \in Frames /\ f.payload \in Payloads
    BY <1>3, MadeFacts, FrameFacts
<1>5. OwnedBy(x, f)
    BY <1>1, <1>3, <1>4 DEF RouteInv, Owned, InDelivery
<1>6. Past(x, t) /\ stream_id[x][t] = f.id /\ \A r \in Sessions : stream_id[x][r] = f.id => r = t
    BY <1>2, <1>3, <1>5, Addressed
<1>7. Past(x, s) \/ inbox'[y][s] = inbox[y][s]
    BY <1>3, <1>6 DEF Delivered
<1>8. ASSUME Past(x, s) PROVE Near(Coming(x, s)', Coming(x, s), stream_id[x][s], ~link')
    <2> DEFINE i == stream_id[x][s]
               q == inbox[y][s]
               u == Img(i, q)
               w == Rest(x)
    <2>1. i \in Ids
        BY <1>8, CountsTyped
    <2>2. /\ q \in Seq(Payloads) /\ u \in Seq(Frames) /\ w \in Seq(Frames)
          /\ Coming(x, s) = u \o Held(y) \o w
        BY <2>1, ComingTyped
    <2>3. Held(y) = <<f>> /\ Held(y)' = <<>> /\ (Up(y)' <=> Up(y))
        BY <1>1, <1>3 DEF Held, ConnSet, Up
    <2>4. Sent(x)' = Sent(x)
        <3>1. conn'[x] = conn[x] \/ (conn[x].at # "write" /\ conn'[x].at # "write")
            BY <1>3 DEF ConnSet
        <3>2. Pipe(x)' = Pipe(x)
            BY <1>3, <3>1, PipeSame
        <3> QED BY <1>3, <3>2 DEF Sent
    <2>5. Rest(x)' = w
        BY <2>3, <2>4 DEF Rest
    <2>6. Coming(x, s)' = Img(i, inbox'[y][s]) \o <<>> \o w
        BY <1>3, <2>3, <2>5 DEF Coming
    <2>7. CASE s = t
        <3>1. inbox'[y][s] = Append(q, f.payload) /\ i = f.id
            BY <1>3, <1>6, <2>7 DEF Delivered
        <3>2. Img(i, inbox'[y][s]) = Append(u, f)
            BY <1>4, <2>1, <2>2, <3>1, ImgFacts
        <3> HIDE DEF i, q, u, w
        <3>3. Alike(Append(u, f) \o <<>> \o w, u \o <<f>> \o w)
            BY <1>4, <2>2, MiddlePart
        <3> QED BY <2>2, <2>3, <2>6, <3>2, <3>3 DEF Near
    <2>8. CASE s # t
        <3>1. inbox'[y][s] = q
            BY <1>3, <2>8 DEF Delivered
        <3>2. ~Mine(i, f)
            BY <1>6, <2>8 DEF Mine
        <3> HIDE DEF i, q, w
        <3>3. Coming(x, s)' = u \o <<>> \o w /\ Coming(x, s) = u \o <<f>> \o w
            BY <2>2, <2>3, <2>6, <3>1
        <3> HIDE DEF u
        <3>4. Loses(u \o <<>> \o w, u \o <<f>> \o w, f)
            BY <1>4, <2>2, MiddlePart
        <3> QED BY <3>2, <3>3, <3>4 DEF Near, i
    <2> QED BY <2>7, <2>8
<1> QED BY <1>3, <1>7, <1>8, MovedFlow

(* The first frame on the connection is for a stream its reader knows.      *)
LEMMA FirstIsKnown ==
    ASSUME TypeInv, VoiceInv, NEW x \in Sides, NEW f, NEW M, Holds(Sent(x), f),
           f.kind = "data", Beheaded(M, Sent(x), f)
    PROVE  Known(x, f.id)
<1> SUFFICES ASSUME ~Known(x, f.id) PROVE FALSE
    OBVIOUS
<1>1. PICK h : Holds(Sent(x), h) /\ IsNews(h, f.id) /\ ~Before(Sent(x), f, h)
    BY DEF VoiceInv, Ahead
<1>2. h # f
    BY <1>1 DEF IsNews
<1> QED BY <1>1, <1>2 DEF Beheaded, Loses

(* A payload is routed.                                                     *)
LEMMA RouteFlow ==
    ASSUME TypeInv, MarkInv, VoiceInv, IdInv, RouteInv, FlowInv, [Next]_vars,
           NEW x \in Sides, NEW y \in Sides, y = Other(x), NEW s \in Sessions, ConnRoute(y)
    PROVE  Seen(x, y, s)' /\ Told(x, y, s)'
<1>0. x = Other(y) /\ x # y
    BY SideFacts
<1>1. PICK f : f = Head(wire[x])
    OBVIOUS
<1>2. PICK t : t = streams[y][f.id]
    OBVIOUS
<1>3. /\ conn[y].at = "select" /\ ReadOff(x) /\ f \in Datas /\ f.id \in Ids
      /\ \/ t = NoStream /\ UNCHANGED <<conn, inbox>>
         \/ t \in Sessions /\ Delivered(y, t, f.payload) /\ UNCHANGED conn
         \/ t \in Sessions /\ ConnSet(y, "deliver", f) /\ UNCHANGED inbox
      /\ UNCHANGED <<mpsc, link, task, stream_id, sent, got, agreed>>
    BY <1>0, <1>1, <1>2, RouteEffect DEF TypeInv, history
<1>4. f.kind = "data" /\ f = DataFrame(f.id, f.payload) /\ f \in Frames /\ f.payload \in Payloads
    BY <1>3, MadeFacts, FrameFacts
<1>5. Beheaded(Sent(x)', Sent(x), f)
    <2>1. conn'[x] = conn[x]
        BY <1>0, <1>3 DEF ConnSet
    <2>2. conn'[y] = conn[y] \/ (conn[y].at # "write" /\ conn'[y].at # "write")
        BY <1>3 DEF ConnSet
    <2> QED BY <1>0, <1>1, <1>3, <2>1, <2>2, SentRead
<1>6. Holds(Sent(x), f)
    BY <1>5 DEF Beheaded, Loses
<1>7. OwnedBy(x, f)
    BY <1>4, <1>6 DEF RouteInv, Owned
<1>8. ASSUME t \in Sessions
      PROVE  /\ Past(x, t) /\ stream_id[x][t] = f.id
             /\ \A r \in Sessions : stream_id[x][r] = f.id => r = t
    BY <1>2, <1>3, <1>7, <1>8, Addressed
<1>9. Past(x, s) \/ inbox'[y][s] = inbox[y][s]
    BY <1>3, <1>8 DEF Delivered
<1>10. ASSUME Past(x, s), ~Over(y, s), t \notin Sessions PROVE stream_id[x][s] # f.id
    <2> SUFFICES ASSUME stream_id[x][s] = f.id PROVE FALSE
        OBVIOUS
    <2>1. PICK r \in Sessions : stream_id[y][r] = f.id
        BY <1>4, <1>5, <1>6, FirstIsKnown DEF Known
    <2>2. r = s /\ f.id # 0
        BY <1>3, <2>1, IdsMatch, SideFacts
    <2>3. Past(y, s)
        BY <1>10, <2>1, <2>2, BothPast
    <2>4. Registered(y, s) /\ Up(y)
        BY <1>3 DEF RouteInv, Up
    <2> QED BY <1>2, <1>10, <2>1, <2>2, <2>3, <2>4 DEF Registered, Starts
<1>11. ASSUME Past(x, s), ~Over(y, s)
       PROVE  Near(Coming(x, s)', Coming(x, s), stream_id[x][s], ~link')
    <2> DEFINE i == stream_id[x][s]
               q == inbox[y][s]
               u == Img(i, q)
               w == Rest(x)
               n == Rest(x)'
               M == Coming(x, s)'
               L == Coming(x, s)
    <2>1. i \in Ids
        BY <1>11, CountsTyped
    <2>2. Held(y) = <<>> /\ Up(y) /\ Up(y)'
        BY <1>3 DEF Held, Up, ConnSet
    <2>3. /\ q \in Seq(Payloads) /\ u \in Seq(Frames) /\ w \in Seq(Frames)
          /\ L = u \o <<>> \o w
        BY <2>1, <2>2, ComingTyped
    <2>4. w = Sent(x) /\ n = Sent(x)'
        BY <2>2 DEF Rest
    <2>5. n \in Seq(Frames)
        <3>1. TypeInv'
            BY NextTyped
        <3> QED BY <2>4, <3>1, SentStayFrames
    <2>6. M = Img(i, inbox'[y][s]) \o Held(y)' \o n
        BY <1>3 DEF Coming
    <2> HIDE DEF w, n, M, L, i, q
    <2>7. Beheaded(n, w, f)
        BY <1>5, <2>4
    <2>8. ASSUME ~Mine(i, f), inbox'[y][s] = q, UNCHANGED conn PROVE Near(M, L, i, ~link')
        <3>1. M = u \o <<>> \o n
            BY <2>2, <2>6, <2>8 DEF Held
        <3>2. <<>> \in Seq(Frames)
            OBVIOUS
        <3> HIDE DEF u
        <3>3. Loses(M, L, f)
            BY <2>3, <2>5, <2>7, <3>1, <3>2, LastPart
        <3> QED BY <2>8, <3>3 DEF Near
    <2>9. CASE t \notin Sessions
        <3>1. ~Mine(i, f) /\ inbox'[y][s] = q /\ UNCHANGED conn
            BY <1>3, <1>10, <1>11, <2>9 DEF Mine, i, q
        <3> QED BY <2>8, <3>1 DEF i, M, L
    <2>10. CASE t \in Sessions /\ Delivered(y, t, f.payload) /\ UNCHANGED conn /\ s # t
        <3>1. ~Mine(i, f) /\ inbox'[y][s] = q /\ UNCHANGED conn
            BY <1>8, <2>10 DEF Mine, i, q, Delivered
        <3> QED BY <2>8, <3>1 DEF i, M, L
    <2>11. CASE t \in Sessions /\ Delivered(y, t, f.payload) /\ UNCHANGED conn /\ s = t
        <3>1. inbox'[y][s] = Append(q, f.payload) /\ i = f.id
            BY <1>8, <2>11 DEF Delivered, i, q
        <3>2. Img(i, inbox'[y][s]) = Append(u, f)
            BY <1>4, <2>1, <2>3, <3>1, ImgFacts
        <3>3. Held(y)' = <<>>
            BY <2>2, <2>11 DEF Held
        <3> HIDE DEF u
        <3>4. Alike(Append(u, f) \o <<>> \o n, u \o <<>> \o w)
            BY <1>4, <2>3, <2>5, <2>7, MiddlePart
        <3> QED BY <2>3, <2>6, <3>2, <3>3, <3>4 DEF Near, i, M, L
    <2>12. CASE t \in Sessions /\ ConnSet(y, "deliver", f) /\ UNCHANGED inbox
        <3>1. Held(y)' = <<f>> /\ Img(i, inbox'[y][s]) = u
            BY <2>12 DEF Held, ConnSet, q
        <3> HIDE DEF u
        <3>2. Alike(u \o <<f>> \o n, u \o <<>> \o w)
            BY <1>4, <2>3, <2>5, <2>7, MiddlePart
        <3> QED BY <2>3, <2>6, <3>1, <3>2 DEF Near, i, M, L
    <2> QED BY <1>3, <2>9, <2>10, <2>11, <2>12, SideFacts
<1>12. link' => link
    BY <1>3
<1>13. UNCHANGED <<task, sent, got, agreed>>
    BY <1>3
<1> QED BY <1>9, <1>11, <1>12, <1>13, MovedFlow
-----------------------------------------------------------------------------
(* The tasks of the streams. *)

\* the task of one stream acts, and says what it says on that stream
Local(z, t) ==
    /\ UNCHANGED <<connVars, stream_id>> /\ Past(z, t)
    /\ \A y \in Sides, s \in Sessions : y # z \/ s # t =>
           /\ task'[y][s] = task[y][s] /\ inbox'[y][s] = inbox[y][s]
           /\ sent'[y][s] = sent[y][s] /\ got'[y][s] = got[y][s] /\ agreed'[y][s] = agreed[y][s]
    /\ \/ UNCHANGED mpsc
       \/ \E f : Queued(z, f) /\ (f.kind = "close" \/ (f.kind = "data" /\ f.id = stream_id[z][t]))

(* The tasks of other streams are left alone.                               *)
LEMMA TasksLocal ==
    ASSUME TypeInv, NEW z \in Sides, NEW t \in Sessions,
           \/ Request(z, t) \/ Reply(z, t) \/ Write(z, t) \/ Close(z, t)
           \/ Await(z, t) \/ Answer(z, t) \/ Read(z, t) \/ Turns(z, t)
    PROVE  Local(z, t)
<1>1. Equipped(z, t) /\ TypeOK
    BY DEF TypeInv
<1>2. CASE Request(z, t)
    <2>1. /\ task[z][t] = "request" /\ Queued(z, DataFrame(stream_id[z][t], ProtoOf[t]))
          /\ TaskSet(z, t, "await") /\ UNCHANGED <<connVars, stream_id, inbox, history>>
        BY <1>1, <1>2, RequestEffect
    <2> QED BY <2>1, MadeFacts DEF Local, TaskSet, Past, history
<1>3. CASE Reply(z, t)
    <2>1. /\ task[z][t] = "reply" /\ Queued(z, DataFrame(stream_id[z][t], agreed[z][t]))
          /\ TaskSet(z, t, "read") /\ UNCHANGED <<connVars, stream_id, inbox, history>>
        BY <1>1, <1>3, ReplyEffect
    <2> QED BY <2>1, MadeFacts DEF Local, TaskSet, Past, history
<1>4. CASE Write(z, t)
    <2>1. /\ task[z][t] = "write"
          /\ Queued(z, DataFrame(stream_id[z][t], Message(t, z, sent[z][t] + 1)))
          /\ TaskSet(z, t, "read")
          /\ \A y \in Sides, s \in Sessions : y # z \/ s # t => sent'[y][s] = sent[y][s]
          /\ UNCHANGED <<connVars, stream_id, inbox, got, agreed>>
        BY <1>1, <1>4, SayEffect
    <2> QED BY <2>1, MadeFacts DEF Local, TaskSet, Past
<1>5. CASE Close(z, t)
    <2>1. /\ task[z][t] = "close" /\ stream_id[z][t] \in Ids
          /\ Queued(z, CloseFrame(stream_id[z][t]))
          /\ TaskSet(z, t, "done") /\ UNCHANGED <<connVars, stream_id, inbox, history>>
        BY <1>1, <1>5, ShutEffect
    <2> QED BY <2>1, MadeFacts DEF Local, TaskSet, Past, history
<1>6. CASE Await(z, t)
    <2>1. /\ task[z][t] = "await" /\ Received(z, t) /\ \E l : TaskSet(z, t, l)
          /\ UNCHANGED agreed \/ \E p : Settled(z, t, p)
          /\ UNCHANGED <<connVars, mpsc, stream_id, sent, got>>
        BY <1>1, <1>6, AwaitEffect
    <2> QED BY <2>1 DEF Local, TaskSet, Past, Received, Settled
<1>7. CASE Answer(z, t)
    <2>1. /\ task[z][t] = "answer" /\ Received(z, t) /\ \E l : TaskSet(z, t, l)
          /\ UNCHANGED agreed \/ \E p : Settled(z, t, p)
          /\ UNCHANGED <<connVars, mpsc, stream_id, sent, got>>
        BY <1>1, <1>7, AnswerEffect
    <2> QED BY <2>1 DEF Local, TaskSet, Past, Received, Settled
<1>8. CASE Read(z, t)
    <2>1. /\ task[z][t] = "read" /\ Received(z, t)
          /\ \A y \in Sides, s \in Sessions : y # z \/ s # t => got'[y][s] = got[y][s]
          /\ UNCHANGED <<connVars, mpsc, task, stream_id, sent, agreed>>
        BY <1>1, <1>8, ReadEffect
    <2> QED BY <2>1 DEF Local, Past, Received
<1>9. CASE Turns(z, t)
    <2>1. /\ Past(z, t) /\ \E l : TaskSet(z, t, l)
          /\ UNCHANGED <<connVars, mpsc, stream_id, inbox, history>>
        BY <1>1, <1>9, TurnEffect DEF Past, Listens
    <2> QED BY <2>1 DEF Local, TaskSet, history
<1> QED BY <1>2, <1>3, <1>4, <1>5, <1>6, <1>7, <1>8, <1>9

(* What is said on another stream, or the other way, or not at all.         *)
LEMMA LocalNear ==
    ASSUME TypeInv, MarkInv, IdInv, NEW z \in Sides, NEW t \in Sessions, Local(z, t),
           NEW x \in Sides, NEW s \in Sessions, Past(x, s),
           \/ x # z \/ s # t \/ UNCHANGED mpsc
           \/ \E f : Queued(z, f) /\ f.kind = "close"
    PROVE  Near(Sent(x)', Sent(x), stream_id[x][s], ~link')
<1>1. \A y \in Sides : Untouched(y)
    BY DEF Local, connVars, Untouched
<1>2. CASE UNCHANGED mpsc
    BY <1>1, <1>2, SentQueue DEF Near
<1>3. ASSUME NEW f, Queued(z, f), x # z \/ ~Mine(stream_id[x][s], f)
      PROVE  Near(Sent(x)', Sent(x), stream_id[x][s], ~link')
    BY <1>1, <1>3, SentQueued DEF Near
<1>4. CASE x = z /\ s # t
    <2>1. stream_id[x][s] # stream_id[x][t]
        <3>1. stream_id[x][s] # 0
            BY CountsTyped
        <3> QED BY <1>4, <3>1, IdsMatch
    <2> QED BY <1>2, <1>3, <1>4, <2>1 DEF Local, Mine
<1>5. CASE x # z
    BY <1>2, <1>3, <1>5 DEF Local
<1>6. CASE \E f : Queued(z, f) /\ f.kind = "close"
    BY <1>3, <1>6 DEF Mine
<1> QED BY <1>2, <1>4, <1>5, <1>6

(* Other streams miss nothing; nor does this one where nothing is seen.     *)
LEMMA LocalFlow ==
    ASSUME TypeInv, TypeInv', MarkInv, IdInv, FlowInv, [Next]_vars,
           NEW z \in Sides, NEW t \in Sessions, Local(z, t),
           NEW x \in Sides, NEW y \in Sides, y = Other(x), NEW s \in Sessions,
           \/ s # t
           \/ /\ s = t /\ Keeps(x, y, s) /\ inbox'[z][s] = inbox[z][s] /\ got'[z][s] = got[z][s]
              /\ agreed'[z][s] = agreed[z][s]
              /\ z = x => /\ sent'[z][s] = sent[z][s]
                          /\ UNCHANGED mpsc \/ \E f : Queued(z, f) /\ f.kind = "close"
    PROVE  Seen(x, y, s)' /\ Told(x, y, s)'
<1>1. Durable /\ x # y /\ link' = link /\ conn' = conn
    BY NextDurable, SideFacts DEF Local, connVars
<1>2. ASSUME Past(x, s) PROVE Near(Sent(x)', Sent(x), stream_id[x][s], ~link')
    BY <1>2, LocalNear
<1>3. /\ sent'[x][s] = sent[x][s] /\ got'[x][s] = got[x][s] /\ got'[y][s] = got[y][s]
      /\ agreed'[x][s] = agreed[x][s] /\ agreed'[y][s] = agreed[y][s]
      /\ inbox'[y][s] = inbox[y][s]
    BY <1>1 DEF Local
<1>4. Keeps(x, y, s)
    <2>1. CASE s # t
        <3>1. task'[x][s] = task[x][s] /\ task'[y][s] = task[y][s]
            BY <2>1 DEF Local
        <3> QED BY <1>3, <3>1, SameKeeps
    <2> QED BY <2>1
<1> QED BY <1>1, <1>2, <1>3, <1>4, PairKept

(* The task of a stream turns to something else, closes the stream, or ends. *)
LEMMA TurnFlow ==
    ASSUME TypeInv, TypeInv', MarkInv, IdInv, FlowInv, [Next]_vars,
           NEW z \in Sides, NEW t \in Sessions, Turns(z, t) \/ Close(z, t),
           NEW x \in Sides, NEW y \in Sides, y = Other(x), NEW s \in Sessions
    PROVE  Seen(x, y, s)' /\ Told(x, y, s)'
<1>1. Local(z, t) /\ x # y
    BY TasksLocal, SideFacts
<1>2. /\ \/ task[z][t] = "read" /\ TaskSet(z, t, "write")
         \/ task[z][t] = "read" /\ TaskSet(z, t, "close")
         \/ Past(z, t) /\ (TaskSet(z, t, "done") \/ TaskSet(z, t, "panic"))
      /\ UNCHANGED <<inbox, sent, got, agreed>>
      /\ UNCHANGED mpsc \/ \E f : Queued(z, f) /\ f.kind = "close"
    <2>1. CASE Turns(z, t)
        BY <1>1, <2>1, TurnEffect DEF TypeInv, Local, history
    <2>2. CASE Close(z, t)
        BY <1>1, <2>2, ShutEffect, MadeFacts DEF TypeInv, Local, history
    <2> QED BY <2>1, <2>2
<1>3. CASE s # t
    BY <1>1, <1>3, LocalFlow
<1>4. CASE s = t
    <2>1. Keeps(x, y, s)
        <3>1. CASE z = x
            <4>1. task'[y][s] = task[y][s]
                BY <1>1, <3>1 DEF Local
            <4> QED BY <1>2, <1>4, <3>1, <4>1
                    DEF Keeps, TaskSet, Past, Young, Early, Talks, Over, Heard
        <3>2. CASE z = y
            <4>1. task'[x][s] = task[x][s]
                BY <1>1, <3>2 DEF Local
            <4> QED BY <1>2, <1>4, <3>2, <4>1
                    DEF Keeps, TaskSet, Past, Young, Early, Talks, Over, Heard
        <3> QED BY <3>1, <3>2, SideFacts
    <2> QED BY <1>1, <1>2, <1>4, <2>1, LocalFlow
<1> QED BY <1>3, <1>4

(* More may have been said than is on its way.                              *)
LEMMA LongerChain ==
    ASSUME NEW L, NEW i, NEW W, NEW c \in Nat, NEW n \in Nat, NEW m \in Nat, n =< m,
           Chain(L, i, W, c, n)
    PROVE  Chain(L, i, W, c, m)
BY DEF Chain

(* The next word of an end.                                                 *)
LEMMA SaidFlow ==
    ASSUME TypeInv, TypeInv', MarkInv, FlowInv, [Next]_vars,
           NEW x \in Sides, NEW y \in Sides, y = Other(x), NEW s \in Sessions, Local(x, s),
           NEW m \in Nat, Queued(x, Script(x, s)[m]), sent'[x][s] = m,
           \/ Early(x, s) /\ sent[x][s] = 0 /\ m = 0
           \/ Talks(x, s) /\ m = sent[x][s] + 1,
           agreed'[x][s] = agreed[x][s], ~Early(x, s)'
    PROVE  Told(x, y, s)'
<1> DEFINE i == stream_id[x][s]
           W == Script(x, s)
           n == sent[x][s]
           c == Heard(y, s)
           L == Coming(x, s)
           M == Coming(x, s)'
<1>1. Durable /\ x # y /\ link' = link /\ conn' = conn /\ Past(x, s)
    BY NextDurable, SideFacts DEF Local, connVars
<1>2. /\ task'[y][s] = task[y][s] /\ got'[y][s] = got[y][s] /\ inbox'[y][s] = inbox[y][s]
      /\ stream_id'[x][s] = i
    BY <1>1 DEF Local
<1>3. (Over(y, s)' <=> Over(y, s)) /\ Heard(y, s)' = c
    BY <1>2 DEF Over, Heard
<1>4. i \in Ids /\ Words(W, i) /\ n \in Nat /\ c \in Nat
    BY <1>1, CountsTyped
<1>5. Script(x, s)' = W
    BY <1>2, ScriptSame
<1>6. Past(x, s)'
    BY <1>1 DEF Durable
<1>7. Told(x, y, s)
    BY DEF FlowInv
<1> DEFINE u == Img(i, inbox[y][s])
           v == Held(y)
           w == Rest(x)
           r == Rest(x)'
<1>8. u \in Seq(Frames) /\ v \in Seq(Frames) /\ w \in Seq(Frames) /\ L = u \o v \o w
    BY <1>4, ComingTyped
<1>9. r \in Seq(Frames) /\ M = u \o v \o r
    <2>1. Held(y)' = v
        BY <1>1 DEF Held
    <2>2. Sent(x)' \in Seq(Frames)
        BY SentStayFrames
    <2> QED BY <1>2, <2>1, <2>2 DEF Coming, Rest
<1>10. (link => Grows(r, w, W[m])) /\ (~link => Alike(r, w))
    <2>1. \A z \in Sides : Untouched(z)
        BY <1>1 DEF Local, connVars, Untouched
    <2>2. (link => Grows(Sent(x)', Sent(x), W[m])) /\ (~link => Alike(Sent(x)', Sent(x)))
        BY <2>1, SentQueued
    <2>3. Up(y)' <=> Up(y)
        BY <1>1 DEF Up
    <2>4. link => Up(y)
        BY DEF TypeInv, Shape
    <2>5. CASE Up(y)
        BY <2>2, <2>3, <2>5 DEF Rest
    <2>6. CASE ~Up(y)
        <3>1. r = w
            BY <2>3, <2>6 DEF Rest
        <3> HIDE DEF r, w
        <3> QED BY <2>4, <2>6, <3>1, SameIsFewer
    <2> QED BY <2>5, <2>6
<1> HIDE DEF u, v, w, r
<1>11. (link => Grows(M, L, W[m])) /\ (~link => Alike(M, L))
    <2>1. link => Grows(M, L, W[m])
        BY <1>8, <1>9, <1>10, NearLast
    <2>2. ~link => Near(u \o v \o r, u \o v \o w, i, TRUE)
        BY <1>8, <1>9, <1>10, NearLast DEF Near
    <2>3. ASSUME ~link PROVE Alike(M, L)
        <3>1. \A g : Holds(M, g) <=> Holds(L, g)
            BY <1>8, <1>9, <1>10, <2>3, ThreeParts DEF Alike
        <3>2. \A g, h : Before(M, g, h) <=> Before(L, g, h)
            BY <1>8, <1>9, <1>10, <2>3, ThreeParts DEF Alike
        <3> QED BY <3>1, <3>2 DEF Alike
    <2> QED BY <2>1, <2>3
<1>12. ASSUME ~Over(y, s)
       PROVE  /\ Chain(M, i, W, c, m)
              /\ link => Holds(M, W[m])
    <2>1. /\ Chain(L, i, W, c, n)
          /\ Early(x, s) => Silence(L, i) /\ c = 0
          /\ link /\ Talks(x, s) => c = n + 1 \/ Holds(L, W[n])
        BY <1>1, <1>7, <1>12 DEF Told
    <2>2. \A q \in Nat : Mine(i, W[q])
        BY <1>4 DEF Words
    <2> HIDE DEF L, M, i, W, n, c
    <2>3. CASE ~link
        <3>1. Near(M, L, i, FALSE)
            BY <1>11, <2>3 DEF Near
        <3>2. Chain(M, i, W, c, n)
            BY <1>4, <2>1, <3>1, NearChain
        <3>3. n =< m
            BY <1>4 DEF n
        <3>4. Chain(M, i, W, c, m)
            BY <1>4, <3>2, <3>3, LongerChain
        <3> QED BY <2>3, <3>4
    <2>4. CASE link /\ Early(x, s)
        <3>1. c = m /\ Silence(L, i)
            BY <2>1, <2>4 DEF Early, Talks
        <3>2. \A g : Holds(L, g) /\ Mine(i, g) => \E q \in Nat : c =< q /\ q < m /\ g = W[q]
            BY <3>1 DEF Silence
        <3>3. c =< m
            BY <1>4, <3>1
        <3>4. Grows(M, L, W[m])
            BY <1>11, <2>4
        <3>5. Chain(M, i, W, c, m)
            BY <1>4, <2>1, <3>1, <3>2, <3>3, <3>4, SaidChain
        <3> QED BY <3>4, <3>5 DEF Grows
    <2>5. CASE link /\ Talks(x, s)
        <3>1. m = n + 1
            BY <2>5 DEF Early, Talks, n
        <3>2. c = m \/ Holds(L, W[m - 1])
            BY <1>4, <2>1, <2>5, <3>1
        <3>3. \A g : Holds(L, g) /\ Mine(i, g) => \E q \in Nat : c =< q /\ q =< n /\ g = W[q]
            BY <2>1 DEF Chain
        <3>4. \A g : Holds(L, g) /\ Mine(i, g) => \E q \in Nat : c =< q /\ q < m /\ g = W[q]
            BY <1>4, <3>1, <3>3
        <3>5. c =< m
            <4>1. CASE c = m
                BY <1>4, <4>1
            <4>2. CASE Holds(L, W[m - 1])
                <5>1. m - 1 \in Nat
                    BY <1>4, <3>1
                <5>2. Mine(i, W[m - 1])
                    BY <2>2, <5>1
                <5>3. PICK q \in Nat : c =< q /\ q =< n
                    BY <3>3, <4>2, <5>2
                <5> QED BY <1>4, <3>1, <5>3
            <4> QED BY <3>2, <4>1, <4>2
        <3>6. Grows(M, L, W[m])
            BY <1>11, <2>5
        <3>7. Chain(M, i, W, c, m)
            BY <1>4, <2>1, <3>2, <3>4, <3>5, <3>6, SaidChain
        <3> QED BY <3>6, <3>7 DEF Grows
    <2> QED BY <2>3, <2>4, <2>5
<1> HIDE DEF W, c
<1> QED BY <1>1, <1>2, <1>3, <1>5, <1>6, <1>12 DEF Told

(* Asking for a protocol, answering with one, and writing a message.        *)
LEMMA SayFlow ==
    ASSUME TypeInv, TypeInv', MarkInv, IdInv, FlowInv, [Next]_vars,
           NEW z \in Sides, NEW t \in Sessions, Request(z, t) \/ Reply(z, t) \/ Write(z, t),
           NEW x \in Sides, NEW y \in Sides, y = Other(x), NEW s \in Sessions
    PROVE  Seen(x, y, s)' /\ Told(x, y, s)'
<1>1. Local(z, t) /\ x # y /\ TypeOK /\ Equipped(z, t)
    BY TasksLocal, SideFacts DEF TypeInv
<1>2. CASE s # t
    BY <1>1, <1>2, LocalFlow
<1>3. /\ UNCHANGED <<inbox, got, agreed>>
      /\ \/ task[z][t] = "request" /\ TaskSet(z, t, "await") /\ sent' = sent
         \/ task[z][t] = "reply" /\ TaskSet(z, t, "read") /\ sent' = sent
         \/ task[z][t] = "write" /\ TaskSet(z, t, "read") /\ sent'[z][t] = sent[z][t] + 1
    <2>1. CASE Request(z, t)
        BY <1>1, <2>1, RequestEffect DEF history
    <2>2. CASE Reply(z, t)
        BY <1>1, <2>2, ReplyEffect DEF history
    <2>3. CASE Write(z, t)
        BY <1>1, <2>3, SayEffect
    <2> QED BY <2>1, <2>2, <2>3
<1>4. CASE s = t /\ z = y
    <2>1. task'[x][s] = task[x][s]
        BY <1>1, <1>4 DEF Local
    <2>2. Keeps(x, y, s)
        BY <1>3, <1>4, <2>1 DEF Keeps, TaskSet, Past, Young, Early, Talks, Over, Heard
    <2> QED BY <1>1, <1>3, <1>4, <2>2, LocalFlow
<1>5. CASE s = t /\ z = x
    <2>1. Seen(x, y, s) /\ sent[x][s] \in Nat
        BY CountsTyped DEF FlowInv
    <2>2. ~Early(x, s)'
        BY <1>3, <1>5 DEF TaskSet, Early
    <2>3. Seen(x, y, s)'
        <3>1. CASE sent'[x][s] = sent[x][s]
            <4>1. Young(x, s)' => Young(x, s)
                BY <1>3, <1>5 DEF TaskSet, Young, Early
            <4> QED BY <1>3, <2>1, <2>2, <3>1, <4>1, SeenKept
        <3>2. CASE task'[x][s] = "read"
            BY <1>3, <2>1, <2>2, <3>2 DEF Seen, Young
        <3> QED BY <1>3, <1>5, <3>1, <3>2 DEF TaskSet
    <2>4. PICK m \in Nat : /\ sent'[x][s] = m /\ Queued(x, Script(x, s)[m])
                           /\ \/ Early(x, s) /\ sent[x][s] = 0 /\ m = 0
                              \/ Talks(x, s) /\ m = sent[x][s] + 1
        <3>1. /\ Script(x, s)[0] = DataFrame(stream_id[x][s],
                     IF Opener[s] = x THEN ProtoOf[s] ELSE agreed[x][s])
              /\ \A r \in Nat : r > 0 =>
                     Script(x, s)[r] = DataFrame(stream_id[x][s], Message(s, x, r))
            BY CountsTyped, ScriptWords
        <3>2. Roles(x, s)
            BY DEF IdInv
        <3>3. CASE Request(x, s)
            <4>1. /\ task[x][s] = "request" /\ sent' = sent
                  /\ Queued(x, DataFrame(stream_id[x][s], ProtoOf[s]))
                BY <1>1, <1>5, <3>3, RequestEffect DEF history
            <4>2. Early(x, s) /\ sent[x][s] = 0 /\ Opener[s] = x
                BY <2>1, <3>2, <4>1 DEF Early, Young, Seen, Roles
            <4> QED BY <3>1, <4>1, <4>2
        <3>4. CASE Reply(x, s)
            <4>1. /\ task[x][s] = "reply" /\ sent' = sent
                  /\ Queued(x, DataFrame(stream_id[x][s], agreed[x][s]))
                BY <1>1, <1>5, <3>4, ReplyEffect DEF history
            <4>2. Early(x, s) /\ sent[x][s] = 0 /\ Opener[s] # x
                BY <2>1, <3>2, <4>1 DEF Early, Young, Seen, Roles
            <4> QED BY <3>1, <4>1, <4>2
        <3>5. CASE Write(x, s)
            <4>1. /\ task[x][s] = "write" /\ sent'[x][s] = sent[x][s] + 1
                  /\ Queued(x, DataFrame(stream_id[x][s], Message(s, x, sent[x][s] + 1)))
                BY <1>1, <1>5, <3>5, SayEffect
            <4>2. sent[x][s] + 1 \in Nat /\ sent[x][s] + 1 > 0 /\ Talks(x, s)
                BY <2>1, <4>1 DEF Talks
            <4> QED BY <3>1, <4>1, <4>2
        <3> QED BY <1>5, <3>3, <3>4, <3>5
    <2>5. Told(x, y, s)'
        BY <1>1, <1>3, <1>5, <2>2, <2>4, SaidFlow
    <2> QED BY <2>3, <2>5
<1> QED BY <1>2, <1>4, <1>5, SideFacts

(* What is heard is the next word, and then the word after it is awaited.   *)
LEMMA Hearing ==
    ASSUME TypeInv, TypeInv', MarkInv, FlowInv, [Next]_vars,
           NEW x \in Sides, NEW y \in Sides, y = Other(x), NEW s \in Sessions,
           Local(y, s), Received(y, s), UNCHANGED mpsc, sent'[x][s] = sent[x][s],
           task[y][s] \in {"await", "answer", "read"}
    PROVE  /\ Past(x, s) /\ ~Early(x, s) /\ stream_id[x][s] \in Ids
           /\ DataFrame(stream_id[x][s], Head(inbox[y][s])) = Script(x, s)[Heard(y, s)]
           /\ Heard(y, s) =< sent[x][s]
           /\ (~Over(y, s)' => Heard(y, s)' = Heard(y, s) + 1) => Told(x, y, s)'
<1> DEFINE i == stream_id[x][s]
           W == Script(x, s)
           n == sent[x][s]
           c == Heard(y, s)
           L == Coming(x, s)
           M == Coming(x, s)'
           q == inbox[y][s]
           u == Img(i, q)
           v == Held(y)
           w == Rest(x)
           f == DataFrame(i, Head(q))
<1>1. Durable /\ x # y /\ link' = link /\ conn' = conn /\ wire' = wire
    BY NextDurable, SideFacts DEF Local, connVars
<1>2. /\ task'[x][s] = task[x][s] /\ agreed'[x][s] = agreed[x][s]
      /\ stream_id'[x][s] = i
    BY <1>1 DEF Local
<1>3. Told(x, y, s)
    BY DEF FlowInv
<1>4. q # <<>> /\ Head(q) \in Payloads /\ inbox'[y][s] = Tail(q)
    BY DEF Received
<1>5. Past(x, s) /\ Past(x, s)' /\ i \in Ids
    <2>1. Past(x, s)
        BY <1>3, <1>4 DEF Told
    <2> QED BY <1>1, <2>1, CountsTyped DEF Durable
<1>6. Words(W, i) /\ n \in Nat /\ c \in Nat /\ ~Over(y, s)
    BY CountsTyped DEF Over
<1>7. /\ q \in Seq(Payloads) /\ u \in Seq(Frames) /\ v \in Seq(Frames) /\ w \in Seq(Frames)
      /\ L = u \o v \o w
    BY <1>5, ComingTyped
<1>8. M = Tail(u) \o v \o w /\ u # <<>> /\ Head(u) = f /\ Tail(u) \in Seq(Frames)
    <2>1. u # <<>> /\ Head(u) = f /\ Img(i, Tail(q)) = Tail(u)
        BY <1>4, <1>5, <1>7, ImgFacts
    <2>2. Sent(x)' = Sent(x)
        <3>1. Pipe(x)' = Pipe(x)
            BY <1>1, PipeSame
        <3> QED BY <1>1, <3>1 DEF Sent
    <2>3. Held(y)' = v /\ Rest(x)' = w
        BY <1>1, <2>2 DEF Held, Rest, Up
    <2>4. M = Tail(u) \o v \o w
        BY <1>2, <1>4, <2>1, <2>3 DEF Coming
    <2> HIDE DEF u
    <2>5. Tail(u) \in Seq(Frames)
        BY <1>7, <2>1
    <2> QED BY <2>1, <2>4, <2>5
<1>9. Script(x, s)' = W
    BY <1>2, ScriptSame
<1>10. Mine(i, f)
    BY MadeFacts DEF Mine
<1> HIDE DEF u, v, w, f, q
<1>11. Beheaded(M, L, f)
    <2>1. Beheaded(Tail(u), u, f)
        BY <1>7, <1>8, ShapesOfChange
    <2> QED BY <1>7, <1>8, <2>1, FirstPart
<1>12. /\ Chain(L, i, W, c, n)
       /\ Early(x, s) => Silence(L, i)
       /\ link /\ Talks(x, s) => c = n + 1 \/ Holds(L, W[n])
    BY <1>3, <1>5, <1>6 DEF Told
<1> HIDE DEF L, M, i, W, n, c
<1>13. f = W[c] /\ c =< n /\ Chain(M, i, W, c + 1, n)
    BY <1>6, <1>10, <1>11, <1>12, FirstWord
<1>14. ~Early(x, s)
    BY <1>10, <1>11, <1>12 DEF Silence, Beheaded, Loses
<1>15. ASSUME link, Talks(x, s) PROVE c + 1 = n + 1 \/ Holds(M, W[n])
    <2>1. Holds(L, W[n])
        BY <1>6, <1>12, <1>13, <1>15
    <2>2. CASE c = n
        BY <2>2
    <2>3. CASE c # n
        <3>1. W[n] # f
            BY <1>6, <1>13, <2>3 DEF Words
        <3> QED BY <1>11, <2>1, <3>1 DEF Beheaded, Loses
    <2> QED BY <2>2, <2>3
<1>16. (Early(x, s)' <=> Early(x, s)) /\ (Talks(x, s)' <=> Talks(x, s))
    BY <1>2 DEF Early, Talks
<1>17. ASSUME ~Over(y, s)' => Heard(y, s)' = c + 1 PROVE Told(x, y, s)'
    <2>1. ~Over(y, s)' => Chain(Coming(x, s)', stream_id'[x][s], Script(x, s)',
                                Heard(y, s)', sent'[x][s])
        BY <1>2, <1>9, <1>13, <1>17 DEF M, n
    <2>2. ~Over(y, s)' /\ link' /\ Talks(x, s)' =>
              \/ Heard(y, s)' = sent'[x][s] + 1
              \/ Holds(Coming(x, s)', Script(x, s)'[sent'[x][s]])
        BY <1>1, <1>9, <1>15, <1>16, <1>17 DEF M, n
    <2> QED BY <1>5, <1>14, <1>16, <2>1, <2>2 DEF Told
<1> QED BY <1>5, <1>13, <1>14, <1>17 DEF i, W, c, f, q, n

(* What the hearer has to say itself is not changed by what it hears.       *)
LEMMA HearerFlow ==
    ASSUME TypeInv, TypeInv', MarkInv, IdInv, FlowInv, [Next]_vars,
           NEW x \in Sides, NEW y \in Sides, y = Other(x), NEW s \in Sessions,
           Local(y, s), UNCHANGED mpsc, sent'[y][s] = sent[y][s],
           Early(y, s)' => Early(y, s), Talks(y, s)' => Talks(y, s),
           \/ agreed'[y][s] = agreed[y][s] \/ Opener[s] = y
           \/ Early(y, s)'
    PROVE  Told(y, x, s)'
<1>1. Durable /\ x # y /\ x = Other(y) /\ link' = link /\ conn' = conn
    BY NextDurable, SideFacts DEF Local, connVars
<1>2. /\ task'[x][s] = task[x][s] /\ inbox'[x][s] = inbox[x][s] /\ got'[x][s] = got[x][s]
      /\ stream_id'[y][s] = stream_id[y][s] /\ Past(y, s)
    BY <1>1 DEF Local
<1>3. (Over(x, s)' <=> Over(x, s)) /\ Heard(x, s)' = Heard(x, s)
    BY <1>2 DEF Over, Heard
<1>4. Past(y, s)'
    BY <1>1, <1>2 DEF Durable
<1>5. Near(Coming(y, s)', Coming(y, s), stream_id[y][s], ~link')
    <2>1. Near(Sent(y)', Sent(y), stream_id[y][s], ~link')
        BY <1>2, LocalNear
    <2> QED BY <1>1, <1>2, <1>4, <2>1, ComingKept
<1>6. CASE agreed'[y][s] = agreed[y][s] \/ Opener[s] = y
    BY <1>1, <1>2, <1>3, <1>4, <1>5, <1>6, ToldKept
<1>7. CASE Early(y, s)'
    <2>1. Told(y, x, s) /\ Early(y, s)
        BY <1>1, <1>7 DEF FlowInv
    <2>2. ~Talks(y, s)'
        BY <1>7 DEF Early, Talks
    <2>3. ASSUME ~Over(x, s)'
          PROVE  /\ Heard(x, s)' = 0
                 /\ Silence(Coming(y, s)', stream_id'[y][s])
                 /\ Chain(Coming(y, s)', stream_id'[y][s], Script(y, s)',
                          Heard(x, s)', sent'[y][s])
        <3>1. Heard(x, s)' = 0 /\ Silence(Coming(y, s), stream_id[y][s])
            BY <1>2, <1>3, <2>1, <2>3 DEF Told
        <3>2. Silence(Coming(y, s)', stream_id[y][s])
            <4>1. Words(Script(y, s), stream_id[y][s])
                BY CountsTyped
            <4> QED BY <1>5, <3>1, <4>1, NearChain
        <3>3. Coming(y, s)' \in Seq(Frames)
            <4>1. stream_id[y][s] \in Ids
                BY <1>2, CountsTyped
            <4>2. /\ Img(stream_id[y][s], inbox[x][s])' \in Seq(Frames)
                  /\ Held(x)' \in Seq(Frames) /\ Rest(y)' \in Seq(Frames)
                  /\ Coming(y, s)' = Img(stream_id[y][s], inbox[x][s])' \o Held(x)' \o Rest(y)'
                BY <1>1, <1>2, <4>1, ComingStaysTyped
            <4> QED BY <4>2
        <3>4. (Words(Script(y, s), stream_id[y][s]))'
            BY ScriptStays
        <3> DEFINE M == Coming(y, s)'
                   W == Script(y, s)'
                   c == Heard(x, s)'
                   n == sent'[y][s]
                   i == stream_id'[y][s]
        <3>5. M \in Seq(Frames) /\ Silence(M, i) /\ Words(W, i)
            BY <1>2, <3>2, <3>3, <3>4
        <3> HIDE DEF M, W, c, n, i
        <3>6. Chain(M, i, W, c, n)
            BY <3>5, SilentChain
        <3> QED BY <3>1, <3>5, <3>6 DEF M, W, c, n, i
    <2> QED BY <1>2, <1>4, <2>2, <2>3 DEF Told
<1> QED BY <1>6, <1>7

(* An initiator hears the answer.                                           *)
LEMMA AwaitFlow ==
    ASSUME TypeInv, TypeInv', MarkInv, IdInv, FlowInv, [Next]_vars,
           NEW x \in Sides, NEW y \in Sides, y = Other(x), NEW s \in Sessions, Await(y, s)
    PROVE  Seen(x, y, s)' /\ Told(x, y, s)' /\ Seen(y, x, s)' /\ Told(y, x, s)'
<1>1. Local(y, s) /\ x # y /\ x = Other(y)
    BY TasksLocal, SideFacts
<1>2. /\ task[y][s] = "await" /\ Received(y, s)
      /\ \/ /\ Head(inbox[y][s]) = ProtoOf[s] /\ task'[y][s] = "read"
            /\ agreed'[y][s] = ProtoOf[s]
         \/ task'[y][s] = "panic" /\ agreed'[y][s] = agreed[y][s]
      /\ UNCHANGED <<mpsc, sent, got>>
    BY AwaitEffect DEF TypeInv, TaskSet, Settled
<1>3. Opener[s] = y
    BY <1>2 DEF IdInv, Roles
<1>4. Seen(x, y, s) /\ Seen(y, x, s)
    BY <1>1 DEF FlowInv
<1>5. got[y][s] = <<>> /\ Heard(y, s) = 0
    BY <1>2, <1>4 DEF Seen, Young, Heard
<1>6. /\ Past(x, s) /\ ~Early(x, s) /\ stream_id[x][s] \in Ids
      /\ DataFrame(stream_id[x][s], Head(inbox[y][s])) = Script(x, s)[Heard(y, s)]
      /\ (~Over(y, s)' => Heard(y, s)' = Heard(y, s) + 1) => Told(x, y, s)'
    BY <1>1, <1>2, Hearing
<1>7. Told(x, y, s)'
    <2>1. ~Over(y, s)' => Heard(y, s)' = Heard(y, s) + 1
        BY <1>2, <1>5 DEF Over, Heard
    <2> QED BY <1>6, <2>1
<1>8. /\ task'[x][s] = task[x][s] /\ agreed'[x][s] = agreed[x][s]
    BY <1>1 DEF Local
<1>9. Seen(x, y, s)'
    BY <1>1, <1>2, <1>3, <1>4, <1>6, <1>8 DEF Seen, Young, Early
<1>10. Head(inbox[y][s]) = agreed[x][s]
    <2>1. Script(x, s)[0] = DataFrame(stream_id[x][s], agreed[x][s])
        BY <1>1, <1>3, CountsTyped, ScriptWords
    <2>2. DataFrame(stream_id[x][s], Head(inbox[y][s])) =
              DataFrame(stream_id[x][s], agreed[x][s])
        BY <1>5, <1>6, <2>1
    <2> QED BY <2>2, MadeFacts
<1>11. Seen(y, x, s)'
    BY <1>1, <1>2, <1>3, <1>4, <1>8, <1>10 DEF Seen, Young, Early
<1>12. Told(y, x, s)'
    <2>1. (Early(y, s)' => Early(y, s)) /\ (Talks(y, s)' => Talks(y, s))
        BY <1>2 DEF Early, Talks
    <2> QED BY <1>1, <1>2, <1>3, <2>1, HearerFlow
<1> QED BY <1>7, <1>9, <1>11, <1>12

(* A responder hears the question.                                          *)
LEMMA AnswerFlow ==
    ASSUME TypeInv, TypeInv', MarkInv, IdInv, FlowInv, [Next]_vars,
           NEW x \in Sides, NEW y \in Sides, y = Other(x), NEW s \in Sessions, Answer(y, s)
    PROVE  Seen(x, y, s)' /\ Told(x, y, s)' /\ Seen(y, x, s)' /\ Told(y, x, s)'
<1>1. Local(y, s) /\ x # y /\ x = Other(y)
    BY TasksLocal, SideFacts
<1>2. /\ task[y][s] = "answer" /\ Received(y, s)
      /\ \/ task'[y][s] = "reply"
         \/ task'[y][s] = "panic" /\ agreed'[y][s] = agreed[y][s]
      /\ UNCHANGED <<mpsc, sent, got>>
    BY AnswerEffect DEF TypeInv, TaskSet
<1>3. Opener[s] = x
    BY <1>2, SideFacts DEF IdInv, Roles
<1>4. Seen(x, y, s) /\ Seen(y, x, s)
    BY <1>1 DEF FlowInv
<1>5. got[y][s] = <<>> /\ Heard(y, s) = 0 /\ agreed[x][s] = NoProtocol
    BY <1>2, <1>3, <1>4 DEF Seen, Young, Early, Heard
<1>6. /\ Past(x, s) /\ ~Early(x, s) /\ stream_id[x][s] \in Ids
      /\ DataFrame(stream_id[x][s], Head(inbox[y][s])) = Script(x, s)[Heard(y, s)]
      /\ (~Over(y, s)' => Heard(y, s)' = Heard(y, s) + 1) => Told(x, y, s)'
    BY <1>1, <1>2, Hearing
<1>7. Told(x, y, s)'
    <2>1. ~Over(y, s)' => Heard(y, s)' = Heard(y, s) + 1
        BY <1>2, <1>5 DEF Over, Heard
    <2> QED BY <1>6, <2>1
<1>8. /\ task'[x][s] = task[x][s] /\ agreed'[x][s] = agreed[x][s]
    BY <1>1 DEF Local
<1>9. Seen(x, y, s)'
    BY <1>1, <1>2, <1>4, <1>5, <1>6, <1>8 DEF Seen, Young, Early
<1>10. Seen(y, x, s)'
    BY <1>1, <1>2, <1>3, <1>4, <1>5, <1>8 DEF Seen, Young, Early
<1>11. Told(y, x, s)'
    <2>1. /\ Early(y, s)' => Early(y, s)
          /\ Talks(y, s)' => Talks(y, s)
          /\ agreed'[y][s] = agreed[y][s] \/ Early(y, s)'
        BY <1>2 DEF Early, Talks
    <2> QED BY <1>1, <1>2, <2>1, HearerFlow
<1> QED BY <1>7, <1>9, <1>10, <1>11

(* A handler reads a message.                                               *)
LEMMA ReadFlow ==
    ASSUME TypeInv, TypeInv', MarkInv, IdInv, FlowInv, [Next]_vars,
           NEW x \in Sides, NEW y \in Sides, y = Other(x), NEW s \in Sessions, Read(y, s)
    PROVE  Seen(x, y, s)' /\ Told(x, y, s)' /\ Seen(y, x, s)' /\ Told(y, x, s)'
<1> DEFINE h == Head(inbox[y][s])
           q == got[y][s]
<1>1. Local(y, s) /\ x # y /\ x = Other(y)
    BY TasksLocal, SideFacts
<1>2. /\ task[y][s] = "read" /\ Received(y, s) /\ got'[y][s] = Append(q, h)
      /\ UNCHANGED <<mpsc, task, sent, agreed>>
    BY ReadEffect DEF TypeInv
<1>3. Seen(x, y, s) /\ Seen(y, x, s)
    BY <1>1 DEF FlowInv
<1>4. q \in Seq(Payloads) /\ h \in Payloads /\ Len(q) \in Nat
    BY <1>2, CountsTyped DEF Received
<1>5. Heard(y, s) = Len(q) + 1
    BY <1>2 DEF Heard
<1>6. /\ Past(x, s) /\ ~Early(x, s) /\ stream_id[x][s] \in Ids
      /\ DataFrame(stream_id[x][s], h) = Script(x, s)[Heard(y, s)]
      /\ (~Over(y, s)' => Heard(y, s)' = Heard(y, s) + 1) => Told(x, y, s)'
    BY <1>1, <1>2, Hearing
<1> HIDE DEF q, h
<1>7. Told(x, y, s)'
    <2>1. Len(Append(q, h)) = Len(q) + 1
        BY <1>4
    <2>2. Heard(y, s)' = Heard(y, s) + 1
        BY <1>2, <1>5, <2>1 DEF Heard
    <2> QED BY <1>6, <2>2
<1>8. h = Message(s, x, Len(q) + 1)
    <2>1. Len(q) + 1 \in Nat /\ Len(q) + 1 > 0
        BY <1>4
    <2>2. Script(x, s)[Len(q) + 1] =
              DataFrame(stream_id[x][s], Message(s, x, Len(q) + 1))
        BY <2>1, CountsTyped, ScriptWords
    <2>3. DataFrame(stream_id[x][s], h) =
              DataFrame(stream_id[x][s], Message(s, x, Len(q) + 1))
        BY <1>5, <1>6, <2>2
    <2> QED BY <2>3, MadeFacts
<1>9. ASSUME NEW n \in DOMAIN got'[y][s] PROVE got'[y][s][n] = Message(s, x, n)
    <2>1. n \in 1..(Len(q) + 1) /\ DOMAIN q = 1..Len(q)
        BY <1>2, <1>4, <1>9
    <2>2. CASE n = Len(q) + 1
        BY <1>2, <1>4, <1>8, <2>2
    <2>3. CASE n # Len(q) + 1
        <3>1. n \in DOMAIN q /\ Append(q, h)[n] = q[n]
            BY <1>4, <2>1, <2>3
        <3> QED BY <1>2, <1>3, <3>1 DEF Seen, q
    <2> QED BY <2>2, <2>3
<1>10. got'[x][s] = got[x][s]
    BY <1>1 DEF Local
<1>11. Seen(x, y, s)'
    BY <1>2, <1>3, <1>9, <1>10 DEF Seen, Young, Early
<1>12. Seen(y, x, s)'
    BY <1>2, <1>3, <1>10 DEF Seen, Young, Early
<1>13. Told(y, x, s)'
    <2>1. (Early(y, s)' => Early(y, s)) /\ (Talks(y, s)' => Talks(y, s))
        BY <1>2 DEF Early, Talks
    <2> QED BY <1>1, <1>2, <2>1, HearerFlow
<1> QED BY <1>7, <1>11, <1>12, <1>13

(* The task of a stream takes a payload.                                    *)
LEMMA HearFlow ==
    ASSUME TypeInv, TypeInv', MarkInv, IdInv, FlowInv, [Next]_vars,
           NEW z \in Sides, NEW t \in Sessions, Await(z, t) \/ Answer(z, t) \/ Read(z, t),
           NEW x \in Sides, NEW y \in Sides, y = Other(x), NEW s \in Sessions
    PROVE  Seen(x, y, s)' /\ Told(x, y, s)'
<1>1. Local(z, t) /\ x = Other(y)
    BY TasksLocal, SideFacts
<1>2. CASE s # t
    BY <1>1, <1>2, LocalFlow
<1>3. CASE s = t /\ z = y
    BY <1>3, AwaitFlow, AnswerFlow, ReadFlow
<1>4. CASE s = t /\ z = x
    BY <1>1, <1>4, AwaitFlow, AnswerFlow, ReadFlow
<1> QED BY <1>2, <1>3, <1>4, SideFacts

(* Every step keeps the story of every stream.                              *)
LEMMA NextFlow ==
    ASSUME TypeInv, MarkInv, VoiceInv, IdInv, RouteInv, FlowInv, [Next]_vars
    PROVE  FlowInv'
<1>1. TypeInv'
    BY NextTyped
<1> SUFFICES ASSUME NEW x \in Sides, NEW y \in Sides, y = Other(x), NEW s \in Sessions
             PROVE  Seen(x, y, s)' /\ Told(x, y, s)'
    BY DEF FlowInv
<1> DEFINE Goal == Seen(x, y, s)' /\ Told(x, y, s)'
<1> HIDE DEF Goal
<1>2. ASSUME NEW t \in Sessions, Ask(t) PROVE Goal
    BY <1>1, <1>2, AwayFlow DEF Goal
<1>3. CASE LinkLost \/ UNCHANGED vars
    BY <1>1, <1>3, AwayFlow DEF Goal
<1>4. ASSUME NEW z \in Sides, ConnOpen(z) \/ ConnClose(z) \/ ConnWrite(z) \/ ConnFlush(z)
      PROVE  Goal
    BY <1>1, <1>4, AwayFlow DEF Goal
<1>5. ASSUME NEW z \in Sides, ConnAnnounce(z) PROVE Goal
    BY <1>1, <1>5, AnnounceFlow DEF Goal
<1>6. ASSUME NEW z \in Sides, ConnAccept(z) PROVE Goal
    BY <1>1, <1>6, AcceptFlow DEF Goal
<1>7. ASSUME NEW z \in Sides, ConnRoute(z) \/ ConnDeliver(z) \/ ConnEnds(z) PROVE Goal
    <2>1. CASE z = x
        BY <1>1, <1>7, <2>1, AwayFlow DEF Goal
    <2>2. CASE z = y /\ ConnRoute(z)
        BY <2>2, RouteFlow DEF Goal
    <2>3. CASE z = y /\ ConnDeliver(z)
        BY <2>3, HandOverFlow DEF Goal
    <2>4. CASE z = y /\ ConnEnds(z)
        BY <2>4, EndFlow DEF Goal
    <2> QED BY <1>7, <2>1, <2>2, <2>3, <2>4, SideFacts
<1>8. ASSUME NEW z \in Sides, NEW t \in Sessions, Request(z, t) \/ Reply(z, t) \/ Write(z, t)
      PROVE  Goal
    BY <1>1, <1>8, SayFlow DEF Goal
<1>9. ASSUME NEW z \in Sides, NEW t \in Sessions, Turns(z, t) \/ Close(z, t) PROVE Goal
    BY <1>1, <1>9, TurnFlow DEF Goal
<1>10. ASSUME NEW z \in Sides, NEW t \in Sessions, Await(z, t) \/ Answer(z, t) \/ Read(z, t)
       PROVE  Goal
    BY <1>1, <1>10, HearFlow DEF Goal
<1>11. ASSUME NEW z \in Sides,
              \/ ConnOpen(z) \/ ConnAnnounce(z) \/ ConnAccept(z) \/ ConnRoute(z)
              \/ ConnDeliver(z) \/ ConnClose(z) \/ ConnWrite(z) \/ ConnFlush(z) \/ ConnEnds(z)
       PROVE  Goal
    BY <1>4, <1>5, <1>6, <1>7, <1>11
<1>12. ASSUME NEW z \in Sides, NEW t \in Sessions,
              \/ Request(z, t) \/ Reply(z, t) \/ Write(z, t) \/ Close(z, t)
              \/ Await(z, t) \/ Answer(z, t) \/ Read(z, t) \/ Turns(z, t)
       PROVE  Goal
    BY <1>8, <1>9, <1>10, <1>12
<1> QED BY <1>2, <1>3, <1>11, <1>12, Steps DEF Goal

(* Before anything is said.                                                 *)
LEMMA InitFlow ==
    ASSUME Init
    PROVE  FlowInv
<1> SUFFICES ASSUME NEW x \in Sides, NEW y \in Sides, y = Other(x), NEW s \in Sessions
             PROVE  Seen(x, y, s) /\ Told(x, y, s)
    BY DEF FlowInv
<1>1. /\ \A z \in Sides : /\ task[z][s] = "none" /\ inbox[z][s] = <<>> /\ sent[z][s] = 0
                          /\ got[z][s] = <<>> /\ agreed[z][s] = NoProtocol
    BY DEF Init, PerStream
<1>2. Seen(x, y, s)
    BY <1>1 DEF Seen
<1>3. Told(x, y, s)
    BY <1>1 DEF Told, Past, Heard, Talks
<1> QED BY <1>2, <1>3

\* where every stream stands, and what is on its way
StoryInv == TypeInv /\ MarkInv /\ VoiceInv /\ IdInv /\ RouteInv /\ FlowInv

(* The story of every stream is true from the start.                        *)
LEMMA StoryHolds ==
    ASSUME OneOpener
    PROVE  Spec => []StoryInv
<1>1. Init => StoryInv
    BY InitTyped, InitMarked, InitVoiced, InitIds, InitRoutes, InitFlow DEF StoryInv
<1>2. StoryInv /\ [Next]_vars => StoryInv'
    BY NextTyped, NextMarks, NextVoices, NextIds, NextRoutes, NextFlow DEF StoryInv
<1> QED BY <1>1, <1>2, PTL DEF Spec

(* What a handler reads from a stream is what the handler at the other end   *)
(* wrote to that stream, in that order and with nothing left out, however    *)
(* streams interleave on the connection (handle_incoming routes by id), where *)
(* one end opens every stream.                                               *)
THEOREM HandlersReadWhatWasWritten ==
    ASSUME OneOpener
    PROVE  Spec => []StreamsIsolated
<1>1. StoryInv => StreamsIsolated
    <2> SUFFICES ASSUME StoryInv, NEW y \in Sides, NEW s \in Sessions, NEW n \in DOMAIN got[y][s]
                 PROVE  got[y][s][n] = Message(s, Other(y), n)
        BY DEF StreamsIsolated
    <2>1. Other(y) \in Sides /\ y = Other(Other(y))
        BY SideFacts
    <2>2. Seen(Other(y), y, s)
        BY <2>1 DEF StoryInv, FlowInv
    <2> QED BY <2>2 DEF Seen
<1> QED BY <1>1, StoryHolds, PTL

(* An initiator hands its stream to a protocol's handler only if the task at  *)
(* the other end settled on that same protocol (negotiate), where one end     *)
(* opens every stream.                                                        *)
THEOREM BothSettleAlike ==
    ASSUME OneOpener
    PROVE  Spec => []NegotiatedTogether
<1>1. StoryInv => NegotiatedTogether
    <2> SUFFICES ASSUME StoryInv, NEW s \in Sessions, agreed[Opener[s]][s] # NoProtocol
                 PROVE  agreed[Other(Opener[s])][s] = agreed[Opener[s]][s]
        BY DEF NegotiatedTogether
    <2>1. Opener[s] \in Sides /\ Other(Opener[s]) \in Sides
        BY SideFacts
    <2>2. Seen(Opener[s], Other(Opener[s]), s)
        BY <2>1 DEF StoryInv, FlowInv
    <2> QED BY <2>2 DEF Seen
<1> QED BY <1>1, StoryHolds, PTL

-----------------------------------------------------------------------------
(* A stream as a pair of reliable channels. *)

(* The phases of a stream's task.                                           *)
LEMMA Phases ==
    /\ \A l \in {"none", "asked", "request", "await", "answer"} : PhaseOf(l) = "silent"
    /\ \A l \in {"reply", "read", "write", "close"} : PhaseOf(l) = "talking"
    /\ \A l \in {"done", "panic"} : PhaseOf(l) = "ended"
BY DEF PhaseOf

(* What has been written, message by message.                               *)
LEMMA WrittenFacts ==
    ASSUME SentT, NEW x \in Sides, NEW s \in Sessions
    PROVE  /\ WrittenMessages[x][s] \in Seq(Messages)
           /\ Len(WrittenMessages[x][s]) = sent[x][s]
           /\ \A n \in 1..sent[x][s] : WrittenMessages[x][s][n] = Message(s, x, n)
<1>1. sent[x][s] \in Nat
    BY DEF SentT
<1>2. WrittenMessages[x][s] = [n \in 1..sent[x][s] |-> Message(s, x, n)]
    BY DEF WrittenMessages
<1>3. \A n \in 1..sent[x][s] : Message(s, x, n) \in Messages
    BY <1>1 DEF Message, Messages
<1> QED BY <1>1, <1>2, <1>3

(* ... and what every end has written on every stream.                      *)
WrittenT == WrittenMessages \in [Sides -> [Sessions -> Seq(Messages)]]
LEMMA WrittenTyped == (SentT => WrittenT) /\ (SentT' => WrittenT')
<1>1. SentT => WrittenT
    <2> SUFFICES ASSUME SentT PROVE WrittenT
        OBVIOUS
    <2>1. \A x \in Sides, s \in Sessions : WrittenMessages[x][s] \in Seq(Messages)
        BY WrittenFacts
    <2>2. WrittenMessages = [x \in Sides |-> [s \in Sessions |-> WrittenMessages[x][s]]]
        BY DEF WrittenMessages
    <2> QED BY <2>1, <2>2 DEF WrittenT
<1> QED BY <1>1, PTL

(* A function of two indices that differs from another in one place.        *)
LEMMA PutBack ==
    ASSUME NEW X, NEW Y, NEW S, NEW F \in [X -> [Y -> S]], NEW G \in [X -> [Y -> S]],
           NEW a \in X, NEW b \in Y,
           \A x \in X, y \in Y : x # a \/ y # b => G[x][y] = F[x][y]
    PROVE  G = [F EXCEPT ![a][b] = G[a][b]]
<1> DEFINE H == [F EXCEPT ![a][b] = G[a][b]]
<1>1. H \in [X -> [Y -> S]] /\ \A x \in X, y \in Y : H[x][y] = G[x][y]
    BY PutFacts
<1> HIDE DEF H
<1>2. \A x \in X : H[x] = G[x]
    BY <1>1
<1> QED BY <1>1, <1>2 DEF H

(* A step that concerns one task, as a step of the phases.                  *)
LEMMA PhaseSet ==
    ASSUME NEW x \in Sides, NEW s \in Sessions, NEW label, TaskSet(x, s, label)
    PROVE  /\ Phase[x][s] = PhaseOf(task[x][s])
           /\ Phase' = [Phase EXCEPT ![x][s] = PhaseOf(label)]
           /\ PhaseOf(label) = PhaseOf(task[x][s]) => Phase' = Phase
<1> DEFINE F == [y \in Sides |-> [t \in Sessions |-> PhaseOf(task[y][t])]]
           G == [y \in Sides |-> [t \in Sessions |-> PhaseOf(task'[y][t])]]
<1>1. Phase = F /\ Phase' = G /\ F[x][s] = PhaseOf(task[x][s])
    BY DEF Phase
<1>2. \A y \in Sides, t \in Sessions :
          PhaseOf(task'[y][t]) = IF y = x /\ t = s THEN PhaseOf(label) ELSE PhaseOf(task[y][t])
    BY Zenon DEF TaskSet
<1>3. G = [F EXCEPT ![x][s] = PhaseOf(label)]
    BY <1>2
<1>4. PhaseOf(label) = PhaseOf(task[x][s]) => G = F
    BY <1>2
<1> QED BY <1>1, <1>3, <1>4

(* The task of a stream moves within its phase.                             *)
LEMMA WithinPhase ==
    ASSUME NEW x \in Sides, NEW s \in Sessions, NEW label, TaskSet(x, s, label),
           PhaseOf(label) = PhaseOf(task[x][s]), UNCHANGED <<sent, got, agreed>>
    PROVE  UNCHANGED Channels!vars
<1>1. Phase' = Phase
    BY PhaseSet
<1>2. WrittenMessages' = WrittenMessages
    BY DEF WrittenMessages
<1> QED BY <1>1, <1>2 DEF Channels!vars

(* It ends.                                                                 *)
LEMMA EndsStream ==
    ASSUME NEW x \in Sides, NEW s \in Sessions, NEW label \in {"done", "panic"},
           TaskSet(x, s, label), PhaseOf(task[x][s]) # "ended", UNCHANGED <<sent, got, agreed>>
    PROVE  Channels!Ends(x, s)
<1>1. Phase' = [Phase EXCEPT ![x][s] = "ended"] /\ Phase[x][s] # "ended"
    BY PhaseSet, Phases
<1>2. WrittenMessages' = WrittenMessages
    BY DEF WrittenMessages
<1> QED BY <1>1, <1>2 DEF Channels!Ends

(* It settles on a protocol.                                                *)
LEMMA SettlesStream ==
    ASSUME AgreedT, NegotiatedTogether', NEW x \in Sides, NEW s \in Sessions,
           NEW p, Settled(x, s, p), NEW label \in {"read", "reply"}, TaskSet(x, s, label),
           task[x][s] \in {"await", "answer"}, UNCHANGED <<sent, got>>
    PROVE  p \in Protocols /\ Channels!Settles(x, s, p)
<1>1. Phase' = [Phase EXCEPT ![x][s] = "talking"] /\ Phase[x][s] = "silent"
    BY PhaseSet, Phases
<1>2. WrittenMessages' = WrittenMessages
    BY DEF WrittenMessages
<1>3. agreed' = [agreed EXCEPT ![x][s] = p] /\ p \in Protocols
    BY DEF Settled, AgreedT
<1>4. x = Opener[s] => agreed[Other(x)][s] = p
    <2> SUFFICES ASSUME x = Opener[s] PROVE agreed[Other(x)][s] = p
        OBVIOUS
    <2>1. agreed'[x][s] = p /\ p # NoProtocol /\ Other(x) \in Sides /\ Other(x) # x
        BY SideFacts DEF Settled
    <2>2. agreed'[Other(x)][s] = p
        BY <2>1 DEF NegotiatedTogether
    <2> QED BY <2>1, <2>2 DEF Settled
<1> QED BY <1>1, <1>2, <1>3, <1>4 DEF Channels!Settles, Channels!Other, Other

(* Its handler writes.                                                      *)
LEMMA WritesStream ==
    ASSUME TypeInv, NEW x \in Sides, NEW s \in Sessions, Write(x, s)
    PROVE  \E m \in Sayings : Channels!Writes(x, s, m)
<1> DEFINE n == sent[x][s]
           m == Message(s, x, n + 1)
           W == WrittenMessages
<1>1. /\ task[x][s] = "write" /\ TaskSet(x, s, "read") /\ UNCHANGED <<got, agreed>>
      /\ SentT /\ SentT' /\ n \in Nat /\ sent'[x][s] = n + 1
      /\ \A y \in Sides, t \in Sessions : y # x \/ t # s => sent'[y][t] = sent[y][t]
    BY SayEffect, TypeParts DEF TypeInv
<1>2. n + 1 \in 1..MaxWrites[x][s]
    <2>1. n < MaxWrites[x][s] /\ MaxWrites[x][s] \in Nat
        BY <1>1, MplexAssumption DEF TypeInv, Equipped
    <2> QED BY <1>1, <2>1
<1>3. m \in Sayings
    <2> DEFINE Of(y, t) == {Message(t, y, k) : k \in 1..MaxWrites[y][t]}
    <2>1. m \in Of(x, s)
        BY <1>2
    <2>2. Sayings = UNION {Of(y, t) : y \in Sides, t \in Sessions}
        BY DEF Sayings
    <2> HIDE DEF Of, m
    <2> QED BY <2>1, <2>2
<1>4. Phase' = Phase /\ Phase[x][s] = "talking"
    BY <1>1, PhaseSet, Phases
<1>5. W'[x][s] = Append(W[x][s], m)
    <2>1. /\ W[x][s] = [k \in 1..n |-> Message(s, x, k)]
          /\ W'[x][s] = [k \in 1..(n + 1) |-> Message(s, x, k)]
        BY <1>1 DEF WrittenMessages
    <2> QED BY <1>1, <2>1
<1>6. \A y \in Sides, t \in Sessions : y # x \/ t # s => W'[y][t] = W[y][t]
    BY <1>1 DEF WrittenMessages
<1>7. W' = [W EXCEPT ![x][s] = Append(@, m)]
    <2> DEFINE S == Seq(Messages)
    <2>1. W \in [Sides -> [Sessions -> S]] /\ W' \in [Sides -> [Sessions -> S]]
        BY <1>1, WrittenTyped DEF WrittenT
    <2> HIDE DEF W, S, m
    <2>2. W' = [W EXCEPT ![x][s] = W'[x][s]]
        BY <1>6, <2>1, PutBack
    <2> QED BY <1>5, <2>2
<1> HIDE DEF m, W
<1>8. Channels!Writes(x, s, m)
    BY <1>1, <1>4, <1>7 DEF Channels!Writes, W
<1> QED BY <1>3, <1>8

(* Its handler reads.                                                       *)
LEMMA ReadsStream ==
    ASSUME TypeInv, TypeInv', MarkInv, FlowInv, StreamsIsolated', [Next]_vars,
           NEW y \in Sides, NEW s \in Sessions, Read(y, s)
    PROVE  Channels!Reads(y, s)
<1> DEFINE q == got[y][s]
           n == Len(q) + 1
<1>1. PICK x \in Sides : x = Other(y) /\ y = Other(x)
    BY SideFacts
<1>2. /\ task[y][s] = "read" /\ Received(y, s) /\ got'[y][s] = Append(q, Head(inbox[y][s]))
      /\ q \in Seq(Payloads) /\ GotT' /\ GotT
      /\ \A z \in Sides, t \in Sessions : z # y \/ t # s => got'[z][t] = got[z][t]
      /\ UNCHANGED <<mpsc, task, sent, agreed>>
    BY ReadEffect, TypeParts DEF TypeInv
<1>3. Heard(y, s) =< sent[x][s]
    BY <1>1, <1>2, TasksLocal, Hearing
<1>4. n \in 1..sent[x][s] /\ SentT
    <2>1. Heard(y, s) = n
        BY <1>2 DEF Heard
    <2>2. SentT /\ sent[x][s] \in Nat /\ n \in Nat /\ n > 0
        BY <1>2, TypeParts DEF TypeInv, SentT
    <2> QED BY <1>3, <2>1, <2>2
<1>5. got'[y][s] = Append(q, Message(s, x, n))
    <2>1. Append(q, Head(inbox[y][s]))[n] = Head(inbox[y][s]) /\ n \in DOMAIN got'[y][s]
        BY <1>2
    <2>2. got'[y][s][n] = Message(s, x, n)
        BY <1>1, <2>1 DEF StreamsIsolated
    <2> QED BY <1>2, <2>1, <2>2
<1>6. WrittenMessages[x][s][n] = Message(s, x, n) /\ n =< Len(WrittenMessages[x][s])
    BY <1>4, WrittenFacts
<1> HIDE DEF n
<1>7. got' = [got EXCEPT ![y][s] = Append(@, WrittenMessages[x][s][n])]
    BY <1>2, <1>5, <1>6 DEF GotT
<1>8. Phase' = Phase /\ Phase[y][s] = "talking" /\ WrittenMessages' = WrittenMessages
    BY <1>2, Phases DEF Phase, WrittenMessages
<1> QED BY <1>1, <1>2, <1>6, <1>7, <1>8 DEF Channels!Reads, Channels!Other, Other, n

(* The task of a stream takes a step.                                       *)
LEMMA TaskRefines ==
    ASSUME TypeInv, TypeInv', MarkInv, FlowInv, StreamsIsolated', NegotiatedTogether',
           [Next]_vars, NEW x \in Sides, NEW s \in Sessions,
           \/ Request(x, s) \/ Reply(x, s) \/ Write(x, s) \/ Close(x, s)
           \/ Await(x, s) \/ Answer(x, s) \/ Read(x, s) \/ Turns(x, s)
    PROVE  [Channels!Next]_(Channels!vars)
<1> DEFINE Step == \/ \E p \in Protocols : Channels!Settles(x, s, p)
                   \/ \E m \in Sayings : Channels!Writes(x, s, m)
                   \/ Channels!Reads(x, s) \/ Channels!Ends(x, s)
<1>1. TypeOK /\ Equipped(x, s) /\ AgreedT
    BY TypeParts DEF TypeInv
<1>2. Step => Channels!Next
    BY DEF Channels!Next, Channels!Sides, Sides
<1>3. CASE Request(x, s)
    <2>1. task[x][s] = "request" /\ TaskSet(x, s, "await") /\ UNCHANGED <<sent, got, agreed>>
        BY <1>1, <1>3, RequestEffect DEF history
    <2> QED BY <2>1, Phases, WithinPhase
<1>4. CASE Reply(x, s)
    <2>1. task[x][s] = "reply" /\ TaskSet(x, s, "read") /\ UNCHANGED <<sent, got, agreed>>
        BY <1>1, <1>4, ReplyEffect DEF history
    <2> QED BY <2>1, Phases, WithinPhase
<1>5. CASE Write(x, s)
    BY <1>2, <1>5, WritesStream
<1>6. CASE Close(x, s)
    <2>1. task[x][s] = "close" /\ TaskSet(x, s, "done") /\ UNCHANGED <<sent, got, agreed>>
        BY <1>1, <1>6, ShutEffect DEF history
    <2> QED BY <1>2, <2>1, Phases, EndsStream
<1>7. CASE Await(x, s)
    <2>1. /\ task[x][s] = "await" /\ UNCHANGED <<sent, got>>
          /\ \/ TaskSet(x, s, "read") /\ Settled(x, s, ProtoOf[s])
             \/ TaskSet(x, s, "panic") /\ UNCHANGED agreed
        BY <1>1, <1>7, AwaitEffect
    <2>2. CASE TaskSet(x, s, "read") /\ Settled(x, s, ProtoOf[s])
        <3>1. ProtoOf[s] \in Protocols /\ Channels!Settles(x, s, ProtoOf[s])
            BY <1>1, <2>1, <2>2, SettlesStream
        <3> QED BY <1>2, <3>1
    <2>3. CASE TaskSet(x, s, "panic") /\ UNCHANGED agreed
        BY <1>2, <2>1, <2>3, Phases, EndsStream
    <2> QED BY <2>1, <2>2, <2>3
<1>8. CASE Answer(x, s)
    <2> DEFINE p == Head(inbox[x][s])
    <2>1. /\ task[x][s] = "answer" /\ UNCHANGED <<sent, got>>
          /\ \/ TaskSet(x, s, "reply") /\ Settled(x, s, p)
             \/ TaskSet(x, s, "panic") /\ UNCHANGED agreed
        BY <1>1, <1>8, AnswerEffect
    <2> HIDE DEF p
    <2>2. CASE TaskSet(x, s, "reply") /\ Settled(x, s, p)
        <3>1. p \in Protocols /\ Channels!Settles(x, s, p)
            BY <1>1, <2>1, <2>2, SettlesStream
        <3> QED BY <1>2, <3>1
    <2>3. CASE TaskSet(x, s, "panic") /\ UNCHANGED agreed
        BY <1>2, <2>1, <2>3, Phases, EndsStream
    <2> QED BY <2>1, <2>2, <2>3
<1>9. CASE Read(x, s)
    BY <1>2, <1>9, ReadsStream
<1>10. CASE Turns(x, s)
    <2>1. /\ \/ task[x][s] = "read" /\ (TaskSet(x, s, "write") \/ TaskSet(x, s, "close"))
             \/ task[x][s] = "read" /\ TaskSet(x, s, "done")
             \/ Listens(x, s) /\ TaskSet(x, s, "panic")
          /\ UNCHANGED <<sent, got, agreed>>
        BY <1>1, <1>10, TurnEffect DEF history
    <2>2. CASE task[x][s] = "read" /\ (TaskSet(x, s, "write") \/ TaskSet(x, s, "close"))
        BY <2>1, <2>2, Phases, WithinPhase
    <2>3. CASE task[x][s] = "read" /\ TaskSet(x, s, "done")
        BY <1>2, <2>1, <2>3, Phases, EndsStream
    <2>4. CASE Listens(x, s) /\ TaskSet(x, s, "panic")
        <3>1. PhaseOf(task[x][s]) # "ended"
            BY <2>4 DEF Listens, PhaseOf
        <3> QED BY <1>2, <2>1, <2>4, <3>1, EndsStream
    <2> QED BY <2>1, <2>2, <2>3, <2>4
<1> QED BY <1>3, <1>4, <1>5, <1>6, <1>7, <1>8, <1>9, <1>10

(* The task of a connection takes a step, or the raw connection fails.      *)
LEMMA ConnRefines ==
    ASSUME TypeInv, MarkInv, NEW x \in Sides,
           \/ ConnOpen(x) \/ ConnAnnounce(x) \/ ConnAccept(x) \/ ConnRoute(x)
           \/ ConnDeliver(x) \/ ConnClose(x) \/ ConnWrite(x) \/ ConnFlush(x) \/ ConnEnds(x)
    PROVE  UNCHANGED Channels!vars
<1>1. CASE ConnAnnounce(x)
    <2>1. PICK s \in Sessions : s = conn[x].frame.stream
        BY <1>1, AnnounceEffect DEF TypeInv
    <2>2. /\ conn[x].at = "announce" /\ TaskSet(x, s, "request")
          /\ UNCHANGED <<sent, got, agreed>>
        BY <1>1, <2>1, AnnounceEffect DEF TypeInv, history
    <2>3. task[x][s] = "asked"
        BY <2>1, <2>2, AnnounceFacts
    <2> QED BY <2>2, <2>3, Phases, WithinPhase
<1>2. CASE ConnAccept(x)
    <2>1. PICK z \in Sides : z = Other(x)
        BY SideFacts
    <2>2. PICK s \in Sessions : s = Head(wire[z]).stream
        BY <1>2, <2>1, AcceptEffect DEF TypeInv
    <2>3. TaskSet(x, s, "answer") /\ UNCHANGED <<sent, got, agreed>>
        BY <1>2, <2>1, <2>2, AcceptEffect DEF TypeInv, history
    <2>4. task[x][s] = "none"
        BY <1>2, <2>1, <2>2, AcceptFacts
    <2> QED BY <2>3, <2>4, Phases, WithinPhase
<1>3. CASE \/ ConnOpen(x) \/ ConnRoute(x) \/ ConnDeliver(x) \/ ConnClose(x) \/ ConnWrite(x)
           \/ ConnFlush(x) \/ ConnEnds(x)
    <2>1. UNCHANGED <<task, sent, got, agreed>>
        BY <1>3 DEF ConnOpen, ConnRoute, ConnDeliver, ConnClose, ConnWrite, ConnFlush, ConnEnds,
                    ConnEof, ConnWritePanic, ConnRoutePanic, Ends, taskVars, history
    <2> QED BY <2>1 DEF Channels!vars, Phase, WrittenMessages
<1> QED BY <1>1, <1>2, <1>3

(* Every step of the muxer is a step of the channels, or none.              *)
LEMMA StepRefines ==
    ASSUME TypeInv, TypeInv', MarkInv, FlowInv, StreamsIsolated', NegotiatedTogether',
           [Next]_vars
    PROVE  [Channels!Next]_(Channels!vars)
<1>1. CASE UNCHANGED vars
    BY <1>1 DEF vars, Channels!vars, Phase, WrittenMessages
<1>2. ASSUME NEW s \in Sessions, Ask(s) PROVE UNCHANGED Channels!vars
    <2>1. PICK x \in Sides : x = Opener[s]
        BY SideFacts
    <2>2. task[x][s] = "none" /\ TaskSet(x, s, "asked") /\ UNCHANGED <<sent, got, agreed>>
        BY <1>2, <2>1, AskEffect DEF TypeInv, history
    <2> QED BY <2>2, Phases, WithinPhase
<1>3. CASE LinkLost
    BY <1>3 DEF LinkLost, taskVars, history, Channels!vars, Phase, WrittenMessages
<1> QED BY <1>1, <1>2, <1>3, Steps, TaskRefines, ConnRefines

(* Where one end opens every stream, each stream is a pair of reliable       *)
(* channels between two handlers that settled on one protocol                *)
(* (StreamChannels), whatever shares the connection with it and wherever the *)
(* connection fails.                                                         *)
THEOREM RefinesChannels ==
    ASSUME OneOpener
    PROVE  Spec => ChannelsSpec
<1>1. Init => Channels!Init
    <2> SUFFICES ASSUME Init PROVE Channels!Init
        OBVIOUS
    <2>1. Phase = [x \in Sides |-> [s \in Sessions |-> "silent"]]
        BY Phases DEF Init, PerStream, Phase
    <2>2. WrittenMessages = [x \in Sides |-> [s \in Sessions |-> <<>>]]
        BY DEF Init, PerStream, WrittenMessages
    <2> QED BY <2>1, <2>2 DEF Init, PerStream, Channels!Init, Channels!PerStream,
                             Channels!Sides, Sides
<1>2. /\ StoryInv /\ StoryInv' /\ StreamsIsolated' /\ NegotiatedTogether' /\ [Next]_vars
          => [Channels!Next]_(Channels!vars)
    BY StepRefines DEF StoryInv
<1> QED BY <1>1, <1>2, StoryHolds, HandlersReadWhatWasWritten, BothSettleAlike, PTL
        DEF Spec, ChannelsSpec, Channels!Spec
=============================================================================
