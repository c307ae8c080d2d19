---------------------------- MODULE PingProofs ----------------------------
(***************************************************************************)
(* Proofs about Ping, for any number of pings, rounds and coded frames.     *)
(***************************************************************************)
EXTENDS Ping, Integers, SequenceTheorems, TLAPS

-----------------------------------------------------------------------------
(* Constants. *)

(* The most rounds a handler may run bounds the others.                     *)
LEMMA RoundFacts ==
    /\ Asks \subseteq Nat /\ Limits \subseteq Nat
    /\ MaxRound \in Limits /\ MaxRound \in Nat \ {0}
    /\ \A m \in Limits : m =< MaxRound
    /\ Streams \subseteq Nat \ {0} /\ Streams # {}
<1>1. Asks \subseteq Nat
    BY PingAssumption DEF Asks
<1>2. Limits \subseteq Nat
    BY <1>1, PingAssumption DEF Limits
<1>3. MaxRound \in Limits /\ \A m \in Limits : m =< MaxRound
    BY RoundsBounded DEF MaxRound
<1>4. Huge \in Limits /\ Huge >= 1
    BY PingAssumption DEF Limits
<1>5. MaxRound >= Huge
    BY <1>2, <1>3, <1>4
<1>6. MaxRound \in Nat \ {0}
    BY <1>2, <1>3, <1>4, <1>5
<1>7. \A x \in Settings : x.calls \in Seq(Nat)
    BY PingAssumption
<1>8. ASSUME NEW q \in Seq(Nat)
      PROVE  DOMAIN q \subseteq Nat \ {0} /\ (q # <<>> => DOMAIN q # {})
  <2>1. Len(q) \in Nat /\ DOMAIN q = 1..Len(q)
    OBVIOUS
  <2>2. ASSUME q # <<>>
        PROVE  1 \in DOMAIN q
    <3>1. Len(q) # 0
        BY <2>2, EmptySeq
    <3> QED BY <2>1, <3>1
  <2> QED BY <2>1, <2>2
<1>9. Streams \subseteq Nat \ {0}
    BY <1>7, <1>8 DEF Streams
<1>10. Streams # {}
    BY <1>7, <1>8, PingAssumption DEF Streams
<1> QED BY <1>1, <1>2, <1>3, <1>6, <1>9, <1>10

(* The chunks of a message are the most frames a handler counts.            *)
LEMMA ChunkFacts == Chunks \in Nat /\ 2 < Chunks /\ Chunks \in 1..Chunks
<1>1. Chunks \in Nat /\ 2 < Chunks
    BY PingAssumption
<1> QED BY <1>1

(* The two ends of a stream are each other's peer.                         *)
LEMMA EndFacts ==
    /\ Ends = {"initiator", "listener"} /\ Other("initiator") = "listener"
    /\ Other("listener") = "initiator" /\ \A e \in Ends : Other(e) \in Ends
BY DEF Ends, Other

(* What is kept for each end of each stream.                                *)
LEMMA PutFacts ==
    ASSUME NEW S, NEW F \in [Streams -> [Ends -> S]], NEW G,
           NEW s \in Streams, NEW e \in Ends, NEW v \in S, G = [F EXCEPT ![s][e] = v]
    PROVE  /\ G \in [Streams -> [Ends -> S]] /\ G[s][e] = v
           /\ \A x \in Ends : x # e => G[s][x] = F[s][x]
           /\ \A t \in Streams : t # s => G[t] = F[t]
<1>1. F[s] \in [Ends -> S]
    OBVIOUS
<1>2. G = [F EXCEPT ![s] = [F[s] EXCEPT ![e] = v]]
    OBVIOUS
<1>3. G[s] = [F[s] EXCEPT ![e] = v] /\ \A t \in Streams : t # s => G[t] = F[t]
    BY <1>2
<1>4. G[s] \in [Ends -> S] /\ G[s][e] = v /\ \A x \in Ends : x # e => G[s][x] = F[s][x]
    BY <1>1, <1>3
<1> QED BY <1>2, <1>3, <1>4

-----------------------------------------------------------------------------
(* Queues. *)

(* What frames q holds were in r, none of them has moved back, and the last *)
(* one, if it is still there, is the last one.                              *)
Within(q, r) == Len(q) =< Len(r) /\ \A i \in DOMAIN q : \E j \in DOMAIN r :
                    i =< j /\ q[i] = r[j] /\ (j = Len(r) => i = Len(q))

(* The first frame of a queue, and the queue without it.                   *)
LEMMA HeadFacts ==
    ASSUME NEW S, NEW q \in Seq(S), q # <<>>
    PROVE  /\ Head(q) \in S /\ Head(q) = q[1] /\ 1 \in DOMAIN q
           /\ Tail(q) \in Seq(S) /\ Len(Tail(q)) = Len(q) - 1 /\ Within(Tail(q), q)
<1>1. Len(q) \in Nat \ {0} /\ DOMAIN q = 1..Len(q)
    BY EmptySeq
<1>2. Tail(q) \in Seq(S) /\ Len(Tail(q)) = Len(q) - 1 /\ DOMAIN Tail(q) = 1..(Len(q) - 1)
    BY <1>1
<1>3. \A i \in DOMAIN Tail(q) : /\ Tail(q)[i] = q[i + 1] /\ i + 1 \in DOMAIN q /\ i =< i + 1
                                /\ i + 1 = Len(q) => i = Len(Tail(q))
    BY <1>1, <1>2
<1>4. Len(Tail(q)) =< Len(q)
    BY <1>1, <1>2
<1>5. Within(Tail(q), q)
    BY <1>3, <1>4 DEF Within
<1> QED BY <1>1, <1>2, <1>5

(* A queue is within itself.                                               *)
LEMMA WithinSelf ==
    ASSUME NEW S, NEW q \in Seq(S)
    PROVE  Within(q, q) /\ Within(<<>>, q)
<1>1. DOMAIN q \subseteq Nat /\ Len(q) \in Nat /\ Len(<<>>) = 0 /\ DOMAIN <<>> = {}
    OBVIOUS
<1>2. \A i \in DOMAIN q : i =< i
    BY <1>1
<1> QED BY <1>1, <1>2 DEF Within

(* A frame of two queues put together is a frame of one of them.           *)
LEMMA ConcatFacts ==
    ASSUME NEW S, NEW q \in Seq(S), NEW r \in Seq(S)
    PROVE  /\ q \o r \in Seq(S)
           /\ \A i \in DOMAIN (q \o r) :
                \/ i \in DOMAIN q /\ (q \o r)[i] = q[i]
                \/ i - Len(q) \in DOMAIN r /\ (q \o r)[i] = r[i - Len(q)]
<1>1. Len(q) \in Nat /\ Len(r) \in Nat /\ DOMAIN q = 1..Len(q) /\ DOMAIN r = 1..Len(r)
    OBVIOUS
<1>2. q \o r \in Seq(S) /\ DOMAIN (q \o r) = 1..(Len(q) + Len(r))
    OBVIOUS
<1>3. \A i \in 1..(Len(q) + Len(r)) :
        (q \o r)[i] = IF i =< Len(q) THEN q[i] ELSE r[i - Len(q)]
    OBVIOUS
<1>4. \A i \in 1..(Len(q) + Len(r)) : i =< Len(q) => i \in DOMAIN q
    BY <1>1
<1>5. \A i \in 1..(Len(q) + Len(r)) : ~(i =< Len(q)) => i - Len(q) \in DOMAIN r
    BY <1>1
<1> QED BY <1>2, <1>3, <1>4, <1>5

(* The frames of a queue from some place on.                                *)
LEMMA RestFacts ==
    ASSUME NEW S, NEW q \in Seq(S), NEW k \in 0..Len(q)
    PROVE  /\ SubSeq(q, k + 1, Len(q)) \in Seq(S) /\ Within(SubSeq(q, k + 1, Len(q)), q)
           /\ Len(SubSeq(q, k + 1, Len(q))) = Len(q) - k
           /\ \A i \in DOMAIN SubSeq(q, k + 1, Len(q)) : SubSeq(q, k + 1, Len(q))[i] = q[i + k]
<1> DEFINE r == SubSeq(q, k + 1, Len(q))
<1>1. Len(q) \in Nat /\ DOMAIN q = 1..Len(q)
    OBVIOUS
<1>2. /\ r \in Seq(S) /\ Len(r) = Len(q) - k /\ DOMAIN r = 1..(Len(q) - k)
      /\ \A i \in 1..(Len(q) - k) : r[i] = q[i + k]
  <2>1. k + 1 \in Int /\ Len(q) \in Int /\ \A i \in (k + 1)..Len(q) : q[i] \in S
      BY <1>1
  <2>2. /\ r \in Seq(S) /\ Len(r) = IF k + 1 <= Len(q) THEN (Len(q) - (k + 1)) + 1 ELSE 0
        /\ \A i \in 1..((Len(q) - (k + 1)) + 1) : r[i] = q[((k + 1) + i) - 1]
    <3> HIDE DEF r
    <3>1. r = SubSeq(q, k + 1, Len(q))
        BY DEF r
    <3> QED BY <2>1, <3>1, SubSeqProperties
  <2> HIDE DEF r
  <2>3. Len(r) = Len(q) - k /\ (Len(q) - (k + 1)) + 1 = Len(q) - k
    <3>1. Len(r) = IF k + 1 <= Len(q) THEN (Len(q) - (k + 1)) + 1 ELSE 0
        BY <2>2
    <3>2. k \in Nat /\ k <= Len(q) /\ Len(q) \in Nat
        BY <1>1
    <3> QED BY <3>1, <3>2
  <2>4. \A i \in 1..(Len(q) - k) : ((k + 1) + i) - 1 = i + k
      BY <1>1
  <2> QED BY <2>2, <2>3, <2>4
<1>3. \A i \in 1..(Len(q) - k) : r[i] = q[i + k]
    BY <1>2
<1>4. \A i \in 1..(Len(q) - k) : /\ i + k \in DOMAIN q /\ i =< i + k
                                 /\ (i + k = Len(q) => i = Len(q) - k)
  <2> TAKE i \in 1..(Len(q) - k)
  <2>1. Len(q) \in Nat /\ k \in Nat /\ i \in Nat /\ 1 =< i /\ i =< Len(q) - k
      BY <1>1
  <2>2. DOMAIN q = 1..Len(q)
      BY <1>1
  <2> DEFINE n == Len(q)
  <2> HIDE DEF n
  <2>3. n \in Nat /\ i =< n - k /\ DOMAIN q = 1..n
      BY <2>1, <2>2 DEF n
  <2>4. i + k \in 1..n /\ i =< i + k /\ (i + k = n => i = n - k)
      BY <2>1, <2>3
  <2> QED BY <2>3, <2>4, Zenon DEF n
<1>5. Within(r, q)
  <2> HIDE DEF r
  <2>1. Len(r) =< Len(q)
      BY <1>1, <1>2
  <2> QED BY <1>2, <1>3, <1>4, <2>1 DEF Within
<1> QED BY <1>2, <1>3, <1>4, <1>5

(* A queue that lacks the frame at one place.                               *)
LEMMA DropFacts ==
    ASSUME NEW S, NEW q \in Seq(S), NEW k \in DOMAIN q, NEW r,
           r = SubSeq(q, 1, k - 1) \o SubSeq(q, k + 1, Len(q))
    PROVE  r \in Seq(S) /\ Within(r, q)
<1> DEFINE a == SubSeq(q, 1, k - 1)
           b == SubSeq(q, k + 1, Len(q))
<1>1. Len(q) \in Nat /\ DOMAIN q = 1..Len(q) /\ k \in 1..Len(q)
    OBVIOUS
<1>2. a \in Seq(S) /\ Len(a) = k - 1 /\ \A i \in 1..(k - 1) : a[i] = q[i]
    BY <1>1
<1>3. b \in Seq(S) /\ Len(b) = Len(q) - k /\ \A i \in 1..(Len(q) - k) : b[i] = q[i + k]
  <2>1. k \in 0..Len(q)
      BY <1>1
  <2>2. /\ b \in Seq(S) /\ Len(b) = Len(q) - k
        /\ \A i \in DOMAIN b : b[i] = q[i + k]
    <3> HIDE DEF b
    <3>1. b = SubSeq(q, k + 1, Len(q))
        BY DEF b
    <3> QED BY <2>1, <3>1, RestFacts
  <2> HIDE DEF b
  <2>3. DOMAIN b = 1..(Len(q) - k)
      BY <2>2, <1>1
  <2> QED BY <2>2, <2>3
<1>4. r = a \o b
    OBVIOUS
<1> HIDE DEF a, b
<1>5. r \in Seq(S) /\ Len(r) = Len(q) - 1 /\ DOMAIN r = 1..(Len(q) - 1)
  <2>1. r \in Seq(S) /\ Len(r) = Len(a) + Len(b)
      BY <1>2, <1>3, <1>4, ConcatProperties
  <2>2. Len(a) + Len(b) = Len(q) - 1
      BY <1>1, <1>2, <1>3
  <2> QED BY <2>1, <2>2
<1>6. \A i \in 1..(Len(q) - 1) : r[i] = IF i < k THEN q[i] ELSE q[i + 1]
  <2> TAKE i \in 1..(Len(q) - 1)
  <2>1. i \in 1..(Len(a) + Len(b))
      BY <1>1, <1>2, <1>3
  <2>2. r[i] = IF i =< Len(a) THEN a[i] ELSE b[i - Len(a)]
    <3>1. \A j \in 1..(Len(a) + Len(b)) : (a \o b)[j] = IF j =< Len(a) THEN a[j] ELSE b[j - Len(a)]
        BY <1>2, <1>3, ConcatProperties
    <3> QED BY <2>1, <1>4, <3>1
  <2>3. CASE i < k
    <3>1. i =< Len(a) /\ i \in 1..(k - 1)
        BY <2>3, <1>1, <1>2
    <3> QED BY <2>2, <2>3, <3>1, <1>2
  <2>4. CASE ~(i < k)
    <3>1. Len(q) \in Int /\ k \in Int /\ i \in Int /\ 1 =< i /\ i =< Len(q) - 1
        BY <1>1
    <3>2. i - (k - 1) \in 1..(Len(q) - k) /\ (i - (k - 1)) + k = i + 1
        BY <2>4, <3>1
    <3>3. r[i] = b[i - (k - 1)]
      <4>1. ~(i =< Len(a)) /\ i - Len(a) = i - (k - 1)
          BY <2>4, <1>1, <1>2
      <4> QED BY <2>2, <4>1
    <3>4. b[i - (k - 1)] = q[(i - (k - 1)) + k]
        BY <3>2, <1>3
    <3> QED BY <2>4, <3>2, <3>3, <3>4
  <2> QED BY <2>3, <2>4
<1>7. \A i \in 1..(Len(q) - 1) :
        /\ i \in DOMAIN q /\ i + 1 \in DOMAIN q /\ i =< i + 1 /\ i =< i
        /\ i # Len(q) /\ (i + 1 = Len(q) => i = Len(q) - 1)
  <2> TAKE i \in 1..(Len(q) - 1)
  <2>1. Len(q) \in Nat /\ i \in Nat /\ 1 =< i /\ i =< Len(q) - 1
      BY <1>1
  <2>2. DOMAIN q = 1..Len(q)
      BY <1>1
  <2> DEFINE n == Len(q)
  <2> HIDE DEF n
  <2>3. n \in Nat /\ i =< n - 1 /\ DOMAIN q = 1..n
      BY <2>1, <2>2 DEF n
  <2>4. i \in 1..n /\ i + 1 \in 1..n /\ i =< i + 1 /\ i =< i
        /\ i # n /\ (i + 1 = n => i = n - 1)
      BY <2>1, <2>3
  <2> QED BY <2>3, <2>4, Zenon DEF n
<1>8. Within(r, q)
  <2>1. Len(r) =< Len(q)
      BY <1>1, <1>5
  <2>2. ASSUME NEW i \in DOMAIN r
        PROVE  \E j \in DOMAIN q : i =< j /\ r[i] = q[j] /\ (j = Len(q) => i = Len(r))
    <3>1. CASE i < k
        BY <1>5, <1>6, <1>7, <3>1
    <3>2. CASE ~(i < k)
        BY <1>5, <1>6, <1>7, <3>2
    <3> QED BY <3>1, <3>2
  <2> QED BY <2>1, <2>2 DEF Within
<1> QED BY <1>5, <1>6, <1>7, <1>8

-----------------------------------------------------------------------------
(* The invariant of the types. *)

I == "initiator"
L == "listener"

(* The field holds what the last call asked for, no request is ahead of its *)
(* call, and each is for a stream of its own that is not open yet.          *)
CallsInOrder ==
    /\ asked # <<>> => count = asked[Len(asked)]
    /\ \A i \in DOMAIN notification :
        /\ notification[i] =< Len(asked)
        /\ \A e \in Ends : handler[notification[i]][e].at = "none"
        /\ \A j \in DOMAIN notification : notification[i] = notification[j] => i = j

(* A handler has a call, is in one of its rounds, and starts from nothing.  *)
HandlerOk(s, e) ==
    /\ handler[s][e].at # "none" => s =< Len(asked)
    /\ handler[s][e].at \in {"round", "wait"} =>
        1 =< handler[s][e].round /\ handler[s][e].round =< handler[s][e].rounds
    /\ handler[s][e].at \in {"none", "count"} =>
        handler[s][e] = [Idle EXCEPT !.at = handler[s][e].at]

(* To the initiator only pongs are sent; to the listener only pings, behind *)
(* one count which it reads first; the listener waits for it unless its     *)
(* connection is gone.                                                      *)
Pong(f) == f.kind = "pong" /\ 1 =< f.of /\ f.size = IF setting.rlnc THEN Chunks - 1 ELSE 1
Ping(f) == f.kind = "ping" /\ 1 =< f.of /\ f.size = IF setting.rlnc THEN Chunks ELSE 1
Count(s, i) == LET f == chan[s][L][i] IN
    /\ i = 1 /\ f.kind = "count" /\ f.of \in Asks
    /\ handler[s][L].at = "count" /\ handler[s][I].at # "none"
ChansOk(s) ==
    /\ \A i \in DOMAIN chan[s][I] : Pong(chan[s][I][i])
    /\ \A i \in DOMAIN chan[s][L] : Ping(chan[s][L][i]) \/ Count(s, i)
    /\ handler[s][I].at \in {"none", "count"} =>
        chan[s][L] = <<>> /\ (handler[s][L].at = handler[s][I].at \/ down[L])

StreamOk(s) == HandlerOk(s, I) /\ HandlerOk(s, L) /\ ChansOk(s)
Typed == TypeOK /\ CallsInOrder /\ \A s \in Streams : StreamOk(s)

-----------------------------------------------------------------------------
(* What the steps of a handler are made of. *)

LEMMA HandlerFacts ==
    ASSUME TypeOK, NEW s \in Streams, NEW e \in Ends
    PROVE  /\ handler[s][e] \in Handlers /\ handler[s][e].at \in Labels
           /\ handler[s][e].round \in 0..MaxRound /\ handler[s][e].rounds \in 0..MaxRound
           /\ handler[s][e].forever \in BOOLEAN /\ chan[s][e] \in Seq(WireFrames)
           /\ cache[s][e] \in [1..MaxRound -> 0..Chunks]
           /\ cache[s] \in [Ends -> [1..MaxRound -> 0..Chunks]]
<1>1. handler[s][e] \in Handlers
    BY DEF TypeOK
<1>2. chan[s][e] \in Seq(WireFrames) /\ cache[s][e] \in [1..MaxRound -> 0..Chunks]
    BY DEF TypeOK
<1>3. cache[s] \in [Ends -> [1..MaxRound -> 0..Chunks]]
    BY DEF TypeOK
<1> QED BY <1>1, <1>2, <1>3 DEF Handlers

(* Only the handler at end e of stream s changes, to h.                     *)
Becomes(s, e, h) ==
    /\ handler' \in [Streams -> [Ends -> Handlers]] /\ handler'[s][e] = h
    /\ \A x \in Ends : x # e => handler'[s][x] = handler[s][x]
    /\ \A t \in Streams : t # s => handler'[t] = handler[t]

(* The handler of one end moves and every other handler stays.             *)
LEMMA GoesFacts ==
    ASSUME TypeOK, NEW s \in Streams, NEW e \in Ends, NEW label \in Labels,
           Goes(s, e, label)
    PROVE  Becomes(s, e, [handler[s][e] EXCEPT !.at = label])
<1> DEFINE h == [handler[s][e] EXCEPT !.at = label]
<1>1. h \in Handlers
    BY HandlerFacts DEF Handlers
<1>2. handler' = [handler EXCEPT ![s][e] = h]
    BY DEF Goes
<1>3. handler \in [Streams -> [Ends -> Handlers]]
    BY DEF TypeOK
<1> HIDE DEF h
<1>4. Becomes(s, e, h)
    BY <1>1, <1>2, <1>3, PutFacts DEF Becomes
<1> QED BY <1>4 DEF h

(* A handler that is told how many rounds to run.                           *)
Starting(n) == [at |-> "round", round |-> 1, forever |-> n = 0,
                rounds |-> IF n = 0 THEN Endless ELSE n]

(* A handler that starts with a count of rounds is a handler.              *)
LEMMA StartsFacts ==
    ASSUME TypeOK, NEW s \in Streams, NEW e \in Ends, NEW n \in Limits, Starts(s, e, n)
    PROVE  Becomes(s, e, Starting(n))
<1>1. Endless \in Limits
    BY DEF Limits
<1>2. Endless \in 0..MaxRound /\ n \in 0..MaxRound /\ 1 \in 0..MaxRound
    BY <1>1, RoundFacts
<1>3. Starting(n) \in Handlers
    BY <1>2 DEF Starting, Handlers, Labels
<1>4. handler' = [handler EXCEPT ![s][e] = Starting(n)]
    BY DEF Starts, Starting
<1>5. handler \in [Streams -> [Ends -> Handlers]]
    BY DEF TypeOK
<1> QED BY <1>3, <1>4, <1>5, PutFacts DEF Becomes

(* What a handler does after an exchange.                                   *)
After(h) == IF h.round < h.rounds THEN [h EXCEPT !.at = "round", !.round = h.round + 1]
                                  ELSE [h EXCEPT !.at = "finish"]

(* The next round stays below the bound, or the handler finishes.          *)
LEMMA NextRoundFacts ==
    ASSUME TypeOK, NEW s \in Streams, NEW e \in Ends, NextRound(s, e)
    PROVE  Becomes(s, e, After(handler[s][e]))
<1> DEFINE h == handler[s][e]
<1>1. h \in Handlers /\ h.round \in 0..MaxRound /\ h.rounds \in 0..MaxRound /\ MaxRound \in Nat
    BY HandlerFacts, RoundFacts
<1>2. h.round < h.rounds => h.round + 1 \in 0..MaxRound
    BY <1>1
<1>3. After(h) \in Handlers
    BY <1>1, <1>2 DEF After, Handlers, Labels
<1>4. handler' = [handler EXCEPT ![s][e] = After(h)]
    BY DEF NextRound, After
<1>5. handler \in [Streams -> [Ends -> Handlers]]
    BY DEF TypeOK
<1> HIDE DEF h
<1>6. Becomes(s, e, After(h))
    BY <1>3, <1>4, <1>5, PutFacts DEF Becomes
<1> QED BY <1>6 DEF h

(* Queues that a handler at end e of stream s has written frames to.        *)
LEMMA SentFacts ==
    ASSUME NEW s \in Streams, NEW e \in Ends, NEW F \in [Streams -> [Ends -> Seq(WireFrames)]],
           NEW frames \in Seq(WireFrames), chan' = Sent(s, e, F, frames)
    PROVE  /\ chan' \in [Streams -> [Ends -> Seq(WireFrames)]] /\ chan'[s][e] = F[s][e]
           /\ chan'[s][Other(e)] = IF down[Other(e)] THEN F[s][Other(e)]
                                                 ELSE F[s][Other(e)] \o frames
           /\ \A t \in Streams : t # s => chan'[t] = F[t]
<1>1. CASE down[Other(e)]
    BY <1>1 DEF Sent
<1>2. CASE ~down[Other(e)]
  <2> DEFINE q == F[s][Other(e)] \o frames
  <2>1. Other(e) \in Ends /\ Other(e) # e
      BY EndFacts
  <2>2. q \in Seq(WireFrames)
      BY <2>1
  <2>3. chan' = [F EXCEPT ![s][Other(e)] = q]
      BY <1>2 DEF Sent
  <2> HIDE DEF q
  <2>4. /\ chan' \in [Streams -> [Ends -> Seq(WireFrames)]] /\ chan'[s][Other(e)] = q
        /\ \A x \in Ends : x # Other(e) => chan'[s][x] = F[s][x]
        /\ \A t \in Streams : t # s => chan'[t] = F[t]
      BY <2>1, <2>2, <2>3, PutFacts
  <2> QED BY <1>2, <2>1, <2>4 DEF q
<1> QED BY <1>1, <1>2

(* A set of frames about one round.                                         *)
LEMMA CodedSetFacts ==
    ASSUME TypeOK, NEW kind \in {"ping", "pong"}, NEW r \in 1..MaxRound, NEW n,
           setting.rlnc => n \in 1..Chunks
    PROVE  /\ CodedSet(kind, r, n) \in Seq(WireFrames)
           /\ \A i \in DOMAIN CodedSet(kind, r, n) :
                CodedSet(kind, r, n)[i] = Frame(kind, r, IF setting.rlnc THEN n ELSE 1)
           /\ ~setting.rlnc => CodedSet(kind, r, n) = <<Frame(kind, r, 1)>>
<1>1. SetLen \in Nat /\ Chunks \in Nat /\ 2 < Chunks /\ MaxRound \in Nat
    BY PingAssumption, RoundFacts
<1>2. (setting.rlnc => Frame(kind, r, n) \in WireFrames) /\ Frame(kind, r, 1) \in WireFrames
    BY <1>1 DEF Frame, WireFrames
<1>3. CASE setting.rlnc
  <2> DEFINE f == Frame(kind, r, n)
  <2>1. CodedSet(kind, r, n) = [i \in 1..SetLen |-> f]
      BY <1>3 DEF CodedSet
  <2> HIDE DEF f
  <2>2. [i \in 1..SetLen |-> f] \in Seq(WireFrames)
      BY <1>1, <1>2, <1>3 DEF f
  <2>3. \A i \in DOMAIN CodedSet(kind, r, n) : CodedSet(kind, r, n)[i] = f
      BY <2>1
  <2> QED BY <1>3, <2>1, <2>2, <2>3 DEF f
<1>4. CASE ~setting.rlnc
  <2> DEFINE f == Frame(kind, r, 1)
  <2>1. CodedSet(kind, r, n) = <<f>>
      BY <1>4 DEF CodedSet
  <2> HIDE DEF f
  <2>2. <<f>> \in Seq(WireFrames) /\ \A i \in DOMAIN <<f>> : <<f>>[i] = f
      BY <1>2 DEF f
  <2> QED BY <1>4, <2>1, <2>2 DEF f
<1> QED BY <1>3, <1>4

(* The frame a handler has taken is counted, up to the chunks of its set.   *)
LEMMA CountsFacts ==
    ASSUME TypeOK, NEW s \in Streams, NEW e \in Ends, NEW f \in WireFrames,
           f.of \in 1..MaxRound, Counts(s, e, f)
    PROVE  /\ cache' \in [Streams -> [Ends -> [1..MaxRound -> 0..Chunks]]]
           /\ cache'[s][e][f.of] = IF setting.rlnc /\ cache[s][e][f.of] < f.size
                                   THEN cache[s][e][f.of] + 1 ELSE cache[s][e][f.of]
           /\ \A r \in 1..MaxRound : r # f.of => cache'[s][e][r] = cache[s][e][r]
           /\ \A x \in Ends : x # e => cache'[s][x] = cache[s][x]
           /\ \A t \in Streams : t # s => cache'[t] = cache[t]
<1> DEFINE C == [1..MaxRound -> 0..Chunks]
           c == cache[s][e]
<1>1. f.size \in 1..Chunks /\ Chunks \in Nat
    BY ChunkFacts DEF WireFrames
<1>2. cache \in [Streams -> [Ends -> C]]
    BY DEF TypeOK
<1>3. c \in C
    BY <1>2
<1>4. c[f.of] \in 0..Chunks
    BY <1>3
<1>5. cache \in [Streams -> [Ends -> C]] /\ c \in C /\ c[f.of] \in 0..Chunks
    BY <1>2, <1>3, <1>4
<1>6. CASE setting.rlnc /\ c[f.of] < f.size
  <2> DEFINE d == [c EXCEPT ![f.of] = c[f.of] + 1]
  <2>1. c[f.of] + 1 \in 0..Chunks
      BY <1>1, <1>5, <1>6
  <2>2. d \in C
      BY <1>5, <2>1
  <2>3. cache' = [cache EXCEPT ![s][e] = d]
      BY <1>6 DEF Counts
  <2>4. d[f.of] = c[f.of] + 1 /\ \A r \in 1..MaxRound : r # f.of => d[r] = c[r]
      BY <1>5
  <2> HIDE DEF d, C
  <2>5. /\ cache' \in [Streams -> [Ends -> C]] /\ cache'[s][e] = d
        /\ \A x \in Ends : x # e => cache'[s][x] = cache[s][x]
        /\ \A t \in Streams : t # s => cache'[t] = cache[t]
      BY <1>5, <2>2, <2>3, PutFacts
  <2> QED BY <1>6, <2>4, <2>5 DEF C
<1>7. CASE ~(setting.rlnc /\ c[f.of] < f.size)
  <2>1. cache' = cache
      BY <1>7 DEF Counts
  <2> QED BY <1>5, <1>7, <2>1
<1> QED BY <1>6, <1>7

-----------------------------------------------------------------------------
(* What each step does. *)

Records == Seq([round : 0..MaxRound, of : 0..MaxRound])
Faults == [lost : BOOLEAN, late : SUBSET Ends, broken : BOOLEAN]

(* No other stream changes, nor the node, nor the connection task.          *)
Local(s) ==
    /\ UNCHANGED <<node, down>>
    /\ \A t \in Streams : t # s =>
        /\ handler'[t] = handler[t] /\ chan'[t] = chan[t] /\ cache'[t] = cache[t]
        /\ rtts'[t] = rtts[t] /\ disturbed'[t] = disturbed[t]

(* The parts of the type invariant a step of a stream can disturb.          *)
LEMMA LocalTypes ==
    ASSUME TypeOK, UNCHANGED <<node, down>>,
           handler' \in [Streams -> [Ends -> Handlers]],
           chan' \in [Streams -> [Ends -> Seq(WireFrames)]],
           cache' \in [Streams -> [Ends -> [1..MaxRound -> 0..Chunks]]],
           rtts' \in [Streams -> Records], reported' \in [Streams -> Nat],
           \A t \in Streams : reported'[t] =< Len(rtts'[t]),
           disturbed' \in [Streams -> Faults]
    PROVE  TypeOK'
<1>1. setting' \in Settings /\ count' \in Nat /\ asked' \in Seq(Asks)
    BY DEF TypeOK, node
<1>2. notification' \in Seq(Streams) /\ down' \in [Ends -> BOOLEAN]
    BY DEF TypeOK, node
<1> QED BY <1>1, <1>2 DEF TypeOK, Records, Faults

(* The type of what is kept for each stream.                               *)
LEMMA TypeFacts ==
    ASSUME TypeOK
    PROVE  /\ handler \in [Streams -> [Ends -> Handlers]]
           /\ chan \in [Streams -> [Ends -> Seq(WireFrames)]]
           /\ cache \in [Streams -> [Ends -> [1..MaxRound -> 0..Chunks]]]
           /\ rtts \in [Streams -> Records] /\ reported \in [Streams -> Nat]
           /\ \A t \in Streams : reported[t] =< Len(rtts[t])
           /\ disturbed \in [Streams -> Faults]
BY DEF TypeOK, Records, Faults

(* InitiatorStarts sends the count and starts its rounds, or fails.        *)
LEMMA InitiatorStartsDoes ==
    ASSUME Typed, NEW s \in Streams, InitiatorStarts(s)
    PROVE  /\ TypeOK' /\ Local(s) /\ handler[s][I].at = "count"
           /\ handler'[s][L] = handler[s][L] /\ chan'[s][I] = chan[s][I]
           /\ cache' = cache /\ rtts' = rtts /\ disturbed' = disturbed
           /\ count \in Asks /\ asked # <<>> /\ count = asked[Len(asked)]
           /\ \/ /\ down[I] /\ handler'[s][I] = [handler[s][I] EXCEPT !.at = "panicked"]
                 /\ chan'[s][L] = chan[s][L]
              \/ /\ ~down[I] /\ handler'[s][I] = Starting(count)
                 /\ chan'[s][L] = IF down[L] THEN chan[s][L]
                                  ELSE chan[s][L] \o <<Frame("count", count, 1)>>
<1>1. TypeOK /\ CallsInOrder /\ HandlerOk(s, I)
    BY DEF Typed, StreamOk
<1>2. handler[s][I].at = "count" /\ UNCHANGED <<node, cache, rtts, reported, down, disturbed>>
    BY DEF InitiatorStarts, I
<1>3. /\ I \in Ends /\ L \in Ends /\ I # L /\ Other(I) = L
      /\ \A e \in Ends : e = I \/ e = L
    BY EndFacts DEF I, L
<1>4. Len(asked) # 0 /\ asked \in Seq(Asks)
  <2>1. s =< Len(asked) /\ s \in Nat \ {0} /\ asked \in Seq(Asks)
      BY <1>1, <1>2, RoundFacts DEF HandlerOk, TypeOK
  <2> QED BY <2>1
<1>5. count \in Asks /\ asked # <<>> /\ count = asked[Len(asked)]
  <2>1. asked # <<>>
      BY <1>4
  <2>2. Len(asked) \in DOMAIN asked
      BY <1>4
  <2> QED BY <1>1, <1>4, <2>1, <2>2 DEF CallsInOrder
<1>6. CASE down[I]
  <2>1. Goes(s, I, "panicked") /\ chan' = chan
      BY <1>6 DEF InitiatorStarts, I
  <2>2. Becomes(s, I, [handler[s][I] EXCEPT !.at = "panicked"])
      BY <1>1, <1>3, <2>1, GoesFacts DEF Labels
  <2>3. TypeOK'
      BY <1>1, <1>2, <2>1, <2>2, TypeFacts, LocalTypes DEF Becomes
  <2>4. Local(s)
      BY <1>2, <2>1, <2>2 DEF Local, Becomes
  <2> QED BY <1>2, <1>3, <1>5, <1>6, <2>1, <2>2, <2>3, <2>4 DEF Becomes
<1>7. CASE ~down[I]
  <2> DEFINE f == <<Frame("count", count, 1)>>
  <2>1. Starts(s, I, count) /\ chan' = Sent(s, I, chan, f)
      BY <1>7 DEF InitiatorStarts, I
  <2>2. count \in Limits
      BY <1>5 DEF Limits
  <2>3. count \in 0..MaxRound /\ 1 \in 1..Chunks
      BY <2>2, RoundFacts, PingAssumption
  <2>4. f \in Seq(WireFrames)
      BY <2>3 DEF Frame, WireFrames
  <2>5. Becomes(s, I, Starting(count))
      BY <1>1, <1>3, <2>1, <2>2, StartsFacts
  <2> HIDE DEF f
  <2>6. /\ chan' \in [Streams -> [Ends -> Seq(WireFrames)]] /\ chan'[s][I] = chan[s][I]
        /\ chan'[s][L] = IF down[L] THEN chan[s][L] ELSE chan[s][L] \o f
        /\ \A t \in Streams : t # s => chan'[t] = chan[t]
    <3>1. chan \in [Streams -> [Ends -> Seq(WireFrames)]]
        BY <1>1, TypeFacts
    <3>2. /\ chan' \in [Streams -> [Ends -> Seq(WireFrames)]] /\ chan'[s][I] = chan[s][I]
          /\ chan'[s][Other(I)] = IF down[Other(I)] THEN chan[s][Other(I)]
                                                    ELSE chan[s][Other(I)] \o f
          /\ \A t \in Streams : t # s => chan'[t] = chan[t]
        BY <1>3, <2>1, <2>4, <3>1, SentFacts
    <3> QED BY <1>3, <3>2
  <2>7. TypeOK'
      BY <1>1, <1>2, <2>5, <2>6, TypeFacts, LocalTypes DEF Becomes
  <2>8. Local(s)
      BY <1>2, <2>5, <2>6 DEF Local, Becomes
  <2> QED BY <1>2, <1>3, <1>5, <1>7, <2>5, <2>6, <2>7, <2>8 DEF Becomes, f
<1> QED BY <1>6, <1>7

(* ListenerStarts takes the count and starts as many rounds, or fails.     *)
LEMMA ListenerStartsDoes ==
    ASSUME Typed, NEW s \in Streams, ListenerStarts(s)
    PROVE  /\ TypeOK' /\ Local(s) /\ handler[s][L].at = "count"
           /\ handler'[s][I] = handler[s][I] /\ chan'[s][I] = chan[s][I]
           /\ cache' = cache /\ rtts' = rtts /\ disturbed' = disturbed
           /\ \/ /\ chan[s][L] = <<>> /\ chan'[s][L] = chan[s][L] /\ down[L]
                 /\ handler'[s][L] = [handler[s][L] EXCEPT !.at = "panicked"]
              \/ /\ chan[s][L] # <<>> /\ chan'[s][L] = Tail(chan[s][L])
                 /\ handler'[s][L] = Starting(IF chan[s][L][1].kind = "count"
                                              THEN chan[s][L][1].of ELSE Huge)
<1>1. TypeOK /\ ChansOk(s)
    BY DEF Typed, StreamOk
<1>2. handler[s][L].at = "count" /\ UNCHANGED <<node, cache, rtts, reported, down, disturbed>>
    BY DEF ListenerStarts, L
<1>3. /\ I \in Ends /\ L \in Ends /\ I # L /\ \A e \in Ends : e = I \/ e = L
    BY EndFacts DEF I, L
<1>4. CASE chan[s][L] = <<>>
  <2>1. Goes(s, L, "panicked") /\ chan' = chan /\ down[L]
      BY <1>4 DEF ListenerStarts, L
  <2>2. Becomes(s, L, [handler[s][L] EXCEPT !.at = "panicked"])
      BY <1>1, <1>3, <2>1, GoesFacts DEF Labels
  <2>3. TypeOK'
      BY <1>1, <1>2, <2>1, <2>2, TypeFacts, LocalTypes DEF Becomes
  <2>4. Local(s)
      BY <1>2, <2>1, <2>2 DEF Local, Becomes
  <2> QED BY <1>2, <1>3, <1>4, <2>1, <2>2, <2>3, <2>4 DEF Becomes
<1>5. CASE chan[s][L] # <<>>
  <2> DEFINE q == chan[s][L]
             n == IF q[1].kind = "count" THEN q[1].of ELSE Huge
  <2>1. Head(q) = q[1] /\ 1 \in DOMAIN q /\ Tail(q) \in Seq(WireFrames)
      BY <1>1, <1>3, <1>5, HandlerFacts, HeadFacts
  <2>2. chan' = [chan EXCEPT ![s][L] = Tail(q)] /\ Starts(s, L, n)
      BY <1>5, <2>1 DEF ListenerStarts, L
  <2>3. n \in Limits
      BY <1>1, <2>1 DEF ChansOk, Ping, Count, Limits
  <2> HIDE DEF n
  <2>4. Becomes(s, L, Starting(n))
      BY <1>1, <1>3, <2>2, <2>3, StartsFacts
  <2>5. /\ chan' \in [Streams -> [Ends -> Seq(WireFrames)]] /\ chan'[s][I] = chan[s][I]
        /\ chan'[s][L] = Tail(q) /\ \A t \in Streams : t # s => chan'[t] = chan[t]
      BY <1>1, <1>3, <2>1, <2>2, TypeFacts, PutFacts
  <2>6. TypeOK'
      BY <1>1, <1>2, <2>4, <2>5, TypeFacts, LocalTypes DEF Becomes
  <2>7. Local(s)
      BY <1>2, <2>4, <2>5 DEF Local, Becomes
  <2> QED BY <1>2, <1>3, <1>5, <2>4, <2>5, <2>6, <2>7 DEF Becomes, n
<1> QED BY <1>4, <1>5

(* Begins sends the ping of the round and waits, or gives up.              *)
LEMMA BeginsDoes ==
    ASSUME Typed, NEW s \in Streams, Begins(s)
    PROVE  LET h == handler[s][I] IN
           /\ TypeOK' /\ Local(s) /\ h.at = "round" /\ h.round \in 1..MaxRound
           /\ handler'[s][L] = handler[s][L] /\ chan'[s][I] = chan[s][I]
           /\ cache' = cache /\ rtts' = rtts /\ disturbed' = disturbed
           /\ \/ /\ down[I] /\ handler'[s][I] = After(h) /\ chan'[s][L] = chan[s][L]
              \/ /\ ~down[I] /\ handler'[s][I] = [h EXCEPT !.at = "wait"]
                 /\ chan'[s][L] = IF down[L] THEN chan[s][L]
                                  ELSE chan[s][L] \o CodedSet("ping", h.round, Chunks)
<1> DEFINE h == handler[s][I]
<1>1. TypeOK /\ HandlerOk(s, I)
    BY DEF Typed, StreamOk
<1>2. h.at = "round" /\ UNCHANGED <<node, cache, rtts, reported, down, disturbed>>
    BY DEF Begins, I
<1>3. /\ I \in Ends /\ L \in Ends /\ I # L /\ Other(I) = L
      /\ \A e \in Ends : e = I \/ e = L
    BY EndFacts DEF I, L
<1>4. h.round \in 1..MaxRound
  <2>1. h.round \in 0..MaxRound
      BY <1>1, <1>3, HandlerFacts
  <2> QED BY <1>1, <1>2, <2>1, RoundFacts DEF HandlerOk
<1>5. CASE down[I]
  <2>1. NextRound(s, I) /\ chan' = chan
      BY <1>5 DEF Begins, I
  <2>2. Becomes(s, I, After(h))
      BY <1>1, <1>3, <2>1, NextRoundFacts
  <2>3. TypeOK'
      BY <1>1, <1>2, <2>1, <2>2, TypeFacts, LocalTypes DEF Becomes
  <2>4. Local(s)
      BY <1>2, <2>1, <2>2 DEF Local, Becomes
  <2> QED BY <1>2, <1>3, <1>4, <1>5, <2>1, <2>2, <2>3, <2>4 DEF Becomes
<1>6. CASE ~down[I]
  <2> DEFINE f == CodedSet("ping", h.round, Chunks)
  <2>1. Goes(s, I, "wait") /\ chan' = Sent(s, I, chan, f)
      BY <1>6 DEF Begins, I
  <2>2. Becomes(s, I, [h EXCEPT !.at = "wait"])
      BY <1>1, <1>3, <2>1, GoesFacts DEF Labels
  <2>3. Chunks \in 1..Chunks
      BY ChunkFacts
  <2>4. f \in Seq(WireFrames)
      BY <1>1, <1>4, <2>3, CodedSetFacts
  <2> HIDE DEF f
  <2>5. /\ chan' \in [Streams -> [Ends -> Seq(WireFrames)]] /\ chan'[s][I] = chan[s][I]
        /\ chan'[s][L] = IF down[L] THEN chan[s][L] ELSE chan[s][L] \o f
        /\ \A t \in Streams : t # s => chan'[t] = chan[t]
    <3>1. chan \in [Streams -> [Ends -> Seq(WireFrames)]]
        BY <1>1, TypeFacts
    <3>2. /\ chan' \in [Streams -> [Ends -> Seq(WireFrames)]] /\ chan'[s][I] = chan[s][I]
          /\ chan'[s][Other(I)] = IF down[Other(I)] THEN chan[s][Other(I)]
                                                    ELSE chan[s][Other(I)] \o f
          /\ \A t \in Streams : t # s => chan'[t] = chan[t]
        BY <1>3, <2>1, <2>4, <3>1, SentFacts
    <3> QED BY <1>3, <3>2
  <2>6. TypeOK'
      BY <1>1, <1>2, <2>2, <2>5, TypeFacts, LocalTypes DEF Becomes
  <2>7. Local(s)
      BY <1>2, <2>2, <2>5 DEF Local, Becomes
  <2> QED BY <1>2, <1>3, <1>4, <1>6, <2>2, <2>5, <2>6, <2>7 DEF Becomes, f
<1> QED BY <1>5, <1>6

(* What is at the head of a queue that is read in an exchange.              *)
LEMMA ReadsTakes ==
    ASSUME Typed, NEW s \in Streams, NEW e \in Ends, Reads(s, e)
    PROVE  LET q == chan[s][e]
               f == chan[s][e][1] IN
           /\ q \in Seq(WireFrames) /\ q # <<>> /\ Head(q) = f /\ 1 \in DOMAIN q
           /\ Tail(q) \in Seq(WireFrames) /\ f \in WireFrames /\ f.of \in 1..MaxRound
           /\ IF e = I THEN handler[s][e].at = "wait" /\ Pong(f)
                       ELSE handler[s][e].at = "round" /\ Ping(f)
           /\ handler[s][e].round \in 1..MaxRound
           /\ handler[s][e].round =< handler[s][e].rounds
           /\ Counts(s, e, f) /\ UNCHANGED <<node, down, disturbed>>
<1>1. TypeOK /\ HandlerOk(s, e) /\ ChansOk(s) /\ (e = I \/ e = L) /\ I # L
    BY EndFacts DEF Typed, StreamOk, I, L
<1>2. chan[s][e] # <<>> /\ Waiting(s, e)
    BY DEF Reads
<1>3. /\ chan[s][e] \in Seq(WireFrames) /\ Head(chan[s][e]) = chan[s][e][1]
      /\ 1 \in DOMAIN chan[s][e] /\ Tail(chan[s][e]) \in Seq(WireFrames)
      /\ chan[s][e][1] \in WireFrames
    BY <1>1, <1>2, HandlerFacts, HeadFacts
<1>4. Counts(s, e, chan[s][e][1]) /\ UNCHANGED <<node, down, disturbed>>
    BY <1>3 DEF Reads
<1>5. handler[s][e].at = IF e = I THEN "wait" ELSE "round"
    BY <1>2 DEF Waiting, I
<1>6. IF e = I THEN Pong(chan[s][e][1]) ELSE Ping(chan[s][e][1])
    BY <1>1, <1>3, <1>5 DEF ChansOk, Count
<1>7. chan[s][e][1].of \in 0..MaxRound /\ 1 =< chan[s][e][1].of
    BY <1>3, <1>6 DEF WireFrames, Ping, Pong
<1>8. chan[s][e][1].of \in 1..MaxRound
    BY <1>7, RoundFacts
<1>9. handler[s][e].round \in 1..MaxRound /\ handler[s][e].round =< handler[s][e].rounds
  <2>1. handler[s][e].round \in 0..MaxRound
      BY <1>1, HandlerFacts
  <2> QED BY <1>1, <1>5, <2>1, RoundFacts DEF HandlerOk
<1> QED BY <1>2, <1>3, <1>4, <1>5, <1>6, <1>8, <1>9

(* InitiatorReads takes one frame; the last of a set is a round trip.      *)
LEMMA InitiatorReadsDoes ==
    ASSUME Typed, NEW s \in Streams, Reads(s, I)
    PROVE  LET h == handler[s][I]
               f == chan[s][I][1] IN
           /\ TypeOK' /\ Local(s) /\ disturbed' = disturbed
           /\ handler'[s][L] = handler[s][L] /\ chan'[s][L] = chan[s][L]
           /\ chan'[s][I] = Tail(chan[s][I]) /\ Counts(s, I, f)
           /\ \/ /\ ~setting.rlnc \/ cache[s][I][f.of] = f.size - 1
                 /\ handler'[s][I] = After(h)
                 /\ rtts'[s] = Append(rtts[s], [round |-> h.round, of |-> f.of])
              \/ /\ setting.rlnc /\ cache[s][I][f.of] # f.size - 1
                 /\ handler'[s][I] = h /\ rtts'[s] = rtts[s]
<1> DEFINE h == handler[s][I]
           q == chan[s][I]
           f == chan[s][I][1]
           rest == [chan EXCEPT ![s][I] = Tail(q)]
<1>1. TypeOK
    BY DEF Typed
<1>2. /\ I \in Ends /\ L \in Ends /\ I # L /\ \A e \in Ends : e = I \/ e = L
    BY EndFacts DEF I, L
<1>3. /\ q \in Seq(WireFrames) /\ Head(q) = f /\ Tail(q) \in Seq(WireFrames)
      /\ f \in WireFrames /\ f.of \in 1..MaxRound /\ h.round \in 1..MaxRound
      /\ Counts(s, I, f) /\ UNCHANGED <<node, down, disturbed>>
    BY <1>2, ReadsTakes
<1>4. chan' = rest
    BY <1>2, <1>3 DEF Reads, L
<1>5. /\ chan' \in [Streams -> [Ends -> Seq(WireFrames)]] /\ chan'[s][L] = chan[s][L]
      /\ chan'[s][I] = Tail(q) /\ \A t \in Streams : t # s => chan'[t] = chan[t]
  <2>1. chan \in [Streams -> [Ends -> Seq(WireFrames)]]
      BY <1>1, TypeFacts
  <2> HIDE DEF h, q, f
  <2> QED BY <1>2, <1>3, <1>4, <2>1, PutFacts
<1>6. /\ cache' \in [Streams -> [Ends -> [1..MaxRound -> 0..Chunks]]]
      /\ \A t \in Streams : t # s => cache'[t] = cache[t]
    BY <1>1, <1>2, <1>3, CountsFacts
<1>7. CASE Completes(s, I, f)
  <2> DEFINE x == [round |-> h.round, of |-> f.of]
  <2>1. NextRound(s, I) /\ Measures(s, I, f)
      BY <1>2, <1>3, <1>7 DEF Reads, L, I
  <2>2. Becomes(s, I, After(h))
      BY <1>1, <1>2, <2>1, NextRoundFacts
  <2>3. x \in [round : 0..MaxRound, of : 0..MaxRound]
      BY <1>3, RoundFacts
  <2>4. rtts' = [rtts EXCEPT ![s] = Append(rtts[s], x)]
      BY <2>1 DEF Measures
  <2> HIDE DEF x
  <2>5. rtts \in [Streams -> Records] /\ rtts[s] \in Records
      BY <1>1, TypeFacts
  <2>6. Append(rtts[s], x) \in Records /\ Len(Append(rtts[s], x)) = Len(rtts[s]) + 1
      BY <2>3, <2>5 DEF Records
  <2>7. /\ rtts' \in [Streams -> Records] /\ rtts'[s] = Append(rtts[s], x)
        /\ \A t \in Streams : t # s => rtts'[t] = rtts[t]
      BY <2>4, <2>5, <2>6
  <2>8. reported' \in [Streams -> Nat] /\ \A t \in Streams : reported'[t] =< Len(rtts'[t])
    <3>1. /\ reported \in [Streams -> Nat] /\ \A t \in Streams : reported[t] =< Len(rtts[t])
          /\ reported[s] \in Nat /\ Len(rtts[s]) \in Nat
        BY <1>1, <2>5, TypeFacts DEF Records
    <3>2. reported' = reported \/ reported' = [reported EXCEPT ![s] = reported[s] + 1]
        BY <2>1 DEF Measures
    <3>3. /\ reported' \in [Streams -> Nat] /\ reported'[s] \in {reported[s], reported[s] + 1}
          /\ \A t \in Streams : t # s => reported'[t] = reported[t]
        BY <3>1, <3>2
    <3>4. reported'[s] =< Len(rtts'[s])
        BY <2>6, <2>7, <3>1, <3>3
    <3> QED BY <2>7, <3>1, <3>3, <3>4
  <2>9. TypeOK'
      BY <1>1, <1>3, <1>5, <1>6, <2>2, <2>7, <2>8, TypeFacts, LocalTypes DEF Becomes
  <2>10. Local(s)
      BY <1>3, <1>5, <1>6, <2>2, <2>7 DEF Local, Becomes
  <2> QED BY <1>2, <1>3, <1>5, <1>7, <2>2, <2>7, <2>9, <2>10 DEF Becomes, Completes, x
<1>8. CASE ~Completes(s, I, f)
  <2>1. handler' = handler /\ rtts' = rtts /\ reported' = reported
      BY <1>3, <1>8 DEF Reads
  <2>2. TypeOK'
      BY <1>1, <1>3, <1>5, <1>6, <2>1, TypeFacts, LocalTypes
  <2>3. Local(s)
      BY <1>3, <1>5, <1>6, <2>1 DEF Local
  <2> QED BY <1>3, <1>5, <1>8, <2>1, <2>2, <2>3 DEF Completes
<1> QED BY <1>7, <1>8

(* What the listener answers a ping with.                                   *)
LEMMA AnswerFacts ==
    ASSUME TypeOK, NEW s, NEW f, Ping(f), f.of \in 1..MaxRound
    PROVE  /\ Answer(s, f) \in Seq(WireFrames)
           /\ \A i \in DOMAIN Answer(s, f) : Answer(s, f)[i] =
                Frame("pong", f.of, IF setting.rlnc THEN Chunks - 1 ELSE 1)
           /\ ~setting.rlnc => Answer(s, f) = <<Frame("pong", f.of, 1)>>
<1>1. Chunks \in Nat /\ 2 < Chunks
    BY ChunkFacts
<1>2. setting.rlnc => f.size - 1 \in 1..Chunks /\ f.size - 1 = Chunks - 1
    BY <1>1 DEF Ping
<1>3. Answer(s, f) = CodedSet("pong", f.of, f.size - 1)
    BY DEF Answer
<1> DEFINE n == f.size - 1
<1>4. /\ setting.rlnc => n \in 1..Chunks /\ n = Chunks - 1
      /\ Answer(s, f) = CodedSet("pong", f.of, n)
    BY <1>2, <1>3
<1> HIDE DEF n
<1>5. /\ CodedSet("pong", f.of, n) \in Seq(WireFrames)
      /\ \A i \in DOMAIN CodedSet("pong", f.of, n) :
           CodedSet("pong", f.of, n)[i] = Frame("pong", f.of, IF setting.rlnc THEN n ELSE 1)
      /\ ~setting.rlnc => CodedSet("pong", f.of, n) = <<Frame("pong", f.of, 1)>>
    BY <1>4, CodedSetFacts
<1> QED BY <1>4, <1>5

(* ListenerReads takes one frame; the last of a set is answered.           *)
LEMMA ListenerReadsDoes ==
    ASSUME Typed, NEW s \in Streams, Reads(s, L)
    PROVE  LET h == handler[s][L]
               f == chan[s][L][1] IN
           /\ TypeOK' /\ Local(s) /\ disturbed' = disturbed /\ rtts' = rtts
           /\ handler'[s][I] = handler[s][I]
           /\ chan'[s][L] = Tail(chan[s][L]) /\ Counts(s, L, f)
           /\ \/ /\ ~setting.rlnc \/ cache[s][L][f.of] = f.size - 1
                 /\ handler'[s][L] = IF down[L] /\ setting.rlnc THEN [h EXCEPT !.at = "panicked"]
                                                                ELSE After(h)
                 /\ chan'[s][I] = IF down[L] \/ down[I] THEN chan[s][I]
                                  ELSE chan[s][I] \o Answer(s, f)
              \/ /\ setting.rlnc /\ cache[s][L][f.of] # f.size - 1
                 /\ handler'[s][L] = h /\ chan'[s][I] = chan[s][I]
<1> DEFINE h == handler[s][L]
           q == chan[s][L]
           f == chan[s][L][1]
           rest == [chan EXCEPT ![s][L] = Tail(q)]
<1>1. TypeOK
    BY DEF Typed
<1>2. /\ I \in Ends /\ L \in Ends /\ I # L /\ \A e \in Ends : e = I \/ e = L
      /\ Other(L) = I /\ L # "initiator"
    BY EndFacts DEF I, L
<1>3. /\ q \in Seq(WireFrames) /\ Head(q) = f /\ Tail(q) \in Seq(WireFrames)
      /\ f \in WireFrames /\ f.of \in 1..MaxRound /\ Ping(f)
      /\ Counts(s, L, f) /\ UNCHANGED <<node, down, disturbed>>
    BY <1>2, ReadsTakes
<1>4. rtts' = rtts /\ reported' = reported
    BY <1>2 DEF Reads
<1>5. /\ rest \in [Streams -> [Ends -> Seq(WireFrames)]] /\ rest[s][I] = chan[s][I]
      /\ rest[s][L] = Tail(q) /\ \A t \in Streams : t # s => rest[t] = chan[t]
  <2> DEFINE r == Tail(q)
  <2>1. r \in Seq(WireFrames) /\ rest = [chan EXCEPT ![s][L] = r]
      BY <1>3
  <2> HIDE DEF r, rest
  <2>2. chan \in [Streams -> [Ends -> Seq(WireFrames)]]
      BY <1>1, TypeFacts
  <2>3. /\ rest \in [Streams -> [Ends -> Seq(WireFrames)]] /\ rest[s][L] = r
        /\ \A x \in Ends : x # L => rest[s][x] = chan[s][x]
        /\ \A t \in Streams : t # s => rest[t] = chan[t]
      BY <1>2, <2>1, <2>2, PutFacts
  <2> QED BY <1>2, <2>3 DEF r
<1>6. /\ cache' \in [Streams -> [Ends -> [1..MaxRound -> 0..Chunks]]]
      /\ \A t \in Streams : t # s => cache'[t] = cache[t]
    BY <1>1, <1>2, <1>3, CountsFacts
<1>7. CASE Completes(s, L, f)
  <2>1. /\ IF down[L] /\ setting.rlnc THEN Goes(s, L, "panicked") ELSE NextRound(s, L)
        /\ chan' = IF ~down[L] THEN Sent(s, L, rest, Answer(s, f)) ELSE rest
      BY <1>2, <1>3, <1>7 DEF Reads, L
  <2>2. Becomes(s, L, IF down[L] /\ setting.rlnc THEN [h EXCEPT !.at = "panicked"] ELSE After(h))
    <3>1. CASE down[L] /\ setting.rlnc
        BY <1>1, <1>2, <2>1, <3>1, GoesFacts DEF Labels
    <3>2. CASE ~(down[L] /\ setting.rlnc)
        BY <1>1, <1>2, <2>1, <3>2, NextRoundFacts
    <3> QED BY <3>1, <3>2
  <2>3. /\ chan' \in [Streams -> [Ends -> Seq(WireFrames)]] /\ chan'[s][L] = Tail(q)
        /\ chan'[s][I] = IF down[L] \/ down[I] THEN chan[s][I] ELSE chan[s][I] \o Answer(s, f)
        /\ \A t \in Streams : t # s => chan'[t] = chan[t]
    <3>1. CASE down[L]
        BY <1>5, <2>1, <3>1
    <3>2. CASE ~down[L]
      <4> HIDE DEF rest
      <4>1. Answer(s, f) \in Seq(WireFrames)
          BY <1>1, <1>3, AnswerFacts
      <4>2. chan' = Sent(s, L, rest, Answer(s, f))
          BY <2>1, <3>2
      <4>3. /\ chan' \in [Streams -> [Ends -> Seq(WireFrames)]] /\ chan'[s][L] = rest[s][L]
            /\ chan'[s][Other(L)] = IF down[Other(L)] THEN rest[s][Other(L)]
                                    ELSE rest[s][Other(L)] \o Answer(s, f)
            /\ \A t \in Streams : t # s => chan'[t] = rest[t]
          BY <1>2, <1>5, <4>1, <4>2, SentFacts
      <4> QED BY <1>2, <1>5, <3>2, <4>3
    <3> QED BY <3>1, <3>2
  <2>4. TypeOK'
      BY <1>1, <1>3, <1>4, <1>6, <2>2, <2>3, TypeFacts, LocalTypes DEF Becomes
  <2>5. Local(s)
      BY <1>3, <1>4, <1>6, <2>2, <2>3 DEF Local, Becomes
  <2> QED BY <1>2, <1>3, <1>4, <1>7, <2>2, <2>3, <2>4, <2>5 DEF Becomes, Completes
<1>8. CASE ~Completes(s, L, f)
  <2>1. handler' = handler /\ chan' = rest
      BY <1>3, <1>8 DEF Reads
  <2>2. TypeOK'
      BY <1>1, <1>3, <1>4, <1>5, <1>6, <2>1, TypeFacts, LocalTypes
  <2>3. Local(s)
      BY <1>3, <1>4, <1>5, <1>6, <2>1 DEF Local
  <2> QED BY <1>3, <1>4, <1>5, <1>8, <2>1, <2>2, <2>3 DEF Completes
<1> QED BY <1>7, <1>8

(* ReadFails ends the round of its own handler and touches nothing else.   *)
LEMMA ReadFailsDoes ==
    ASSUME Typed, NEW s \in Streams, NEW e \in Ends, ReadFails(s, e)
    PROVE  LET h == handler[s][e] IN
           /\ TypeOK' /\ Local(s) /\ h.at \in {"wait", "round"} /\ down[e] /\ chan[s][e] = <<>>
           /\ \A x \in Ends : x # e => handler'[s][x] = handler[s][x]
           /\ chan' = chan /\ cache' = cache /\ rtts' = rtts /\ disturbed' = disturbed
           /\ handler'[s][e] \in {After(h), [h EXCEPT !.at = "panicked"]}
<1> DEFINE h == handler[s][e]
<1>1. TypeOK
    BY DEF Typed
<1>2. /\ UNCHANGED <<node, chan, cache, rtts, reported, down, disturbed>>
      /\ h.at \in {"wait", "round"} /\ down[e] /\ chan[s][e] = <<>>
    BY DEF ReadFails, Waiting
<1>3. \E g \in {After(h), [h EXCEPT !.at = "panicked"]} : Becomes(s, e, g)
  <2>1. CASE setting.rlnc
      BY <1>1, <2>1, GoesFacts DEF ReadFails, Labels
  <2>2. CASE ~setting.rlnc
      BY <1>1, <2>2, NextRoundFacts DEF ReadFails
  <2> QED BY <2>1, <2>2
<1>4. PICK g \in {After(h), [h EXCEPT !.at = "panicked"]} : Becomes(s, e, g)
    BY <1>3
<1>5. TypeOK'
    BY <1>1, <1>2, <1>4, TypeFacts, LocalTypes DEF Becomes
<1>6. Local(s)
    BY <1>2, <1>4 DEF Local, Becomes
<1> QED BY <1>2, <1>4, <1>5, <1>6 DEF Becomes

(* TimesOut goes on with the next round, and the round it left is late.    *)
LEMMA TimesOutDoes ==
    ASSUME Typed, NEW s \in Streams, NEW e \in Ends, TimesOut(s, e)
    PROVE  LET h == handler[s][e] IN
           /\ TypeOK' /\ Local(s) /\ h.at \in {"wait", "round"}
           /\ \A x \in Ends : x # e => handler'[s][x] = handler[s][x]
           /\ chan' = chan /\ cache' = cache /\ rtts' = rtts
           /\ handler'[s][e] = After(h) /\ disturbed'[s].late # {}
<1> DEFINE h == handler[s][e]
<1>1. TypeOK
    BY DEF Typed
<1>2. /\ UNCHANGED <<node, chan, cache, rtts, reported, down>> /\ h.at \in {"wait", "round"}
      /\ NextRound(s, e) /\ disturbed' = [disturbed EXCEPT ![s].late = @ \cup {e}]
    BY DEF TimesOut, Waiting
<1>3. Becomes(s, e, After(h))
    BY <1>1, <1>2, NextRoundFacts
<1>4. disturbed \in [Streams -> Faults] /\ disturbed[s] \in Faults
    BY <1>1, TypeFacts
<1>5. /\ disturbed' \in [Streams -> Faults] /\ disturbed'[s].late # {}
      /\ \A t \in Streams : t # s => disturbed'[t] = disturbed[t]
    BY <1>2, <1>4 DEF Faults
<1>6. TypeOK'
    BY <1>1, <1>2, <1>3, <1>5, TypeFacts, LocalTypes DEF Becomes
<1>7. Local(s)
    BY <1>2, <1>3, <1>5 DEF Local, Becomes
<1> QED BY <1>2, <1>3, <1>5, <1>6, <1>7 DEF Becomes

(* Finishes reports once, and panics when nobody listens any more.         *)
LEMMA FinishesDoes ==
    ASSUME Typed, NEW s \in Streams, NEW e \in Ends, Finishes(s, e)
    PROVE  LET h == handler[s][e] IN
           /\ TypeOK' /\ Local(s) /\ h.at = "finish"
           /\ \A x \in Ends : x # e => handler'[s][x] = handler[s][x] /\ chan'[s][x] = chan[s][x]
           /\ cache' = cache /\ rtts' = rtts /\ disturbed' = disturbed
           /\ handler'[s][e] = [h EXCEPT !.at = IF down[e] THEN "panicked" ELSE "closing"]
           /\ Within(chan'[s][e], chan[s][e])
<1> DEFINE h == handler[s][e]
           q == chan[s][e]
<1>1. TypeOK
    BY DEF Typed
<1>2. h.at = "finish" /\ UNCHANGED <<node, cache, rtts, down, disturbed>>
    BY DEF Finishes
<1>3. Becomes(s, e, [h EXCEPT !.at = IF down[e] THEN "panicked" ELSE "closing"])
  <2>1. Goes(s, e, IF down[e] THEN "panicked" ELSE "closing")
      BY DEF Finishes
  <2> QED BY <1>1, <2>1, GoesFacts DEF Labels
<1>4. PICK k \in 0..Len(q) : chan' = [chan EXCEPT ![s][e] = SubSeq(q, k + 1, Len(q))]
    BY DEF Finishes
<1>5. /\ chan' \in [Streams -> [Ends -> Seq(WireFrames)]] /\ Within(chan'[s][e], q)
      /\ \A x \in Ends : x # e => chan'[s][x] = chan[s][x]
      /\ \A t \in Streams : t # s => chan'[t] = chan[t]
  <2> DEFINE r == SubSeq(q, k + 1, Len(q))
  <2>1. r \in Seq(WireFrames) /\ Within(r, q)
    <3>1. q \in Seq(WireFrames)
        BY <1>1, HandlerFacts
    <3> QED BY <3>1, RestFacts
  <2>2. chan' = [chan EXCEPT ![s][e] = r]
      BY <1>4
  <2> HIDE DEF r
  <2>3. chan \in [Streams -> [Ends -> Seq(WireFrames)]]
      BY <1>1, TypeFacts
  <2>4. /\ chan' \in [Streams -> [Ends -> Seq(WireFrames)]] /\ chan'[s][e] = r
        /\ \A x \in Ends : x # e => chan'[s][x] = chan[s][x]
        /\ \A t \in Streams : t # s => chan'[t] = chan[t]
      BY <2>1, <2>2, <2>3, PutFacts
  <2> QED BY <2>1, <2>4
<1>6. reported' \in [Streams -> Nat] /\ \A t \in Streams : reported'[t] =< Len(rtts'[t])
  <2>1. /\ reported \in [Streams -> Nat] /\ \A t \in Streams : reported[t] =< Len(rtts[t])
        /\ Len(rtts[s]) \in Nat
      BY <1>1, TypeFacts DEF Records
  <2>2. reported' = reported \/ reported' = [reported EXCEPT ![s] = Len(rtts[s])]
      BY DEF Finishes
  <2>3. /\ reported' \in [Streams -> Nat] /\ reported'[s] \in {reported[s], Len(rtts[s])}
        /\ \A t \in Streams : t # s => reported'[t] = reported[t]
      BY <2>1, <2>2
  <2>4. reported'[s] =< Len(rtts[s])
      BY <2>1, <2>3
  <2> QED BY <1>2, <2>1, <2>3, <2>4
<1>7. TypeOK'
    BY <1>1, <1>2, <1>3, <1>5, <1>6, TypeFacts, LocalTypes DEF Becomes
<1>8. Local(s)
    BY <1>2, <1>3, <1>5 DEF Local, Becomes
<1> QED BY <1>2, <1>3, <1>5, <1>7, <1>8 DEF Becomes

(* Closes ends its own handler.                                            *)
LEMMA ClosesDoes ==
    ASSUME Typed, NEW s \in Streams, NEW e \in Ends, Closes(s, e)
    PROVE  LET h == handler[s][e] IN
           /\ TypeOK' /\ Local(s) /\ h.at = "closing"
           /\ \A x \in Ends : x # e => handler'[s][x] = handler[s][x] /\ chan'[s][x] = chan[s][x]
           /\ cache' = cache /\ rtts' = rtts /\ disturbed' = disturbed
           /\ handler'[s][e] = [h EXCEPT !.at = "closed"] /\ chan'[s][e] = <<>>
           /\ Within(chan'[s][e], chan[s][e])
<1> DEFINE h == handler[s][e]
<1>1. TypeOK
    BY DEF Typed
<1>2. h.at = "closing" /\ UNCHANGED <<node, cache, rtts, reported, down, disturbed>>
    BY DEF Closes
<1>3. Becomes(s, e, [h EXCEPT !.at = "closed"])
    BY <1>1, GoesFacts DEF Closes, Labels
<1>4. /\ chan' \in [Streams -> [Ends -> Seq(WireFrames)]] /\ chan'[s][e] = <<>>
      /\ \A x \in Ends : x # e => chan'[s][x] = chan[s][x]
      /\ \A t \in Streams : t # s => chan'[t] = chan[t]
  <2>1. <<>> \in Seq(WireFrames) /\ chan' = [chan EXCEPT ![s][e] = <<>>]
      BY DEF Closes
  <2> QED BY <1>1, <2>1, TypeFacts, PutFacts
<1>5. Within(<<>>, chan[s][e])
    BY <1>1, HandlerFacts, WithinSelf
<1>6. TypeOK'
    BY <1>1, <1>2, <1>3, <1>4, TypeFacts, LocalTypes DEF Becomes
<1>7. Local(s)
    BY <1>2, <1>3, <1>4 DEF Local, Becomes
<1> QED BY <1>2, <1>3, <1>4, <1>5, <1>6, <1>7 DEF Becomes

(* Loses takes frames out of one queue and adds none.                      *)
LEMMA LosesDoes ==
    ASSUME Typed, NEW s \in Streams, NEW e \in Ends, Loses(s, e)
    PROVE  /\ TypeOK' /\ Local(s)
           /\ \A x \in Ends : x # e => chan'[s][x] = chan[s][x]
           /\ handler' = handler /\ cache' = cache /\ rtts' = rtts
           /\ disturbed'[s].late = disturbed[s].late /\ disturbed'[s].lost
           /\ Within(chan'[s][e], chan[s][e])
<1> DEFINE q == chan[s][e]
<1>1. TypeOK
    BY DEF Typed
<1>2. /\ UNCHANGED <<node, handler, cache, rtts, reported, down>>
      /\ disturbed' = [disturbed EXCEPT ![s].lost = TRUE]
    BY DEF Loses
<1>3. PICK k \in DOMAIN q :
        chan' = [chan EXCEPT ![s][e] = SubSeq(q, 1, k - 1) \o SubSeq(q, k + 1, Len(q))]
    BY DEF Loses
<1>4. /\ chan' \in [Streams -> [Ends -> Seq(WireFrames)]] /\ Within(chan'[s][e], q)
      /\ \A x \in Ends : x # e => chan'[s][x] = chan[s][x]
      /\ \A t \in Streams : t # s => chan'[t] = chan[t]
  <2> DEFINE r == SubSeq(q, 1, k - 1) \o SubSeq(q, k + 1, Len(q))
  <2>1. r \in Seq(WireFrames) /\ Within(r, q)
    <3>1. q \in Seq(WireFrames)
        BY <1>1, HandlerFacts
    <3> QED BY <3>1, DropFacts
  <2>2. chan' = [chan EXCEPT ![s][e] = r]
      BY <1>3
  <2> HIDE DEF r
  <2>3. chan \in [Streams -> [Ends -> Seq(WireFrames)]]
      BY <1>1, TypeFacts
  <2>4. /\ chan' \in [Streams -> [Ends -> Seq(WireFrames)]] /\ chan'[s][e] = r
        /\ \A x \in Ends : x # e => chan'[s][x] = chan[s][x]
        /\ \A t \in Streams : t # s => chan'[t] = chan[t]
      BY <2>1, <2>2, <2>3, PutFacts
  <2> QED BY <2>1, <2>4
<1>5. disturbed \in [Streams -> Faults] /\ disturbed[s] \in Faults
    BY <1>1, TypeFacts
<1>6. /\ disturbed' \in [Streams -> Faults] /\ disturbed'[s].late = disturbed[s].late
      /\ disturbed'[s].lost /\ \A t \in Streams : t # s => disturbed'[t] = disturbed[t]
    BY <1>2, <1>5 DEF Faults
<1>7. TypeOK'
    BY <1>1, <1>2, <1>4, <1>6, TypeFacts, LocalTypes
<1>8. Local(s)
    BY <1>2, <1>4, <1>6 DEF Local
<1> QED BY <1>2, <1>4, <1>6, <1>7, <1>8

(* PingCall puts a stream in the queue and touches no stream.              *)
LEMMA PingCallDoes ==
    ASSUME Typed, PingCall
    PROVE  /\ TypeOK' /\ UNCHANGED <<setting, handler, chan, cache, rtts, down, disturbed>>
           /\ asked \in Seq(Asks) /\ notification \in Seq(Streams) /\ Len(asked) \in Nat
           /\ count' \in Asks /\ asked' = Append(asked, count')
           /\ Len(asked) + 1 \in Streams
           /\ notification' = Append(notification, Len(asked) + 1)
<1> DEFINE n == Len(asked) + 1
           c == setting.calls[n]
<1>1. /\ TypeOK /\ asked \in Seq(Asks) /\ notification \in Seq(Streams) /\ setting \in Settings
      /\ Len(asked) \in Nat
  <2>1. TypeOK
      BY DEF Typed
  <2>2. asked \in Seq(Asks) /\ notification \in Seq(Streams) /\ setting \in Settings
      BY <2>1 DEF TypeOK
  <2> QED BY <2>1, <2>2
<1>2. /\ Len(asked) < Len(setting.calls) /\ count' = c /\ asked' = Append(asked, c)
      /\ notification' = Append(notification, n)
      /\ UNCHANGED <<setting, handler, chan, cache, rtts, reported, down, disturbed>>
    BY DEF PingCall
<1>3. setting.calls \in Seq(Nat) /\ n \in DOMAIN setting.calls
  <2>1. setting.calls \in Seq(Nat)
      BY <1>1, PingAssumption
  <2>2. Len(setting.calls) \in Nat /\ DOMAIN setting.calls = 1..Len(setting.calls)
      BY <2>1
  <2>3. n \in 1..Len(setting.calls)
      BY <1>1, <1>2, <2>2
  <2> QED BY <2>1, <2>2, <2>3
<1>4. c \in Asks /\ n \in Streams
  <2>1. DOMAIN setting.calls \in {DOMAIN x.calls : x \in Settings}
      BY <1>1
  <2>2. {setting.calls[s] : s \in DOMAIN setting.calls}
          \in {{x.calls[s] : s \in DOMAIN x.calls} : x \in Settings}
      BY <1>1
  <2>3. c \in {setting.calls[s] : s \in DOMAIN setting.calls}
      BY <1>3
  <2> HIDE DEF c, n
  <2> QED BY <1>3, <2>1, <2>2, <2>3 DEF Asks, Streams
<1> HIDE DEF c, n
<1>5. /\ asked' \in Seq(Asks) /\ notification' \in Seq(Streams) /\ count' \in Nat
      /\ setting' \in Settings
    BY <1>1, <1>2, <1>4, RoundFacts
<1>6. TypeOK'
  <2>1. reported' \in [Streams -> Nat] /\ \A s \in Streams : reported'[s] =< Len(rtts'[s])
      BY <1>1, <1>2 DEF TypeOK
  <2>2. /\ handler' \in [Streams -> [Ends -> Handlers]]
        /\ chan' \in [Streams -> [Ends -> Seq(WireFrames)]]
        /\ cache' \in [Streams -> [Ends -> [1..MaxRound -> 0..Chunks]]]
        /\ rtts' \in [Streams -> Seq([round : 0..MaxRound, of : 0..MaxRound])]
        /\ disturbed' \in [Streams -> [lost : BOOLEAN, late : SUBSET Ends, broken : BOOLEAN]]
      BY <1>1, <1>2 DEF TypeOK
  <2>3. down' \in [Ends -> BOOLEAN]
      BY <1>1, <1>2 DEF TypeOK
  <2> QED BY <1>5, <2>1, <2>2, <2>3 DEF TypeOK
<1> QED BY <1>1, <1>2, <1>4, <1>6 DEF n

(* A handler that has not run yet is a handler.                            *)
LEMMA IdleFacts ==
    /\ Idle = [at |-> "none", round |-> 0, rounds |-> 0, forever |-> FALSE]
    /\ Idle \in Handlers /\ [Idle EXCEPT !.at = "count"] \in Handlers
    /\ [Idle EXCEPT !.at = "count"].at = "count" /\ [Idle EXCEPT !.at = "none"] = Idle
    /\ [Idle EXCEPT !.at = "count"].round = 0 /\ [Idle EXCEPT !.at = "count"].rounds = 0
<1>1. Idle = [at |-> "none", round |-> 0, rounds |-> 0, forever |-> FALSE]
    BY DEF Idle
<1>2. 0 \in 0..MaxRound /\ "none" \in Labels /\ "count" \in Labels
    BY RoundFacts DEF Labels
<1>3. Idle \in Handlers
    BY <1>1, <1>2 DEF Handlers
<1>4. ASSUME NEW i \in Handlers, NEW label \in Labels
      PROVE  /\ [i EXCEPT !.at = label] \in Handlers /\ [i EXCEPT !.at = label].at = label
             /\ [i EXCEPT !.at = label].round = i.round
             /\ [i EXCEPT !.at = label].rounds = i.rounds
             /\ [i EXCEPT !.at = label].forever = i.forever
             /\ (i.at = label => [i EXCEPT !.at = label] = i)
    BY DEF Handlers
<1>5. Idle.round = 0 /\ Idle.rounds = 0 /\ Idle.at = "none"
    BY <1>1
<1> QED BY <1>1, <1>2, <1>3, <1>4, <1>5

(* OpenStream starts both ends of a stream that no handler ran on.         *)
LEMMA OpenStreamDoes ==
    ASSUME Typed, OpenStream
    PROVE  \E s \in Streams :
           /\ TypeOK' /\ notification \in Seq(Streams) /\ s = notification[1]
           /\ 1 \in DOMAIN notification /\ notification' = Tail(notification)
           /\ UNCHANGED <<setting, count, asked, chan, cache, rtts, down, disturbed>>
           /\ \A e \in Ends : /\ handler[s][e].at = "none" /\ ~down[e]
                              /\ handler'[s][e] = [Idle EXCEPT !.at = "count"]
           /\ \A t \in Streams : t # s => handler'[t] = handler[t]
<1> DEFINE s == notification[1]
           h == [e \in Ends |-> [Idle EXCEPT !.at = "count"]]
<1>1. TypeOK /\ CallsInOrder
    BY DEF Typed
<1>2. notification \in Seq(Streams) /\ notification # <<>>
    BY <1>1 DEF TypeOK, OpenStream
<1>3. /\ Head(notification) = s /\ s \in Streams /\ 1 \in DOMAIN notification
      /\ Tail(notification) \in Seq(Streams)
    BY <1>2, HeadFacts
<1>4. /\ notification' = Tail(notification) /\ handler' = [handler EXCEPT ![s] = h]
      /\ \A e \in Ends : ~down[e]
      /\ UNCHANGED <<setting, count, asked, chan, cache, rtts, reported, down, disturbed>>
    BY <1>3 DEF OpenStream
<1>5. h \in [Ends -> Handlers]
  <2>1. [Idle EXCEPT !.at = "count"] \in Handlers
      BY IdleFacts
  <2> QED BY <2>1
<1>6. \A e \in Ends : h[e] = [Idle EXCEPT !.at = "count"]
    OBVIOUS
<1> HIDE DEF h
<1>7. /\ handler' \in [Streams -> [Ends -> Handlers]] /\ handler'[s] = h
      /\ \A t \in Streams : t # s => handler'[t] = handler[t]
    BY <1>1, <1>3, <1>4, <1>5, TypeFacts
<1>8. \A e \in Ends : handler[s][e].at = "none"
    BY <1>1, <1>3 DEF CallsInOrder
<1>9. TypeOK'
  <2>1. reported' \in [Streams -> Nat] /\ \A t \in Streams : reported'[t] =< Len(rtts'[t])
      BY <1>1, <1>4 DEF TypeOK
  <2>2. /\ chan' \in [Streams -> [Ends -> Seq(WireFrames)]]
        /\ cache' \in [Streams -> [Ends -> [1..MaxRound -> 0..Chunks]]]
        /\ rtts' \in [Streams -> Seq([round : 0..MaxRound, of : 0..MaxRound])]
        /\ disturbed' \in [Streams -> [lost : BOOLEAN, late : SUBSET Ends, broken : BOOLEAN]]
      BY <1>1, <1>4 DEF TypeOK
  <2>3. /\ setting' \in Settings /\ count' \in Nat /\ asked' \in Seq(Asks)
        /\ down' \in [Ends -> BOOLEAN]
      BY <1>1, <1>4 DEF TypeOK
  <2> QED BY <1>3, <1>4, <1>7, <2>1, <2>2, <2>3 DEF TypeOK
<1> QED BY <1>2, <1>3, <1>4, <1>6, <1>7, <1>8, <1>9

(* A connection task that goes.                                             *)
LEMMA GoesDownDoes ==
    ASSUME TypeOK, NEW e \in Ends, GoesDown(e)
    PROVE  /\ chan' \in [Streams -> [Ends -> Seq(WireFrames)]]
           /\ \A s \in Streams, x \in Ends : chan'[s][x] \in {chan[s][x], <<>>}
           /\ down' \in [Ends -> BOOLEAN] /\ \A x \in Ends : down[x] => down'[x]
           /\ \A s \in Streams, x \in Ends : Within(chan'[s][x], chan[s][x])
<1>1. PICK lost \in SUBSET Ends :
        chan' = [s \in Streams |-> [x \in Ends |-> IF x \in lost THEN <<>> ELSE chan[s][x]]]
    BY DEF GoesDown
<1>2. down \in [Ends -> BOOLEAN]
    BY DEF TypeOK
<1>3. down' \in [Ends -> BOOLEAN] /\ \A x \in Ends : down[x] => down'[x]
  <2>1. down' = [x \in Ends |-> down[x] \/ x \in {y \in Ends : y = e \/ setting.transport = "tcp"}]
      BY DEF GoesDown
  <2> QED BY <1>2, <2>1
<1>4. \A s \in Streams, x \in Ends : chan'[s][x] = IF x \in lost THEN <<>> ELSE chan[s][x]
    BY <1>1
<1>5. \A s \in Streams, x \in Ends : chan[s][x] \in Seq(WireFrames) /\ <<>> \in Seq(WireFrames)
    BY HandlerFacts
<1>6. chan' \in [Streams -> [Ends -> Seq(WireFrames)]]
    BY <1>1, <1>5
<1>7. \A s \in Streams, x \in Ends : Within(chan'[s][x], chan[s][x])
    BY <1>4, <1>5, WithinSelf
<1> QED BY <1>3, <1>4, <1>6, <1>7

(* The task of a connection that goes down takes its handlers along.       *)
LEMMA GoneDoes ==
    ASSUME Typed, (\E s \in Streams, e \in Ends : MuxerPanics(s, e)) \/ Breaks
    PROVE  /\ TypeOK' /\ UNCHANGED <<node, handler, cache, rtts>>
           /\ \A s \in Streams, x \in Ends : /\ chan'[s][x] \in {chan[s][x], <<>>}
                                             /\ Within(chan'[s][x], chan[s][x])
           /\ \A x \in Ends : down[x] => down'[x]
           /\ \A s \in Streams : disturbed'[s].late = disturbed[s].late
<1>1. TypeOK
    BY DEF Typed
<1>2. disturbed \in [Streams -> Faults]
    BY <1>1, TypeFacts
<1>3. /\ UNCHANGED <<node, handler, cache, rtts, reported>>
      /\ disturbed' \in [Streams -> Faults]
      /\ \A s \in Streams : disturbed'[s].late = disturbed[s].late
  <2>1. CASE \E s \in Streams, e \in Ends : MuxerPanics(s, e)
      BY <1>2, <2>1 DEF MuxerPanics
  <2>2. CASE Breaks
    <3>1. /\ UNCHANGED <<node, handler, cache, rtts, reported>>
          /\ disturbed' = [s \in Streams |-> [disturbed[s] EXCEPT !.broken = TRUE]]
        BY <2>2 DEF Breaks
    <3> QED BY <1>2, <3>1 DEF Faults
  <2> QED BY <2>1, <2>2
<1>4. PICK e \in Ends : GoesDown(e)
    BY EndFacts DEF MuxerPanics, Breaks
<1>5. /\ chan' \in [Streams -> [Ends -> Seq(WireFrames)]]
      /\ \A s \in Streams, x \in Ends : chan'[s][x] \in {chan[s][x], <<>>}
      /\ down' \in [Ends -> BOOLEAN] /\ \A x \in Ends : down[x] => down'[x]
      /\ \A s \in Streams, x \in Ends : Within(chan'[s][x], chan[s][x])
    BY <1>1, <1>4, GoesDownDoes
<1>6. TypeOK'
  <2>1. /\ handler' \in [Streams -> [Ends -> Handlers]]
        /\ cache' \in [Streams -> [Ends -> [1..MaxRound -> 0..Chunks]]]
        /\ rtts' \in [Streams -> Seq([round : 0..MaxRound, of : 0..MaxRound])]
      BY <1>1, <1>3 DEF TypeOK
  <2>2. reported' \in [Streams -> Nat] /\ \A t \in Streams : reported'[t] =< Len(rtts'[t])
      BY <1>1, <1>3 DEF TypeOK
  <2>3. /\ setting' \in Settings /\ count' \in Nat /\ asked' \in Seq(Asks)
        /\ notification' \in Seq(Streams)
      BY <1>1, <1>3 DEF TypeOK, node
  <2> QED BY <1>3, <1>5, <2>1, <2>2, <2>3 DEF TypeOK, Faults
<1> QED BY <1>3, <1>5, <1>6

-----------------------------------------------------------------------------
(* The types are kept. *)

(* Where a handler goes when its round is over.                            *)
LEMMA AfterFacts ==
    ASSUME NEW h \in Handlers
    PROVE  /\ After(h).at \in {"round", "finish"} /\ After(h).rounds = h.rounds
           /\ After(h).forever = h.forever
           /\ After(h).at = "round" => After(h).round = h.round + 1 /\ h.round < h.rounds
           /\ After(h).at = "finish" => After(h).round = h.round /\ ~(h.round < h.rounds)
BY DEF After, Handlers

(* A step of one stream keeps what holds of every other stream.            *)
LEMMA OthersTyped ==
    ASSUME NEW s \in Streams, NEW t \in Streams, t # s, Local(s), StreamOk(t)
    PROVE  StreamOk(t)'
<1>1. handler'[t] = handler[t] /\ chan'[t] = chan[t] /\ setting' = setting /\ asked' = asked
      /\ down' = down
    BY DEF Local, node
<1> QED BY <1>1 DEF StreamOk, HandlerOk, ChansOk, Ping, Pong, Count

(* A step of one stream keeps the invariant if that stream does.           *)
LEMMA LocalTyped ==
    ASSUME Typed, NEW s \in Streams, Local(s), TypeOK', StreamOk(s)',
           handler' = handler \/ \E e \in Ends : handler[s][e].at # "none"
    PROVE  Typed'
<1>1. \A t \in Streams : StreamOk(t)'
    BY OthersTyped DEF Typed
<1>2. CallsInOrder'
  <2>1. UNCHANGED <<asked, count, notification>>
      BY DEF Local, node
  <2>2. CallsInOrder /\ notification \in Seq(Streams)
      BY DEF Typed, TypeOK
  <2>3. ASSUME NEW i \in DOMAIN notification
        PROVE  \A e \in Ends : handler'[notification[i]][e].at = "none"
    <3>1. notification[i] \in Streams /\ \A e \in Ends : handler[notification[i]][e].at = "none"
        BY <2>2 DEF CallsInOrder
    <3>2. handler'[notification[i]] = handler[notification[i]]
        BY <3>1 DEF Local
    <3> QED BY <3>1, <3>2
  <2> QED BY <2>1, <2>2, <2>3 DEF CallsInOrder
<1> QED BY <1>1, <1>2 DEF Typed

(* Queues that only lose frames.                                            *)
LEMMA ShrinkChans ==
    ASSUME TypeOK, TypeOK', NEW s \in Streams, ChansOk(s), setting' = setting,
           \A e \in Ends : Within(chan'[s][e], chan[s][e]),
           \A e \in Ends : down[e] => down'[e],
           \A e \in Ends : \/ handler'[s][e].at = handler[s][e].at
                           \/ /\ handler[s][e].at \notin {"none", "count"}
                              /\ handler'[s][e].at \notin {"none", "count"}
    PROVE  ChansOk(s)'
<1>1. I \in Ends /\ L \in Ends
    BY EndFacts DEF I, L
<1>2. \A e \in Ends : chan[s][e] \in Seq(WireFrames) /\ chan'[s][e] \in Seq(WireFrames)
    BY TypeFacts DEF TypeOK
<1>3. ASSUME NEW i \in DOMAIN chan'[s][I]
      PROVE  Pong(chan[s][I][i])'
  <2>1. PICK j \in DOMAIN chan[s][I] : chan'[s][I][i] = chan[s][I][j]
      BY <1>1 DEF Within
  <2> QED BY <2>1 DEF ChansOk, Pong
<1>4. ASSUME NEW i \in DOMAIN chan'[s][L]
      PROVE  Ping(chan[s][L][i])' \/ Count(s, i)'
  <2>1. PICK j \in DOMAIN chan[s][L] : i =< j /\ chan'[s][L][i] = chan[s][L][j]
      BY <1>1 DEF Within
  <2>2. i \in Nat \ {0}
      BY <1>1, <1>2
  <2>3. CASE Ping(chan[s][L][j])
      BY <2>1, <2>3 DEF Ping
  <2>4. CASE Count(s, j)
    <3>1. i = 1
        BY <2>1, <2>2, <2>4 DEF Count
    <3> QED BY <1>1, <2>1, <2>4, <3>1 DEF Count
  <2> QED BY <2>1, <2>3, <2>4 DEF ChansOk
<1>5. ASSUME handler'[s][I].at \in {"none", "count"}
      PROVE  chan'[s][L] = <<>> /\ (handler'[s][L].at = handler'[s][I].at \/ down'[L])
  <2>1. handler[s][I].at = handler'[s][I].at
      BY <1>1, <1>5
  <2>2. /\ chan[s][L] = <<>> /\ Within(chan'[s][L], chan[s][L])
        /\ handler[s][L].at = handler[s][I].at \/ down[L]
      BY <1>1, <1>5, <2>1 DEF ChansOk
  <2>3. handler'[s][L].at = handler'[s][I].at \/ down'[L]
      BY <1>1, <1>5, <2>1, <2>2
  <2>4. Len(chan'[s][L]) =< 0 /\ Len(chan'[s][L]) \in Nat
      BY <1>1, <1>2, <2>2 DEF Within
  <2>5. Len(chan'[s][L]) = 0
      BY <2>4
  <2>6. chan'[s][L] = <<>>
      BY <1>1, <1>2, <2>5, EmptySeq
  <2> QED BY <2>3, <2>6
<1> QED BY <1>3, <1>4, <1>5 DEF ChansOk

(* The initiator is the only one to have sent anything when it starts.     *)
LEMMA InitiatorStartsTyped ==
    ASSUME Typed, NEW s \in Streams, InitiatorStarts(s)
    PROVE  Typed'
<1> DEFINE f == Frame("count", count, 1)
<1>1. TypeOK /\ StreamOk(s) /\ I \in Ends /\ L \in Ends /\ I # L
    BY EndFacts DEF Typed, I, L
<1>2. /\ TypeOK' /\ Local(s) /\ handler[s][I].at = "count"
      /\ handler'[s][L] = handler[s][L] /\ chan'[s][I] = chan[s][I] /\ count \in Asks
      /\ \/ /\ handler'[s][I] = [handler[s][I] EXCEPT !.at = "panicked"]
            /\ chan'[s][L] = chan[s][L]
         \/ /\ handler'[s][I] = Starting(count)
            /\ chan'[s][L] = IF down[L] THEN chan[s][L] ELSE chan[s][L] \o <<f>>
    BY InitiatorStartsDoes
<1>3. asked' = asked /\ setting' = setting
    BY <1>2 DEF Local, node
<1>4. HandlerOk(s, L)'
    BY <1>1, <1>2, <1>3 DEF StreamOk, HandlerOk
<1>5. handler'[s][I].at \in {"panicked", "round"}
    BY <1>1, <1>2, HandlerFacts DEF Starting, Handlers
<1>6. HandlerOk(s, I)'
  <2>1. handler'[s][I].at = "round" => handler'[s][I] = Starting(count)
      BY <1>1, <1>2, HandlerFacts DEF Handlers
  <2>2. Starting(count).round = 1 /\ Starting(count).rounds >= 1
      BY <1>2, RoundFacts, PingAssumption DEF Starting
  <2> QED BY <1>1, <1>2, <1>3, <1>5, <2>1, <2>2 DEF StreamOk, HandlerOk
<1>7. ChansOk(s)'
  <2>1. chan[s][L] = <<>>
      BY <1>1, <1>2 DEF StreamOk, ChansOk
  <2>2. chan'[s][L] \in {<<>>, <<f>>}
      BY <1>2, <2>1
  <2>3. \A i \in DOMAIN chan'[s][I] : Pong(chan[s][I][i])'
      BY <1>1, <1>2, <1>3 DEF StreamOk, ChansOk, Pong
  <2>4. f.kind = "count" /\ f.of \in Asks
      BY <1>2 DEF Frame
  <2>5. ASSUME NEW i \in DOMAIN chan'[s][L]
        PROVE  Count(s, i)'
    <3>1. chan'[s][L] = <<f>> /\ i = 1
        BY <2>2
    <3>2. ~down[L]
        BY <1>2, <2>1, <3>1
    <3>3. handler'[s][L].at = "count"
        BY <1>2, <1>1, <3>2 DEF StreamOk, ChansOk
    <3> QED BY <1>2, <1>5, <2>4, <3>1, <3>3 DEF Count
  <2> QED BY <1>5, <2>3, <2>5 DEF ChansOk
<1>8. StreamOk(s)'
    BY <1>4, <1>6, <1>7 DEF StreamOk
<1> QED BY <1>1, <1>2, <1>8, LocalTyped

(* The listener starts with the number the initiator sent.                 *)
LEMMA ListenerStartsTyped ==
    ASSUME Typed, NEW s \in Streams, ListenerStarts(s)
    PROVE  Typed'
<1> DEFINE q == chan[s][L]
           n == IF q[1].kind = "count" THEN q[1].of ELSE Huge
<1>1. TypeOK /\ StreamOk(s) /\ I \in Ends /\ L \in Ends /\ I # L
    BY EndFacts DEF Typed, I, L
<1>2. /\ TypeOK' /\ Local(s) /\ handler[s][L].at = "count"
      /\ handler'[s][I] = handler[s][I] /\ chan'[s][I] = chan[s][I]
      /\ \/ /\ q = <<>> /\ chan'[s][L] = q /\ down[L]
            /\ handler'[s][L] = [handler[s][L] EXCEPT !.at = "panicked"]
         \/ q # <<>> /\ chan'[s][L] = Tail(q) /\ handler'[s][L] = Starting(n)
    BY ListenerStartsDoes
<1>3. asked' = asked /\ setting' = setting /\ down' = down
    BY <1>2 DEF Local, node
<1>4. q \in Seq(WireFrames)
    BY <1>1, HandlerFacts
<1>5. HandlerOk(s, I)'
    BY <1>1, <1>2, <1>3 DEF StreamOk, HandlerOk
<1>6. \A i \in DOMAIN chan'[s][I] : Pong(chan[s][I][i])'
    BY <1>1, <1>2, <1>3 DEF StreamOk, ChansOk, Pong
<1>7. HandlerOk(s, L)' /\ ChansOk(s)'
  <2>1. CASE q = <<>>
    <3>1. handler'[s][L].at = "panicked"
        BY <1>1, <1>2, <2>1, HandlerFacts DEF Handlers
    <3>2. HandlerOk(s, L)'
        BY <1>1, <1>2, <1>3, <3>1 DEF StreamOk, HandlerOk
    <3>3. chan'[s][L] = <<>> /\ down'[L]
        BY <1>2, <1>3, <2>1
    <3> QED BY <1>6, <3>2, <3>3 DEF ChansOk
  <2>2. CASE q # <<>>
    <3>1. chan'[s][L] = Tail(q) /\ handler'[s][L] = Starting(n)
        BY <1>2, <2>2
    <3>2. /\ 1 \in DOMAIN q /\ Within(Tail(q), q) /\ Tail(q) \in Seq(WireFrames)
          /\ Len(q) \in Nat /\ Len(Tail(q)) = Len(q) - 1
        BY <1>4, <2>2, HeadFacts
    <3>3. n \in Nat
      <4>1. Ping(q[1]) \/ q[1].of \in Asks
          BY <1>1, <3>2 DEF StreamOk, ChansOk, Count
      <4> QED BY <4>1, RoundFacts, PingAssumption DEF Ping
    <3> HIDE DEF n
    <3>4. /\ Starting(n).at = "round" /\ Starting(n).round = 1 /\ Starting(n).rounds >= 1
        BY <3>3, PingAssumption DEF Starting
    <3>5. HandlerOk(s, L)'
        BY <1>1, <1>2, <1>3, <3>1, <3>4 DEF StreamOk, HandlerOk
    <3>6. ASSUME NEW i \in DOMAIN chan'[s][L]
          PROVE  Ping(chan[s][L][i])'
      <4>1. i \in 1..(Len(q) - 1) /\ Tail(q)[i] = q[i + 1]
          BY <1>4, <2>2, <3>1, <3>2
      <4>2. i + 1 \in DOMAIN q /\ i + 1 # 1
          BY <1>4, <3>2, <4>1
      <4>3. Ping(q[i + 1])
          BY <1>1, <4>2 DEF StreamOk, ChansOk, Count
      <4> QED BY <1>3, <3>1, <4>1, <4>3 DEF Ping
    <3>7. handler'[s][I].at \notin {"none", "count"}
        BY <1>1, <1>2, <2>2 DEF StreamOk, ChansOk
    <3> QED BY <1>6, <3>5, <3>6, <3>7 DEF ChansOk
  <2> QED BY <2>1, <2>2
<1>8. StreamOk(s)'
    BY <1>5, <1>7 DEF StreamOk
<1> QED BY <1>1, <1>2, <1>8, LocalTyped

(* A handler between its rounds, or past them.                              *)
LEMMA AfterOk ==
    ASSUME Typed, NEW s \in Streams, NEW e \in Ends, asked' = asked, TypeOK',
           handler[s][e].at \in {"round", "wait"},
           handler'[s][e] \in {After(handler[s][e]), [handler[s][e] EXCEPT !.at = "panicked"],
                               [handler[s][e] EXCEPT !.at = "wait"]}
    PROVE  HandlerOk(s, e)' /\ handler'[s][e].at \notin {"none", "count"}
<1> DEFINE h == handler[s][e]
<1>1. HandlerOk(s, e) /\ h \in Handlers
    BY EndFacts, HandlerFacts DEF Typed, StreamOk, I, L
<1>2. h.round \in Nat /\ h.rounds \in Nat /\ 1 =< h.round /\ h.round =< h.rounds /\ s =< Len(asked)
    BY <1>1, RoundFacts DEF HandlerOk, Handlers
<1>3. CASE handler'[s][e] = After(h)
  <2>1. /\ After(h).at \in {"round", "finish"} /\ After(h).rounds = h.rounds
        /\ After(h).at = "round" => After(h).round = h.round + 1 /\ h.round < h.rounds
      BY <1>1, AfterFacts
  <2> QED BY <1>2, <1>3, <2>1 DEF HandlerOk
<1>4. CASE handler'[s][e] = [h EXCEPT !.at = "panicked"]
  <2>1. handler'[s][e].at = "panicked"
      BY <1>1, <1>4 DEF Handlers
  <2> QED BY <1>2, <2>1 DEF HandlerOk
<1>5. CASE handler'[s][e] = [h EXCEPT !.at = "wait"]
  <2>1. handler'[s][e].at = "wait" /\ handler'[s][e].round = h.round
        /\ handler'[s][e].rounds = h.rounds
      BY <1>1, <1>5 DEF Handlers
  <2> QED BY <1>2, <2>1 DEF HandlerOk
<1> QED BY <1>3, <1>4, <1>5

(* A ping goes out with the size of a full set.                            *)
LEMMA BeginsTyped ==
    ASSUME Typed, NEW s \in Streams, Begins(s)
    PROVE  Typed'
<1> DEFINE h == handler[s][I]
           f == CodedSet("ping", h.round, Chunks)
<1>1. TypeOK /\ StreamOk(s) /\ I \in Ends /\ L \in Ends /\ I # L
    BY EndFacts DEF Typed, I, L
<1>2. /\ TypeOK' /\ Local(s) /\ h.at = "round" /\ h.round \in 1..MaxRound
      /\ handler'[s][L] = handler[s][L] /\ chan'[s][I] = chan[s][I]
      /\ handler'[s][I] \in {After(h), [h EXCEPT !.at = "wait"]}
      /\ chan'[s][L] \in {chan[s][L], chan[s][L] \o f}
    BY BeginsDoes
<1>3. asked' = asked /\ setting' = setting
    BY <1>2 DEF Local, node
<1>4. HandlerOk(s, L)'
    BY <1>1, <1>2, <1>3 DEF StreamOk, HandlerOk
<1>5. HandlerOk(s, I)' /\ handler'[s][I].at \notin {"none", "count"}
    BY <1>1, <1>2, <1>3, AfterOk
<1>6. ChansOk(s)'
  <2>1. \A i \in DOMAIN chan'[s][I] : Pong(chan[s][I][i])'
      BY <1>1, <1>2, <1>3 DEF StreamOk, ChansOk, Pong
  <2>2. chan[s][L] \in Seq(WireFrames)
      BY <1>1, HandlerFacts
  <2>3. /\ f \in Seq(WireFrames)
        /\ \A i \in DOMAIN f : f[i] = Frame("ping", h.round, IF setting.rlnc THEN Chunks ELSE 1)
    <3>1. Chunks \in 1..Chunks
        BY ChunkFacts
    <3> QED BY <1>1, <1>2, <3>1, CodedSetFacts
  <2>4. \A i \in DOMAIN f : Ping(f[i])
      BY <1>2, <2>3, RoundFacts DEF Ping, Frame
  <2> HIDE DEF f
  <2>5. ASSUME NEW i \in DOMAIN chan'[s][L]
        PROVE  Ping(chan[s][L][i])' \/ Count(s, i)'
    <3>1. \/ i \in DOMAIN chan[s][L] /\ chan'[s][L][i] = chan[s][L][i]
          \/ i - Len(chan[s][L]) \in DOMAIN f /\ chan'[s][L][i] = f[i - Len(chan[s][L])]
      <4> DEFINE q == chan[s][L]
      <4>1. CASE chan'[s][L] = q
          BY <4>1
      <4>2. CASE chan'[s][L] = q \o f
        <5>1. \A k \in DOMAIN (q \o f) :
                \/ k \in DOMAIN q /\ (q \o f)[k] = q[k]
                \/ k - Len(q) \in DOMAIN f /\ (q \o f)[k] = f[k - Len(q)]
            BY <2>2, <2>3, ConcatFacts
        <5> QED BY <4>2, <5>1
      <4> QED BY <1>2, <4>1, <4>2
    <3>2. CASE i \in DOMAIN chan[s][L] /\ chan'[s][L][i] = chan[s][L][i]
      <4>1. Ping(chan[s][L][i]) \/ Count(s, i)
          BY <1>1, <3>2 DEF StreamOk, ChansOk
      <4> QED BY <1>2, <1>3, <1>5, <3>2, <4>1 DEF Ping, Count
    <3>3. CASE i - Len(chan[s][L]) \in DOMAIN f /\ chan'[s][L][i] = f[i - Len(chan[s][L])]
        BY <1>3, <2>4, <3>3 DEF Ping
    <3> QED BY <3>1, <3>2, <3>3
  <2> QED BY <1>5, <2>1, <2>5 DEF ChansOk
<1>7. StreamOk(s)'
    BY <1>4, <1>5, <1>6 DEF StreamOk
<1> QED BY <1>1, <1>2, <1>7, LocalTyped

(* Taking a frame leaves the frames behind it.                             *)
LEMMA InitiatorReadsTyped ==
    ASSUME Typed, NEW s \in Streams, Reads(s, I)
    PROVE  Typed'
<1> DEFINE h == handler[s][I]
           q == chan[s][I]
<1>1. TypeOK /\ StreamOk(s) /\ I \in Ends /\ L \in Ends /\ I # L /\ \A e \in Ends : e = I \/ e = L
    BY EndFacts DEF Typed, I, L
<1>2. /\ TypeOK' /\ Local(s) /\ handler'[s][L] = handler[s][L] /\ chan'[s][L] = chan[s][L]
      /\ chan'[s][I] = Tail(q) /\ handler'[s][I] \in {h, After(h)}
    BY InitiatorReadsDoes
<1>3. asked' = asked /\ setting' = setting /\ down' = down
    BY <1>2 DEF Local, node
<1>4. q \in Seq(WireFrames) /\ q # <<>> /\ h.at = "wait"
    BY <1>1, ReadsTakes
<1>5. HandlerOk(s, L)'
    BY <1>1, <1>2, <1>3 DEF StreamOk, HandlerOk
<1>6. HandlerOk(s, I)' /\ handler'[s][I].at \notin {"none", "count"}
  <2>1. CASE handler'[s][I] = h
      BY <1>1, <1>3, <1>4, <2>1 DEF StreamOk, HandlerOk
  <2>2. CASE handler'[s][I] = After(h)
      BY <1>1, <1>2, <1>3, <1>4, <2>2, AfterOk
  <2> QED BY <1>2, <2>1, <2>2
<1>7. \A e \in Ends : Within(chan'[s][e], chan[s][e])
  <2>1. Within(Tail(q), q)
      BY <1>4, HeadFacts
  <2>2. Within(chan[s][L], chan[s][L])
      BY <1>1, HandlerFacts, WithinSelf
  <2> QED BY <1>1, <1>2, <2>1, <2>2
<1>8. ChansOk(s)'
  <2>1. ChansOk(s)
      BY <1>1 DEF StreamOk
  <2>2. \A e \in Ends : \/ handler'[s][e].at = handler[s][e].at
                        \/ /\ handler[s][e].at \notin {"none", "count"}
                           /\ handler'[s][e].at \notin {"none", "count"}
      BY <1>1, <1>2, <1>4, <1>6
  <2> QED BY <1>1, <1>2, <1>3, <1>7, <2>1, <2>2, ShrinkChans
<1>9. StreamOk(s)'
    BY <1>5, <1>6, <1>8 DEF StreamOk
<1> QED BY <1>1, <1>2, <1>4, <1>9, LocalTyped

(* An answer goes out with one frame fewer than the set.                   *)
LEMMA ListenerReadsTyped ==
    ASSUME Typed, NEW s \in Streams, Reads(s, L)
    PROVE  Typed'
<1> DEFINE h == handler[s][L]
           q == chan[s][L]
           f == q[1]
           a == Answer(s, f)
<1>1. TypeOK /\ StreamOk(s) /\ I \in Ends /\ L \in Ends /\ I # L /\ \A e \in Ends : e = I \/ e = L
    BY EndFacts DEF Typed, I, L
<1>2. /\ TypeOK' /\ Local(s) /\ handler'[s][I] = handler[s][I] /\ chan'[s][L] = Tail(q)
      /\ handler'[s][L] \in {h, After(h), [h EXCEPT !.at = "panicked"]}
      /\ chan'[s][I] \in {chan[s][I], chan[s][I] \o a}
    BY ListenerReadsDoes
<1>3. asked' = asked /\ setting' = setting /\ down' = down
    BY <1>2 DEF Local, node
<1>4. /\ q \in Seq(WireFrames) /\ q # <<>> /\ h.at = "round" /\ Ping(f) /\ f.of \in 1..MaxRound
      /\ 1 \in DOMAIN q
    BY <1>1, ReadsTakes
<1>5. HandlerOk(s, I)'
    BY <1>1, <1>2, <1>3 DEF StreamOk, HandlerOk
<1>6. HandlerOk(s, L)'
  <2>1. CASE handler'[s][L] = h
      BY <1>1, <1>3, <1>4, <2>1 DEF StreamOk, HandlerOk
  <2>2. CASE handler'[s][L] \in {After(h), [h EXCEPT !.at = "panicked"]}
      BY <1>1, <1>2, <1>3, <1>4, <2>2, AfterOk
  <2> QED BY <1>2, <2>1, <2>2
<1>7. ChansOk(s)'
  <2>1. a \in Seq(WireFrames) /\ \A i \in DOMAIN a : Pong(a[i])
    <3>1. /\ a \in Seq(WireFrames)
          /\ \A i \in DOMAIN a : a[i] = Frame("pong", f.of, IF setting.rlnc THEN Chunks - 1 ELSE 1)
        BY <1>1, <1>4, AnswerFacts
    <3> QED BY <1>4, <3>1 DEF Pong, Ping, Frame
  <2>2. chan[s][I] \in Seq(WireFrames) /\ \A i \in DOMAIN chan[s][I] : Pong(chan[s][I][i])
      BY <1>1, HandlerFacts DEF StreamOk, ChansOk
  <2> HIDE DEF a
  <2>3. ASSUME NEW i \in DOMAIN chan'[s][I]
        PROVE  Pong(chan[s][I][i])'
    <3> DEFINE p == chan[s][I]
    <3>1. CASE chan'[s][I] = p
        BY <1>3, <2>2, <3>1 DEF Pong
    <3>2. CASE chan'[s][I] = p \o a
      <4>1. \A k \in DOMAIN (p \o a) : \/ k \in DOMAIN p /\ (p \o a)[k] = p[k]
                                       \/ k - Len(p) \in DOMAIN a /\ (p \o a)[k] = a[k - Len(p)]
          BY <2>1, <2>2, ConcatFacts
      <4>2. \E f1 \in WireFrames : Pong(f1) /\ chan'[s][I][i] = f1
        <5>1. CASE i \in DOMAIN p /\ (p \o a)[i] = p[i]
            BY <2>2, <3>2, <5>1
        <5>2. CASE i - Len(p) \in DOMAIN a /\ (p \o a)[i] = a[i - Len(p)]
            BY <2>1, <3>2, <5>2
        <5> QED BY <3>2, <4>1, <5>1, <5>2
      <4> QED BY <1>3, <4>2 DEF Pong
    <3> QED BY <1>2, <3>1, <3>2
  <2>4. ASSUME NEW i \in DOMAIN chan'[s][L]
        PROVE  Ping(chan[s][L][i])'
    <3>1. PICK j \in DOMAIN q : chan'[s][L][i] = q[j]
        BY <1>2, <1>4, HeadFacts DEF Within
    <3>2. Ping(q[j])
        BY <1>1, <1>4 DEF StreamOk, ChansOk, Count
    <3> QED BY <1>3, <3>1, <3>2 DEF Ping
  <2>5. handler'[s][I].at \notin {"none", "count"}
      BY <1>1, <1>2, <1>4 DEF StreamOk, ChansOk
  <2> QED BY <2>3, <2>4, <2>5 DEF ChansOk
<1>8. StreamOk(s)'
    BY <1>5, <1>6, <1>7 DEF StreamOk
<1> QED BY <1>1, <1>2, <1>4, <1>8, LocalTyped

(* A handler that fails, ends, or loses what is on its way to it.           *)
LEMMA EndsDoes ==
    ASSUME Typed, NEW s \in Streams, NEW e \in Ends,
           ReadFails(s, e) \/ TimesOut(s, e) \/ Finishes(s, e) \/ Closes(s, e) \/ Loses(s, e)
    PROVE  LET h == handler[s][e]
               g == handler'[s][e] IN
           /\ TypeOK' /\ Local(s) /\ \A x \in Ends : x # e => handler'[s][x] = handler[s][x]
           /\ \A x \in Ends : Within(chan'[s][x], chan[s][x])
           /\ \/ h.at \in {"wait", "round"} /\ g \in {After(h), [h EXCEPT !.at = "panicked"]}
              \/ /\ h.at = "finish"
                 /\ g \in {[h EXCEPT !.at = "panicked"], [h EXCEPT !.at = "closing"]}
              \/ h.at = "closing" /\ g = [h EXCEPT !.at = "closed"]
              \/ handler' = handler
           /\ cache' = cache /\ rtts' = rtts
           /\ disturbed'[s].late = {} => disturbed[s].late = {}
<1> DEFINE h == handler[s][e]
           g == handler'[s][e]
<1>1. \A x \in Ends : Within(chan[s][x], chan[s][x])
    BY HandlerFacts, WithinSelf DEF Typed
<1>2. CASE ReadFails(s, e)
    BY <1>1, <1>2, ReadFailsDoes
<1>3. CASE TimesOut(s, e)
    BY <1>1, <1>3, TimesOutDoes
<1>4. CASE Finishes(s, e)
  <2>1. /\ TypeOK' /\ Local(s) /\ h.at = "finish"
        /\ \A x \in Ends : x # e => handler'[s][x] = handler[s][x] /\ chan'[s][x] = chan[s][x]
        /\ cache' = cache /\ rtts' = rtts /\ disturbed' = disturbed
        /\ g = [h EXCEPT !.at = IF down[e] THEN "panicked" ELSE "closing"]
        /\ Within(chan'[s][e], chan[s][e])
      BY <1>4, FinishesDoes
  <2>2. g \in {[h EXCEPT !.at = "panicked"], [h EXCEPT !.at = "closing"]}
      BY <2>1
  <2> QED BY <1>1, <2>1, <2>2
<1>5. CASE Closes(s, e)
  <2>1. /\ TypeOK' /\ Local(s) /\ h.at = "closing"
        /\ \A x \in Ends : x # e => handler'[s][x] = handler[s][x] /\ chan'[s][x] = chan[s][x]
        /\ cache' = cache /\ rtts' = rtts /\ disturbed' = disturbed
        /\ g = [h EXCEPT !.at = "closed"] /\ Within(chan'[s][e], chan[s][e])
      BY <1>5, ClosesDoes
  <2> QED BY <1>1, <2>1
<1>6. CASE Loses(s, e)
    BY <1>1, <1>6, LosesDoes
<1> QED BY <1>2, <1>3, <1>4, <1>5, <1>6

(* A handler that ends leaves the queues as they are, or shorter.          *)
LEMMA EndsTyped ==
    ASSUME Typed, NEW s \in Streams, NEW e \in Ends,
           ReadFails(s, e) \/ TimesOut(s, e) \/ Finishes(s, e) \/ Closes(s, e) \/ Loses(s, e)
    PROVE  Typed'
<1> DEFINE h == handler[s][e]
           g == handler'[s][e]
<1>1. TypeOK /\ StreamOk(s) /\ I \in Ends /\ L \in Ends /\ \A x \in Ends : x = I \/ x = L
    BY EndFacts DEF Typed, I, L
<1>2. /\ TypeOK' /\ Local(s) /\ \A x \in Ends : x # e => handler'[s][x] = handler[s][x]
      /\ \A x \in Ends : Within(chan'[s][x], chan[s][x])
      /\ \/ h.at \in {"wait", "round"} /\ g \in {After(h), [h EXCEPT !.at = "panicked"]}
         \/ h.at = "finish" /\ g \in {[h EXCEPT !.at = "panicked"], [h EXCEPT !.at = "closing"]}
         \/ h.at = "closing" /\ g = [h EXCEPT !.at = "closed"]
         \/ handler' = handler
    BY EndsDoes
<1>3. asked' = asked /\ setting' = setting /\ down' = down
    BY <1>2 DEF Local, node
<1>4. HandlerOk(s, e) /\ h \in Handlers
    BY <1>1, HandlerFacts DEF StreamOk
<1>5. /\ HandlerOk(s, e)'
      /\ g.at = h.at \/ (h.at \notin {"none", "count"} /\ g.at \notin {"none", "count"})
  <2>1. CASE h.at \in {"wait", "round"} /\ g \in {After(h), [h EXCEPT !.at = "panicked"]}
      BY <1>2, <1>3, <2>1, AfterOk
  <2>2. CASE /\ h.at \in {"finish", "closing"}
             /\ g \in {[h EXCEPT !.at = "panicked"], [h EXCEPT !.at = "closing"],
                       [h EXCEPT !.at = "closed"]}
    <3>1. g.at \in {"panicked", "closing", "closed"}
        BY <1>4, <2>2 DEF Handlers
    <3> QED BY <1>3, <1>4, <2>2, <3>1 DEF HandlerOk
  <2>3. CASE handler' = handler
      BY <1>3, <1>4, <2>3 DEF HandlerOk
  <2> QED BY <1>2, <2>1, <2>2, <2>3
<1>6. \A x \in Ends : HandlerOk(s, x)'
  <2> TAKE x \in Ends
  <2>1. CASE x = e
      BY <1>5, <2>1
  <2>2. CASE x # e
      BY <1>1, <1>2, <1>3, <2>2 DEF StreamOk, HandlerOk
  <2> QED BY <2>1, <2>2
<1>7. ChansOk(s)'
  <2>1. ChansOk(s)
      BY <1>1 DEF StreamOk
  <2>2. \A x \in Ends : \/ handler'[s][x].at = handler[s][x].at
                        \/ /\ handler[s][x].at \notin {"none", "count"}
                           /\ handler'[s][x].at \notin {"none", "count"}
      BY <1>2, <1>5
  <2> QED BY <1>1, <1>2, <1>3, <2>1, <2>2, ShrinkChans
<1>8. StreamOk(s)'
    BY <1>1, <1>6, <1>7 DEF StreamOk
<1> QED BY <1>2, <1>8, LocalTyped

(* A call adds its number of pings at the end of the list.                 *)
LEMMA PingCallTyped ==
    ASSUME Typed, PingCall
    PROVE  Typed'
<1>1. /\ TypeOK' /\ UNCHANGED <<setting, handler, chan, cache, rtts, down, disturbed>>
      /\ asked \in Seq(Asks) /\ notification \in Seq(Streams) /\ Len(asked) \in Nat
      /\ count' \in Asks /\ asked' = Append(asked, count') /\ Len(asked) + 1 \in Streams
      /\ notification' = Append(notification, Len(asked) + 1)
    BY PingCallDoes
<1>2. TypeOK /\ CallsInOrder /\ \A s \in Streams : StreamOk(s)
    BY DEF Typed
<1> DEFINE n == Len(asked) + 1
<1>3. Len(asked') = n /\ asked'[n] = count' /\ n \in Nat
    BY <1>1
<1>4. ASSUME NEW s \in Streams
      PROVE  StreamOk(s)'
  <2>1. s \in Nat /\ StreamOk(s)
      BY <1>2, RoundFacts
  <2>2. s =< Len(asked) => s =< Len(asked')
      BY <1>1, <1>3, <2>1
  <2>3. HandlerOk(s, I)' /\ HandlerOk(s, L)'
      BY <1>1, <2>1, <2>2 DEF StreamOk, HandlerOk
  <2>4. ChansOk(s)'
      BY <1>1, <2>1 DEF StreamOk, ChansOk, Ping, Pong, Count
  <2> QED BY <2>3, <2>4 DEF StreamOk
<1>5. \A e \in Ends : handler[n][e].at = "none"
  <2>1. ASSUME NEW e \in Ends
        PROVE  handler[n][e].at = "none"
    <3>1. HandlerOk(n, e)
        BY <1>1, <1>2, EndFacts DEF StreamOk, I, L
    <3>2. ~(n =< Len(asked))
        BY <1>1
    <3> QED BY <3>1, <3>2 DEF HandlerOk
  <2> QED BY <2>1
<1>6. CallsInOrder'
  <2>1. asked' # <<>> => count' = asked'[Len(asked')]
      BY <1>3
  <2>2. /\ DOMAIN notification' = DOMAIN notification \cup {Len(notification) + 1}
        /\ \A i \in DOMAIN notification : notification'[i] = notification[i]
        /\ notification'[Len(notification) + 1] = n
      BY <1>1
  <2>3. \A i \in DOMAIN notification : notification[i] \in Nat /\ notification[i] =< Len(asked)
    <3>1. \A i \in DOMAIN notification : notification[i] \in Streams
        BY <1>1
    <3> QED BY <1>2, <3>1, RoundFacts DEF CallsInOrder
  <2>4. \A i \in DOMAIN notification : notification[i] =< n /\ notification[i] # n
      BY <1>1, <2>3
  <2> HIDE DEF n
  <2>5. ASSUME NEW i \in DOMAIN notification'
        PROVE  /\ notification'[i] =< Len(asked')
               /\ \A e \in Ends : handler'[notification'[i]][e].at = "none"
    <3>1. CASE i \in DOMAIN notification
        BY <1>1, <1>2, <1>3, <2>2, <2>4, <3>1 DEF CallsInOrder
    <3>2. CASE i = Len(notification) + 1
        BY <1>1, <1>3, <1>5, <2>2, <3>2
    <3> QED BY <2>2, <3>1, <3>2
  <2>6. ASSUME NEW i \in DOMAIN notification', NEW j \in DOMAIN notification',
               notification'[i] = notification'[j]
        PROVE  i = j
      BY <1>2, <2>2, <2>4, <2>6 DEF CallsInOrder
  <2> QED BY <2>1, <2>5, <2>6 DEF CallsInOrder
<1> QED BY <1>1, <1>4, <1>6 DEF Typed

(* A stream opens with no frame in either queue.                           *)
LEMMA OpenStreamTyped ==
    ASSUME Typed, OpenStream
    PROVE  Typed'
<1>1. PICK s \in Streams :
        /\ TypeOK' /\ notification \in Seq(Streams) /\ s = notification[1]
        /\ 1 \in DOMAIN notification /\ notification' = Tail(notification)
        /\ UNCHANGED <<setting, count, asked, chan, cache, rtts, down, disturbed>>
        /\ \A e \in Ends : /\ handler[s][e].at = "none"
                           /\ handler'[s][e] = [Idle EXCEPT !.at = "count"]
        /\ \A t \in Streams : t # s => handler'[t] = handler[t]
    BY OpenStreamDoes
<1>2. CallsInOrder /\ \A t \in Streams : StreamOk(t)
    BY DEF Typed
<1>3. I \in Ends /\ L \in Ends
    BY EndFacts DEF I, L
<1>4. ASSUME NEW t \in Streams
      PROVE  StreamOk(t)'
  <2>1. CASE t # s
      BY <1>1, <1>2, <2>1 DEF StreamOk, HandlerOk, ChansOk, Ping, Pong, Count
  <2>2. CASE t = s
    <3>1. s =< Len(asked)
        BY <1>1, <1>2 DEF CallsInOrder
    <3>2. \A e \in Ends : handler'[s][e].at = "count" /\ HandlerOk(s, e)'
        BY <1>1, <3>1, IdleFacts DEF HandlerOk
    <3>3. chan[s][L] = <<>> /\ \A i \in DOMAIN chan[s][I] : Pong(chan[s][I][i])
        BY <1>1, <1>2, <1>3 DEF StreamOk, ChansOk
    <3>4. ChansOk(s)'
        BY <1>1, <1>3, <3>2, <3>3 DEF ChansOk, Pong
    <3> QED BY <1>3, <2>2, <3>2, <3>4 DEF StreamOk
  <2> QED BY <2>1, <2>2
<1>5. CallsInOrder'
  <2>1. /\ Len(notification) \in Nat /\ notification # <<>>
        /\ DOMAIN notification = 1..Len(notification)
      BY <1>1
  <2>2. DOMAIN notification' = 1..(Len(notification) - 1)
      BY <1>1, <2>1
  <2>3. \A i \in DOMAIN notification' : /\ notification'[i] = notification[i + 1]
                                        /\ i + 1 \in DOMAIN notification /\ i + 1 # 1
      BY <1>1, <2>1, <2>2
  <2>4. ASSUME NEW i \in DOMAIN notification'
        PROVE  /\ notification'[i] =< Len(asked')
               /\ \A e \in Ends : handler'[notification'[i]][e].at = "none"
    <3>1. notification[i + 1] # s /\ notification[i + 1] \in Streams
        BY <1>1, <1>2, <2>3 DEF CallsInOrder
    <3> QED BY <1>1, <1>2, <2>3, <3>1 DEF CallsInOrder
  <2>5. ASSUME NEW i \in DOMAIN notification', NEW j \in DOMAIN notification',
               notification'[i] = notification'[j]
        PROVE  i = j
    <3>1. i + 1 = j + 1
        BY <1>2, <2>3, <2>5 DEF CallsInOrder
    <3> QED BY <2>1, <2>2, <3>1
  <2> QED BY <1>1, <1>2, <2>4, <2>5 DEF CallsInOrder
<1> QED BY <1>1, <1>4, <1>5 DEF Typed

(* A connection that goes down leaves the streams of the other end.        *)
LEMMA GoneTyped ==
    ASSUME Typed, (\E s \in Streams, e \in Ends : MuxerPanics(s, e)) \/ Breaks
    PROVE  Typed'
<1>1. /\ TypeOK' /\ UNCHANGED <<node, handler>> /\ \A x \in Ends : down[x] => down'[x]
      /\ \A s \in Streams, x \in Ends : Within(chan'[s][x], chan[s][x])
    BY GoneDoes
<1>2. TypeOK /\ CallsInOrder /\ \A s \in Streams : StreamOk(s)
    BY DEF Typed
<1>3. ASSUME NEW s \in Streams
      PROVE  StreamOk(s)'
  <2>1. HandlerOk(s, I)' /\ HandlerOk(s, L)'
      BY <1>1, <1>2 DEF StreamOk, HandlerOk, node
  <2>2. setting' = setting /\ ChansOk(s)
      BY <1>1, <1>2 DEF StreamOk, node
  <2>3. ChansOk(s)'
      BY <1>1, <1>2, <2>2, ShrinkChans
  <2> QED BY <2>1, <2>3 DEF StreamOk
<1>4. CallsInOrder'
    BY <1>1, <1>2 DEF CallsInOrder, node
<1> QED BY <1>1, <1>3, <1>4 DEF Typed

(* The first state is typed: no call, no stream, no frame.                 *)
LEMMA InitTyped == Init => Typed
<1> SUFFICES ASSUME Init
             PROVE  Typed
    OBVIOUS
<1>1. I \in Ends /\ L \in Ends
    BY EndFacts DEF I, L
<1>2. /\ \A s \in Streams, e \in Ends : /\ handler[s][e] = Idle /\ chan[s][e] = <<>>
      /\ asked = <<>> /\ notification = <<>>
    BY DEF Init
<1>3. TypeOK
  <2>1. handler \in [Streams -> [Ends -> Handlers]]
      BY IdleFacts DEF Init
  <2>2. chan \in [Streams -> [Ends -> Seq(WireFrames)]]
      BY DEF Init
  <2>3. cache \in [Streams -> [Ends -> [1..MaxRound -> 0..Chunks]]]
    <3>1. 0 \in 0..Chunks
        BY ChunkFacts
    <3> QED BY <3>1 DEF Init
  <2>4. /\ rtts \in [Streams -> Seq([round : 0..MaxRound, of : 0..MaxRound])]
        /\ reported \in [Streams -> Nat] /\ \A s \in Streams : reported[s] =< Len(rtts[s])
      BY DEF Init
  <2>5. /\ setting \in Settings /\ count \in Nat /\ asked \in Seq(Asks)
        /\ notification \in Seq(Streams) /\ down \in [Ends -> BOOLEAN]
      BY DEF Init
  <2>6. disturbed \in [Streams -> [lost : BOOLEAN, late : SUBSET Ends, broken : BOOLEAN]]
      BY DEF Init
  <2> QED BY <2>1, <2>2, <2>3, <2>4, <2>5, <2>6 DEF TypeOK
<1>4. ASSUME NEW s \in Streams
      PROVE  StreamOk(s)
  <2>1. HandlerOk(s, I) /\ HandlerOk(s, L)
      BY <1>1, <1>2, IdleFacts DEF HandlerOk
  <2>2. ChansOk(s)
      BY <1>1, <1>2 DEF ChansOk
  <2> QED BY <2>1, <2>2 DEF StreamOk
<1>5. CallsInOrder
    BY <1>2 DEF CallsInOrder
<1> QED BY <1>3, <1>4, <1>5 DEF Typed

(* A step that changes nothing keeps the invariant.                        *)
LEMMA StutterTyped ==
    ASSUME Typed, UNCHANGED vars
    PROVE  Typed'
<1>1. TypeOK' /\ CallsInOrder'
    BY DEF Typed, TypeOK, CallsInOrder, vars
<1>2. \A s \in Streams : StreamOk(s)'
    BY DEF Typed, vars, StreamOk, HandlerOk, ChansOk, Ping, Pong, Count
<1> QED BY <1>1, <1>2 DEF Typed

(* A step is of the node, of a stream, or ends a connection task.           *)
LEMMA Steps ==
    ASSUME Next
    PROVE  \/ PingCall \/ OpenStream
           \/ (\E s \in Streams, e \in Ends : MuxerPanics(s, e)) \/ Breaks
           \/ \E s \in Streams : InitiatorStarts(s) \/ ListenerStarts(s) \/ Begins(s)
                                  \/ Reads(s, I) \/ Reads(s, L)
           \/ \E s \in Streams, e \in Ends :
                ReadFails(s, e) \/ TimesOut(s, e) \/ Finishes(s, e) \/ Closes(s, e) \/ Loses(s, e)
<1>1. \A e \in Ends : e = I \/ e = L
    BY EndFacts DEF I, L
<1> QED BY <1>1 DEF Next, HandlerStep

(* Every step keeps the invariant.                                         *)
LEMMA NextTyped ==
    ASSUME Typed, [Next]_vars
    PROVE  Typed'
<1>1. CASE Next
  <2>1. CASE PingCall \/ OpenStream
      BY <2>1, PingCallTyped, OpenStreamTyped
  <2>2. CASE (\E s \in Streams, e \in Ends : MuxerPanics(s, e)) \/ Breaks
      BY <2>2, GoneTyped
  <2>3. CASE \E s \in Streams : InitiatorStarts(s) \/ ListenerStarts(s) \/ Begins(s)
                                 \/ Reads(s, I) \/ Reads(s, L)
      BY <2>3, InitiatorStartsTyped, ListenerStartsTyped, BeginsTyped, InitiatorReadsTyped,
         ListenerReadsTyped
  <2>4. CASE \E s \in Streams, e \in Ends :
               ReadFails(s, e) \/ TimesOut(s, e) \/ Finishes(s, e) \/ Closes(s, e) \/ Loses(s, e)
      BY <2>4, EndsTyped
  <2> QED BY <1>1, <2>1, <2>2, <2>3, <2>4, Steps
<1>2. CASE UNCHANGED vars
    BY <1>2, StutterTyped
<1> QED BY <1>1, <1>2

(* The types of Ping: what a coded frame counts for is a round, the cache   *)
(* of a set never holds more frames than its chunks, and no more is reported *)
(* than measured, whatever the network does (handle_incoming, handle_ping). *)
THEOREM TypeCorrect == Spec => []TypeOK
<1>1. Typed => TypeOK
    BY DEF Typed
<1> QED BY <1>1, InitTyped, NextTyped, PTL DEF Spec

-----------------------------------------------------------------------------
(* The rounds of a stream. *)

CurrentOk(s) == LET h == handler[s][I] IN
    h.at \notin {"none", "count"} /\ h.rounds > 0 =>
        \E c \in s..Len(asked) :
            IF asked[c] = 0 THEN h.forever ELSE ~h.forever /\ h.rounds = asked[c]

(* The initiator of a stream starts once; its rounds stay what they were.   *)
KeepsRounds(s) == LET h == handler[s][I]
                      g == handler'[s][I] IN
    \/ g = h
    \/ h.at \notin {"none", "count"} /\ g.rounds = h.rounds /\ g.forever = h.forever

(* Every action but the start keeps the rounds a handler has taken on.     *)
LEMMA RoundsKept ==
    ASSUME Typed, NEW s \in Streams,
           \/ ListenerStarts(s) \/ Begins(s) \/ Reads(s, I) \/ Reads(s, L)
           \/ \E e \in Ends : ReadFails(s, e) \/ TimesOut(s, e) \/ Finishes(s, e) \/ Closes(s, e)
                               \/ Loses(s, e)
    PROVE  Local(s) /\ KeepsRounds(s)
<1> DEFINE h == handler[s][I]
           g == handler'[s][I]
<1>1. I \in Ends /\ L \in Ends /\ h \in Handlers
    BY EndFacts, HandlerFacts DEF Typed, I, L
<1>2. /\ After(h).rounds = h.rounds /\ After(h).forever = h.forever
      /\ \A label \in Labels : /\ [h EXCEPT !.at = label].rounds = h.rounds
                               /\ [h EXCEPT !.at = label].forever = h.forever
    BY <1>1, AfterFacts DEF Handlers
<1>3. CASE ListenerStarts(s)
    BY <1>3, ListenerStartsDoes DEF KeepsRounds
<1>4. CASE Begins(s)
  <2>1. Local(s) /\ h.at = "round" /\ g \in {After(h), [h EXCEPT !.at = "wait"]}
      BY <1>4, BeginsDoes
  <2> QED BY <1>2, <2>1 DEF KeepsRounds, Labels
<1>5. CASE Reads(s, I)
  <2>1. Local(s) /\ h.at = "wait" /\ g \in {After(h), h}
      BY <1>1, <1>5, InitiatorReadsDoes, ReadsTakes
  <2> QED BY <1>2, <2>1 DEF KeepsRounds
<1>6. CASE Reads(s, L)
    BY <1>6, ListenerReadsDoes DEF KeepsRounds
<1>7. CASE \E e \in Ends : ReadFails(s, e) \/ TimesOut(s, e) \/ Finishes(s, e) \/ Closes(s, e)
                            \/ Loses(s, e)
  <2>1. PICK e \in Ends :
          /\ Local(s) /\ \A x \in Ends : x # e => handler'[s][x] = handler[s][x]
          /\ \/ /\ handler[s][e].at \in {"wait", "round"}
                /\ handler'[s][e] \in {After(handler[s][e]),
                                       [handler[s][e] EXCEPT !.at = "panicked"]}
             \/ /\ handler[s][e].at = "finish"
                /\ handler'[s][e] \in {[handler[s][e] EXCEPT !.at = "panicked"],
                                       [handler[s][e] EXCEPT !.at = "closing"]}
             \/ /\ handler[s][e].at = "closing"
                /\ handler'[s][e] = [handler[s][e] EXCEPT !.at = "closed"]
             \/ handler' = handler
      BY <1>7, EndsDoes
  <2>2. CASE e = I
      BY <1>2, <2>1, <2>2 DEF KeepsRounds, Labels
  <2>3. CASE e # I
      BY <1>1, <2>1, <2>3 DEF KeepsRounds
  <2> QED BY <2>1, <2>2, <2>3
<1> QED BY <1>3, <1>4, <1>5, <1>6, <1>7

(* The initiator starts with the count the node holds at that moment.      *)
LEMMA InitiatorStartsCurrent ==
    ASSUME Typed, NEW s \in Streams, InitiatorStarts(s)
    PROVE  Local(s) /\ CurrentOk(s)'
<1> DEFINE h == handler[s][I]
           g == handler'[s][I]
<1>1. h \in Handlers /\ HandlerOk(s, I) /\ asked \in Seq(Asks) /\ s \in Nat
    BY EndFacts, HandlerFacts, RoundFacts DEF Typed, TypeOK, StreamOk, I, L
<1>2. /\ Local(s) /\ h.at = "count" /\ count \in Asks /\ asked # <<>> /\ count = asked[Len(asked)]
      /\ g = [h EXCEPT !.at = "panicked"] \/ g = Starting(count)
    BY InitiatorStartsDoes
<1>3. asked' = asked
    BY <1>2 DEF Local, node
<1>4. CASE g = [h EXCEPT !.at = "panicked"]
  <2>1. h.rounds = 0
      BY <1>1, <1>2, IdleFacts DEF HandlerOk
  <2>2. g.rounds = 0
      BY <1>1, <1>4, <2>1 DEF Handlers
  <2> QED BY <1>2, <2>2 DEF CurrentOk
<1>5. CASE g = Starting(count)
  <2>1. s =< Len(asked) /\ Len(asked) \in Nat
      BY <1>1, <1>2 DEF HandlerOk
  <2>2. Len(asked) \in s..Len(asked)
      BY <1>1, <2>1
  <2>3. IF count = 0 THEN g.forever ELSE ~g.forever /\ g.rounds = count
    <3>1. g.forever = (count = 0) /\ g.rounds = IF count = 0 THEN Endless ELSE count
        BY <1>5 DEF Starting
    <3>2. CASE count = 0
        BY <3>1, <3>2
    <3>3. CASE count # 0
        BY <3>1, <3>3
    <3> QED BY <3>2, <3>3
  <2> QED BY <1>2, <1>3, <2>2, <2>3 DEF CurrentOk
<1> QED BY <1>2, <1>4, <1>5

(* Every step keeps each handler at the count of a call.                   *)
LEMMA NextCurrent ==
    ASSUME Typed, \A s \in Streams : CurrentOk(s), [Next]_vars
    PROVE  \A s \in Streams : CurrentOk(s)'
<1>1. CASE UNCHANGED <<handler, asked>>
    BY <1>1 DEF CurrentOk
<1>2. CASE PingCall
  <2>1. /\ handler' = handler /\ asked \in Seq(Asks) /\ count' \in Asks /\ Len(asked) \in Nat
        /\ asked' = Append(asked, count')
      BY <1>2, PingCallDoes
  <2>2. ASSUME NEW s \in Streams
        PROVE  CurrentOk(s)'
    <3>1. s \in Nat \ {0}
        BY RoundFacts
    <3>2. \A c \in s..Len(asked) : c \in s..Len(asked') /\ asked'[c] = asked[c]
        BY <2>1, <3>1
    <3> QED BY <2>1, <3>2 DEF CurrentOk
  <2> QED BY <2>2
<1>3. CASE OpenStream
  <2>1. PICK s \in Streams :
          /\ asked' = asked /\ \A t \in Streams : t # s => handler'[t] = handler[t]
          /\ \A e \in Ends : handler'[s][e] = [Idle EXCEPT !.at = "count"]
      BY <1>3, OpenStreamDoes
  <2>2. handler'[s][I].at = "count"
      BY <2>1, EndFacts, IdleFacts DEF I
  <2>3. \A t \in Streams : t # s => CurrentOk(t)'
      BY <2>1 DEF CurrentOk
  <2>4. CurrentOk(s)'
      BY <2>2 DEF CurrentOk
  <2> QED BY <2>3, <2>4
<1>4. ASSUME NEW s \in Streams, Local(s), CurrentOk(s)'
      PROVE  \A t \in Streams : CurrentOk(t)'
  <2>1. asked' = asked /\ \A t \in Streams : t # s => handler'[t] = handler[t]
      BY <1>4 DEF Local, node
  <2>2. \A t \in Streams : t # s => CurrentOk(t)'
      BY <2>1 DEF CurrentOk
  <2> QED BY <1>4, <2>2
<1>5. ASSUME NEW s \in Streams, Local(s), KeepsRounds(s)
      PROVE  CurrentOk(s)'
    BY <1>5 DEF Local, node, CurrentOk, KeepsRounds
<1>6. CASE (\E s \in Streams, e \in Ends : MuxerPanics(s, e)) \/ Breaks
    BY <1>1, <1>6, GoneDoes DEF node
<1>7. CASE UNCHANGED vars
    BY <1>1, <1>7 DEF vars
<1> QED BY <1>2, <1>3, <1>4, <1>5, <1>6, <1>7, Steps, RoundsKept, InitiatorStartsCurrent

(* A ping stream runs the rounds its own call asked for or a later one did: *)
(* the field that the calls share (Node::ping) is read when the handler of  *)
(* the stream starts, so it may be another call's, but never an earlier one. *)
THEOREM RoundsOfACall == Spec => []CountIsCurrent
<1> DEFINE Inv == Typed /\ \A s \in Streams : CurrentOk(s)
<1>1. Init => Inv
  <2>1. Init => \A s \in Streams : CurrentOk(s)
    <3>1. Init => \A s \in Streams : handler[s][I].at = "none"
        BY EndFacts, IdleFacts DEF Init, I
    <3> QED BY <3>1 DEF CurrentOk
  <2> QED BY <2>1, InitTyped
<1>2. Inv /\ [Next]_vars => Inv'
    BY NextTyped, NextCurrent
<1>3. Inv => CountIsCurrent
    BY DEF CurrentOk, CountIsCurrent, Started, I
<1> QED BY <1>1, <1>2, <1>3, PTL DEF Spec

-----------------------------------------------------------------------------
(* The answers to a ping. *)

(* The initiator waits for the answer in this frame, or to this one.        *)
Due(s, f) == f.of = handler[s][I].round /\ handler[s][I].at = "wait"
DueNext(s, f) == f.of = handler'[s][I].round /\ handler'[s][I].at = "wait"

(* A coded pong is of the round waited for, or of a set the initiator has   *)
(* seen; it was sent for a set the listener has seen.  A coded ping is of   *)
(* the round waited for, or of a set the listener has seen.                 *)
CodedPongs(s) == setting.rlnc =>
    \A i \in DOMAIN chan[s][I] : LET f == chan[s][I][i] IN
        (Due(s, f) \/ cache[s][I][f.of] = Chunks - 1) /\ cache[s][L][f.of] = Chunks
CodedPings(s) == setting.rlnc /\ ~down[I] =>
    \A i \in DOMAIN chan[s][L] : LET f == chan[s][L][i] IN
        f.kind = "ping" => Due(s, f) \/ cache[s][L][f.of] = Chunks

(* Of plain frames there is one ping, the last one sent, or one pong.       *)
PlainPongs(s) == ~setting.rlnc =>
    Len(chan[s][I]) =< 1 /\ \A i \in DOMAIN chan[s][I] : Due(s, chan[s][I][i])
PlainPings(s) == ~setting.rlnc /\ ~down[I] =>
    \A i \in DOMAIN chan[s][L] : LET f == chan[s][L][i] IN
        f.kind = "ping" => Due(s, f) /\ i = Len(chan[s][L]) /\ chan[s][I] = <<>>

Measured(s) == \A k \in DOMAIN rtts[s] : rtts[s][k].of = rtts[s][k].round
Answers(s) == CodedPongs(s) /\ CodedPings(s) /\ PlainPongs(s) /\ PlainPings(s)
InRound(s) == disturbed[s].late = {} => Answers(s) /\ Measured(s)

(* Frames on their way may be lost or read while the initiator stays where  *)
(* it is, or when none of them was due.                                     *)
LEMMA ShrinkAnswers ==
    ASSUME TypeOK, TypeOK', NEW s \in Streams, Answers(s), setting' = setting,
           cache'[s] = cache[s], down[I] => down'[I],
           \A e \in Ends : Within(chan'[s][e], chan[s][e]),
           \/ handler'[s][I] = handler[s][I]
           \/ handler[s][I].at # "wait"
           \/ chan[s][I] = <<>> /\ down[I]
    PROVE  Answers(s)'
<1>1. I \in Ends /\ L \in Ends
    BY EndFacts DEF I, L
<1>2. \A e \in Ends : chan[s][e] \in Seq(WireFrames) /\ chan'[s][e] \in Seq(WireFrames)
    BY TypeFacts DEF TypeOK
<1>3. \A i \in DOMAIN chan'[s][I] : \E j \in DOMAIN chan[s][I] : chan'[s][I][i] = chan[s][I][j]
    BY <1>1 DEF Within
<1>4. \A i \in DOMAIN chan'[s][L] : \E j \in DOMAIN chan[s][L] :
        chan'[s][L][i] = chan[s][L][j] /\ (j = Len(chan[s][L]) => i = Len(chan'[s][L]))
    BY <1>1 DEF Within
<1>5. /\ Len(chan'[s][I]) \in Nat /\ Len(chan[s][I]) \in Nat
      /\ Len(chan'[s][I]) =< Len(chan[s][I])
    BY <1>1, <1>2 DEF Within
<1>6. chan[s][I] = <<>> => chan'[s][I] = <<>>
  <2>1. ASSUME chan[s][I] = <<>>
        PROVE  Len(chan'[s][I]) = 0
      BY <1>5, <2>1
  <2> QED BY <1>1, <1>2, <2>1, EmptySeq
<1>7. ASSUME NEW f, Due(s, f), chan[s][I] # <<>> \/ ~down[I]
      PROVE  DueNext(s, f)
    BY <1>7 DEF Due, DueNext
<1>8. \A i \in DOMAIN chan'[s][I] : chan[s][I] # <<>>
    BY <1>3
<1>9. CodedPongs(s)'
  <2> SUFFICES ASSUME setting.rlnc, NEW i \in DOMAIN chan'[s][I]
               PROVE  LET f == chan'[s][I][i] IN
                      /\ DueNext(s, f) \/ cache'[s][I][f.of] = Chunks - 1
                      /\ cache'[s][L][f.of] = Chunks
      BY DEF CodedPongs, Due, DueNext
  <2>1. PICK j \in DOMAIN chan[s][I] : chan'[s][I][i] = chan[s][I][j]
      BY <1>3
  <2> DEFINE f == chan[s][I][j]
  <2>2. (Due(s, f) \/ cache[s][I][f.of] = Chunks - 1) /\ cache[s][L][f.of] = Chunks
      BY DEF Answers, CodedPongs
  <2>3. Due(s, f) => DueNext(s, f)
      BY <1>7, <1>8
  <2> QED BY <2>1, <2>2, <2>3
<1>10. CodedPings(s)'
  <2> SUFFICES ASSUME setting.rlnc, ~down'[I], NEW i \in DOMAIN chan'[s][L],
                      chan'[s][L][i].kind = "ping"
               PROVE  LET f == chan'[s][L][i] IN DueNext(s, f) \/ cache'[s][L][f.of] = Chunks
      BY DEF CodedPings, Due, DueNext
  <2>1. PICK j \in DOMAIN chan[s][L] : chan'[s][L][i] = chan[s][L][j]
      BY <1>4
  <2> DEFINE f == chan[s][L][j]
  <2>2. Due(s, f) \/ cache[s][L][f.of] = Chunks
      BY <2>1 DEF Answers, CodedPings
  <2>3. Due(s, f) => DueNext(s, f)
      BY <1>7
  <2> QED BY <2>1, <2>2, <2>3
<1>11. PlainPongs(s)'
  <2> SUFFICES ASSUME ~setting.rlnc
               PROVE  /\ Len(chan'[s][I]) =< 1
                      /\ \A i \in DOMAIN chan'[s][I] : DueNext(s, chan'[s][I][i])
      BY DEF PlainPongs, Due, DueNext
  <2>1. Len(chan[s][I]) =< 1 /\ \A i \in DOMAIN chan[s][I] : Due(s, chan[s][I][i])
      BY DEF Answers, PlainPongs
  <2>2. ASSUME NEW i \in DOMAIN chan'[s][I]
        PROVE  DueNext(s, chan'[s][I][i])
    <3>1. PICK j \in DOMAIN chan[s][I] : chan'[s][I][i] = chan[s][I][j]
        BY <1>3
    <3>2. Due(s, chan[s][I][j])
        BY <2>1
    <3> QED BY <1>7, <1>8, <3>1, <3>2
  <2> QED BY <1>5, <2>1, <2>2
<1>12. PlainPings(s)'
  <2> SUFFICES ASSUME ~setting.rlnc, ~down'[I], NEW i \in DOMAIN chan'[s][L],
                      chan'[s][L][i].kind = "ping"
               PROVE  DueNext(s, chan'[s][L][i]) /\ i = Len(chan'[s][L]) /\ chan'[s][I] = <<>>
      BY DEF PlainPings, Due, DueNext
  <2>1. PICK j \in DOMAIN chan[s][L] :
          chan'[s][L][i] = chan[s][L][j] /\ (j = Len(chan[s][L]) => i = Len(chan'[s][L]))
      BY <1>4
  <2>2. Due(s, chan[s][L][j]) /\ j = Len(chan[s][L]) /\ chan[s][I] = <<>>
      BY <2>1 DEF Answers, PlainPings
  <2>3. i = Len(chan'[s][L]) /\ chan'[s][I] = <<>>
      BY <1>6, <2>1, <2>2
  <2>4. DueNext(s, chan[s][L][j])
      BY <1>7, <2>2
  <2> QED BY <2>1, <2>3, <2>4
<1> QED BY <1>9, <1>10, <1>11, <1>12 DEF Answers

(* The start puts no ping and no pong on the way.                          *)
LEMMA InitiatorStartsAnswers ==
    ASSUME Typed, NEW s \in Streams, InitiatorStarts(s), Answers(s)
    PROVE  Answers(s)'
<1>1. /\ handler[s][I].at = "count" /\ chan'[s][I] = chan[s][I] /\ cache' = cache
      /\ chan'[s][L] \in {chan[s][L], chan[s][L] \o <<Frame("count", count, 1)>>}
      /\ Local(s)
    BY InitiatorStartsDoes
<1>2. chan[s][L] = <<>>
    BY <1>1 DEF Typed, StreamOk, ChansOk
<1>3. \A i \in DOMAIN chan'[s][L] : chan'[s][L][i].kind # "ping"
  <2>1. chan'[s][L] \in {<<>>, <<Frame("count", count, 1)>>}
      BY <1>1, <1>2
  <2> QED BY <2>1 DEF Frame
<1>4. setting' = setting
    BY <1>1 DEF Local, node
<1>5. \A i \in DOMAIN chan[s][I] : ~Due(s, chan[s][I][i])
    BY <1>1 DEF Due
<1>6. CodedPongs(s)' /\ PlainPongs(s)'
    BY <1>1, <1>4, <1>5 DEF Answers, CodedPongs, PlainPongs
<1>7. CodedPings(s)' /\ PlainPings(s)'
    BY <1>3 DEF CodedPings, PlainPings
<1> QED BY <1>6, <1>7 DEF Answers

(* A ping begun is of the round its handler waits in.                      *)
LEMMA BeginsAnswers ==
    ASSUME Typed, NEW s \in Streams, Begins(s), Answers(s)
    PROVE  Answers(s)'
<1> DEFINE h == handler[s][I]
           q == chan[s][L]
           f == CodedSet("ping", h.round, Chunks)
<1>1. /\ TypeOK' /\ Local(s) /\ h.at = "round" /\ h.round \in 1..MaxRound
      /\ chan'[s][I] = chan[s][I] /\ cache' = cache
      /\ \/ down[I] /\ chan'[s][L] = q
         \/ ~down[I] /\ handler'[s][I] = [h EXCEPT !.at = "wait"] /\ chan'[s][L] \in {q, q \o f}
    BY BeginsDoes
<1>2. TypeOK /\ I \in Ends /\ L \in Ends /\ (\A e \in Ends : e = I \/ e = L) /\ h \in Handlers
    BY EndFacts, HandlerFacts DEF Typed, I, L
<1>3. setting' = setting /\ down' = down
    BY <1>1 DEF Local, node
<1>4. CASE down[I]
  <2>1. \A e \in Ends : Within(chan'[s][e], chan[s][e])
      BY <1>1, <1>2, <1>4, HandlerFacts, WithinSelf, Zenon
  <2> QED BY <1>1, <1>2, <1>3, <2>1, ShrinkAnswers
<1>5. CASE ~down[I]
  <2>1. /\ handler'[s][I].at = "wait" /\ handler'[s][I].round = h.round
        /\ chan'[s][L] \in {q, q \o f}
      BY <1>1, <1>2, <1>5, Zenon DEF Handlers
  <2>2. \A g : ~Due(s, g)
    <3>1. handler[s][I].at # "wait"
        BY <1>1
    <3> QED BY <3>1 DEF Due
  <2>3. CodedPongs(s)'
    <3>1. chan'[s][I] = chan[s][I] /\ cache' = cache /\ CodedPongs(s)
        BY <1>1 DEF Answers
    <3> QED BY <1>3, <2>2, <3>1, Zenon DEF CodedPongs, Due
  <2>4. ~setting.rlnc => chan[s][I] = <<>>
    <3>1. chan[s][I] \in Seq(WireFrames)
        BY <1>2, HandlerFacts
    <3>2. ~setting.rlnc => ~(1 \in DOMAIN chan[s][I])
        BY <2>2, Zenon DEF Answers, PlainPongs
    <3> QED BY <3>1, <3>2, HeadFacts
  <2>5. PlainPongs(s)'
      BY <1>1, <1>3, <2>2 DEF Answers, PlainPongs
  <2>6. /\ f \in Seq(WireFrames) /\ q \in Seq(WireFrames)
        /\ \A i \in DOMAIN f : f[i].of = h.round
        /\ ~setting.rlnc => f = <<Frame("ping", h.round, 1)>>
    <3>1. Chunks \in 1..Chunks
        BY ChunkFacts
    <3>2. /\ f \in Seq(WireFrames)
          /\ \A i \in DOMAIN f : f[i] = Frame("ping", h.round, IF setting.rlnc THEN Chunks ELSE 1)
          /\ ~setting.rlnc => f = <<Frame("ping", h.round, 1)>>
        BY <1>1, <1>2, <3>1, CodedSetFacts
    <3> QED BY <1>2, <3>2, HandlerFacts DEF Frame
  <2> HIDE DEF f
  <2>7. ASSUME NEW i \in DOMAIN chan'[s][L]
        PROVE  \/ i \in DOMAIN q /\ chan'[s][L][i] = q[i]
               \/ /\ chan'[s][L] = q \o f /\ i - Len(q) \in DOMAIN f
                  /\ chan'[s][L][i] = f[i - Len(q)]
    <3>1. CASE chan'[s][L] = q
        BY <3>1
    <3>2. CASE chan'[s][L] = q \o f
      <4>1. \A k \in DOMAIN (q \o f) : \/ k \in DOMAIN q /\ (q \o f)[k] = q[k]
                                       \/ k - Len(q) \in DOMAIN f /\ (q \o f)[k] = f[k - Len(q)]
          BY <2>6, ConcatFacts
      <4> QED BY <3>2, <4>1
    <3> QED BY <2>1, <3>1, <3>2
  <2>8. CodedPings(s)'
    <3> SUFFICES ASSUME setting.rlnc, NEW i \in DOMAIN chan'[s][L], chan'[s][L][i].kind = "ping"
                 PROVE  DueNext(s, chan'[s][L][i]) \/ cache'[s][L][chan'[s][L][i].of] = Chunks
        BY <1>3 DEF CodedPings, Due, DueNext
    <3>1. CASE i \in DOMAIN q /\ chan'[s][L][i] = q[i]
        BY <1>1, <1>5, <2>2, <3>1 DEF Answers, CodedPings
    <3>2. CASE i - Len(q) \in DOMAIN f /\ chan'[s][L][i] = f[i - Len(q)]
        BY <2>1, <2>6, <3>2 DEF DueNext
    <3> QED BY <2>7, <3>1, <3>2
  <2>9. PlainPings(s)'
    <3> SUFFICES ASSUME ~setting.rlnc, NEW i \in DOMAIN chan'[s][L], chan'[s][L][i].kind = "ping"
                 PROVE  DueNext(s, chan'[s][L][i]) /\ i = Len(chan'[s][L]) /\ chan'[s][I] = <<>>
        BY <1>3 DEF PlainPings, Due, DueNext
    <3>1. CASE i \in DOMAIN q /\ chan'[s][L][i] = q[i]
        BY <1>5, <2>2, <3>1 DEF Answers, PlainPings
    <3>2. CASE /\ chan'[s][L] = q \o f /\ i - Len(q) \in DOMAIN f
               /\ chan'[s][L][i] = f[i - Len(q)]
      <4> HIDE DEF f, q
      <4>1. Len(f) = 1 /\ DOMAIN f = {1} /\ Len(q) \in Nat
          BY <2>6
      <4>2. Len(chan'[s][L]) = Len(q) + 1
          BY <2>6, <3>2, <4>1, ConcatProperties
      <4>3. i \in Nat
        <5>1. chan'[s][L] \in Seq(WireFrames)
            BY <1>1, <1>2, TypeFacts DEF TypeOK
        <5> QED BY <5>1
      <4>4. i = Len(chan'[s][L])
          BY <3>2, <4>1, <4>2, <4>3
      <4> QED BY <1>1, <2>1, <2>4, <2>6, <3>2, <4>4 DEF DueNext
    <3> QED BY <2>7, <3>1, <3>2
  <2> QED BY <2>3, <2>5, <2>8, <2>9 DEF Answers
<1> QED BY <1>4, <1>5

(* The initiator waits in the round whose frames are behind the one it took.*)
LEMMA InitiatorReadsAnswers ==
    ASSUME Typed, NEW s \in Streams, Reads(s, I), Answers(s)
    PROVE  Answers(s)' /\ (Measured(s) => Measured(s)')
<1> DEFINE h == handler[s][I]
           q == chan[s][I]
           f == q[1]
           x == [round |-> h.round, of |-> f.of]
<1>1. /\ TypeOK' /\ Local(s) /\ chan'[s][L] = chan[s][L] /\ chan'[s][I] = Tail(q)
      /\ Counts(s, I, f)
      /\ \/ /\ ~setting.rlnc \/ cache[s][I][f.of] = f.size - 1
            /\ rtts'[s] = Append(rtts[s], x)
         \/ /\ setting.rlnc /\ cache[s][I][f.of] # f.size - 1
            /\ handler'[s][I] = h /\ rtts'[s] = rtts[s]
    BY InitiatorReadsDoes
<1>2. TypeOK /\ I \in Ends /\ L \in Ends /\ I # L /\ Chunks \in Nat
    BY EndFacts, ChunkFacts DEF Typed, I, L
<1>3. setting' = setting /\ down' = down
    BY <1>1 DEF Local, node
<1>4. /\ q \in Seq(WireFrames) /\ q # <<>> /\ 1 \in DOMAIN q /\ f \in WireFrames /\ Pong(f)
      /\ f.of \in 1..MaxRound /\ h.at = "wait"
    BY <1>2, ReadsTakes, Zenon
<1>5. /\ cache'[s][I][f.of] = IF setting.rlnc /\ cache[s][I][f.of] < f.size
                              THEN cache[s][I][f.of] + 1 ELSE cache[s][I][f.of]
      /\ \A r \in 1..MaxRound : r # f.of => cache'[s][I][r] = cache[s][I][r]
      /\ cache'[s][L] = cache[s][L]
  <2> HIDE DEF h, q, f, x
  <2> QED BY <1>1, <1>2, <1>4, CountsFacts
<1>6. \A i \in DOMAIN chan'[s][I] : \E j \in DOMAIN q : chan'[s][I][i] = q[j]
    BY <1>1, <1>4, HeadFacts DEF Within
<1>7. \A j \in DOMAIN q : q[j].of \in 1..MaxRound /\ Pong(q[j])
  <2> TAKE j \in DOMAIN q
  <2>1. Pong(q[j]) /\ q[j] \in WireFrames
      BY <1>4 DEF Typed, StreamOk, ChansOk
  <2>2. q[j].of \in 0..MaxRound /\ 1 =< q[j].of
      BY <2>1 DEF Pong, WireFrames
  <2> QED BY <2>1, <2>2, RoundFacts
<1>8. CASE setting.rlnc
  <2>1. f.size = Chunks - 1
      BY <1>4, <1>8 DEF Pong
  <2>2. \A j \in DOMAIN q : /\ Due(s, q[j]) \/ cache[s][I][q[j].of] = Chunks - 1
                            /\ cache[s][L][q[j].of] = Chunks
      BY <1>8 DEF Answers, CodedPongs
  <2>3. cache[s][I] \in [1..MaxRound -> 0..Chunks]
      BY <1>2, HandlerFacts
  <2>4. \A r \in 1..MaxRound : cache[s][I][r] = Chunks - 1 => cache'[s][I][r] = Chunks - 1
      BY <1>2, <1>5, <2>1
  <2>5. CASE cache[s][I][f.of] = f.size - 1
    <3>1. cache'[s][I][f.of] = Chunks - 1
        BY <1>2, <1>5, <1>8, <2>1, <2>5
    <3>2. Due(s, f) /\ rtts'[s] = Append(rtts[s], x)
      <4>1. cache[s][I][f.of] # Chunks - 1
          BY <1>2, <2>1, <2>5
      <4> QED BY <1>1, <1>4, <2>2, <2>5, <4>1
    <3>3. \A g : Due(s, g) => g.of = f.of
        BY <3>2 DEF Due
    <3>4. \A i \in DOMAIN chan'[s][I] : /\ cache'[s][I][chan'[s][I][i].of] = Chunks - 1
                                        /\ cache'[s][L][chan'[s][I][i].of] = Chunks
      <4> TAKE i \in DOMAIN chan'[s][I]
      <4>1. PICK j \in DOMAIN q : chan'[s][I][i] = q[j]
          BY <1>6
      <4>2. q[j].of \in 1..MaxRound /\ cache[s][L][q[j].of] = Chunks
          BY <1>7, <2>2
      <4>3. cache'[s][I][q[j].of] = Chunks - 1
          BY <2>2, <2>4, <3>1, <3>3, <4>2
      <4> QED BY <1>5, <4>1, <4>2, <4>3
    <3>5. CodedPongs(s)'
        BY <3>4, Zenon DEF CodedPongs
    <3>6. CodedPings(s)'
      <4>1. \A i \in DOMAIN chan[s][L] : chan[s][L][i].kind = "ping" /\ ~down[I] =>
              cache[s][L][chan[s][L][i].of] = Chunks
          BY <1>4, <1>8, <2>2, <3>3 DEF Answers, CodedPings
      <4> QED BY <1>1, <1>3, <1>5, <4>1, Zenon DEF CodedPings
    <3>7. PlainPongs(s)' /\ PlainPings(s)'
        BY <1>3, <1>8 DEF PlainPongs, PlainPings
    <3>8. Measured(s) => Measured(s)'
      <4>1. rtts[s] \in Seq([round : 0..MaxRound, of : 0..MaxRound])
          BY <1>2 DEF TypeOK
      <4>2. x.round = x.of
          BY <3>2 DEF Due
      <4> HIDE DEF x
      <4>3. /\ DOMAIN rtts'[s] = DOMAIN rtts[s] \cup {Len(rtts[s]) + 1}
            /\ rtts'[s][Len(rtts[s]) + 1] = x
            /\ \A k \in DOMAIN rtts[s] : rtts'[s][k] = rtts[s][k]
          BY <3>2, <4>1
      <4> QED BY <4>2, <4>3 DEF Measured
    <3> QED BY <3>5, <3>6, <3>7, <3>8 DEF Answers
  <2>6. CASE cache[s][I][f.of] # f.size - 1
    <3>1. handler'[s][I] = h /\ rtts'[s] = rtts[s]
        BY <1>1, <1>8, <2>6
    <3>2. \A g : Due(s, g) => DueNext(s, g)
        BY <3>1 DEF Due, DueNext
    <3>3. \A i \in DOMAIN chan'[s][I] :
            /\ DueNext(s, chan'[s][I][i]) \/ cache'[s][I][chan'[s][I][i].of] = Chunks - 1
            /\ cache'[s][L][chan'[s][I][i].of] = Chunks
      <4> TAKE i \in DOMAIN chan'[s][I]
      <4>1. PICK j \in DOMAIN q : chan'[s][I][i] = q[j]
          BY <1>6
      <4>2. q[j].of \in 1..MaxRound /\ cache[s][L][q[j].of] = Chunks
          BY <1>7, <2>2
      <4>3. DueNext(s, q[j]) \/ cache'[s][I][q[j].of] = Chunks - 1
          BY <2>2, <2>4, <3>2, <4>2
      <4> QED BY <1>5, <4>1, <4>2, <4>3
    <3>4. CodedPongs(s)'
        BY <3>3, Zenon DEF CodedPongs, Due, DueNext
    <3>5. CodedPings(s)'
        BY <1>1, <1>3, <1>5, <3>1, Zenon DEF Answers, CodedPings, Due
    <3>6. PlainPongs(s)' /\ PlainPings(s)'
        BY <1>3, <1>8 DEF PlainPongs, PlainPings
    <3> QED BY <3>1, <3>4, <3>5, <3>6 DEF Answers, Measured
  <2> QED BY <2>5, <2>6
<1>9. CASE ~setting.rlnc
  <2>1. rtts'[s] = Append(rtts[s], x) /\ Due(s, f) /\ Len(q) =< 1
      BY <1>1, <1>4, <1>9 DEF Answers, PlainPongs
  <2>2. chan'[s][I] = <<>>
    <3>1. /\ Tail(q) \in Seq(WireFrames) /\ Len(Tail(q)) = Len(q) - 1 /\ Len(q) \in Nat
          /\ Len(Tail(q)) \in Nat
        BY <1>4, HeadFacts
    <3>2. \A m, n \in Nat : m = n - 1 /\ n =< 1 => m = 0
        OBVIOUS
    <3>3. Len(Tail(q)) = 0
        BY <2>1, <3>1, <3>2
    <3> QED BY <1>1, <3>1, <3>3, EmptySeq
  <2>3. PlainPongs(s)'
      BY <2>2 DEF PlainPongs
  <2>4. PlainPings(s)'
      BY <1>1, <1>3, <1>4, <1>9 DEF Answers, PlainPings
  <2>5. CodedPongs(s)' /\ CodedPings(s)'
      BY <1>3, <1>9 DEF CodedPongs, CodedPings
  <2>6. Measured(s) => Measured(s)'
    <3>1. rtts[s] \in Seq([round : 0..MaxRound, of : 0..MaxRound])
        BY <1>2 DEF TypeOK
    <3>2. x.round = x.of
        BY <2>1 DEF Due
    <3> HIDE DEF x
    <3>3. /\ DOMAIN rtts'[s] = DOMAIN rtts[s] \cup {Len(rtts[s]) + 1}
          /\ rtts'[s][Len(rtts[s]) + 1] = x
          /\ \A k \in DOMAIN rtts[s] : rtts'[s][k] = rtts[s][k]
        BY <2>1, <3>1
    <3> QED BY <3>2, <3>3 DEF Measured
  <2> QED BY <2>3, <2>4, <2>5, <2>6 DEF Answers
<1> QED BY <1>8, <1>9

(* The answer has the round of the ping it answers.                        *)
LEMMA ListenerReadsAnswers ==
    ASSUME Typed, NEW s \in Streams, Reads(s, L), Answers(s)
    PROVE  Answers(s)'
<1> DEFINE p == chan[s][I]
           q == chan[s][L]
           f == q[1]
           a == Answer(s, f)
<1>1. /\ TypeOK' /\ Local(s) /\ handler'[s][I] = handler[s][I] /\ chan'[s][L] = Tail(q)
      /\ Counts(s, L, f)
      /\ \/ /\ ~setting.rlnc \/ cache[s][L][f.of] = f.size - 1
            /\ chan'[s][I] = IF down[L] \/ down[I] THEN p ELSE p \o a
         \/ setting.rlnc /\ chan'[s][I] = p
    BY ListenerReadsDoes
<1>2. TypeOK /\ I \in Ends /\ L \in Ends /\ I # L /\ Chunks \in Nat
    BY EndFacts, ChunkFacts DEF Typed, I, L
<1>3. setting' = setting /\ down' = down
    BY <1>1 DEF Local, node
<1>4. /\ q \in Seq(WireFrames) /\ q # <<>> /\ 1 \in DOMAIN q /\ f \in WireFrames /\ Ping(f)
      /\ f.of \in 1..MaxRound
    BY <1>2, ReadsTakes
<1>5. /\ cache'[s][L][f.of] = IF setting.rlnc /\ cache[s][L][f.of] < f.size
                              THEN cache[s][L][f.of] + 1 ELSE cache[s][L][f.of]
      /\ \A r \in 1..MaxRound : r # f.of => cache'[s][L][r] = cache[s][L][r]
      /\ cache'[s][I] = cache[s][I]
    BY <1>1, <1>2, <1>4, CountsFacts
<1>6. \A g : DueNext(s, g) <=> Due(s, g)
    BY <1>1 DEF Due, DueNext
<1>7. \A i \in DOMAIN chan'[s][L] : \E j \in DOMAIN q :
        chan'[s][L][i] = q[j] /\ (j = Len(q) => i = Len(chan'[s][L]))
    BY <1>1, <1>4, HeadFacts DEF Within
<1>8. /\ a \in Seq(WireFrames)
      /\ \A i \in DOMAIN a : a[i].of = f.of
      /\ ~setting.rlnc => a = <<Frame("pong", f.of, 1)>>
  <2>1. /\ a \in Seq(WireFrames)
        /\ \A i \in DOMAIN a : a[i] = Frame("pong", f.of, IF setting.rlnc THEN Chunks - 1 ELSE 1)
        /\ ~setting.rlnc => a = <<Frame("pong", f.of, 1)>>
      BY <1>2, <1>4, AnswerFacts
  <2> QED BY <2>1 DEF Frame
<1>9. p \in Seq(WireFrames)
    BY <1>2, HandlerFacts
<1> HIDE DEF a
<1>10. CASE setting.rlnc
  <2>1. f.size = Chunks
      BY <1>4, <1>10 DEF Ping
  <2>2. cache[s][L] \in [1..MaxRound -> 0..Chunks]
      BY <1>2, HandlerFacts
  <2>3. \A r \in 1..MaxRound : cache[s][L][r] = Chunks => cache'[s][L][r] = Chunks
      BY <1>2, <1>5, <2>1
  <2>4. \A j \in DOMAIN p : /\ Due(s, p[j]) \/ cache[s][I][p[j].of] = Chunks - 1
                            /\ cache[s][L][p[j].of] = Chunks /\ p[j].of \in 1..MaxRound
    <3> TAKE j \in DOMAIN p
    <3>1. Pong(p[j]) /\ p[j] \in WireFrames
        BY <1>9 DEF Typed, StreamOk, ChansOk
    <3>2. p[j].of \in 0..MaxRound /\ 1 =< p[j].of
        BY <3>1 DEF Pong, WireFrames
    <3>3. p[j].of \in 1..MaxRound
        BY <3>2, RoundFacts
    <3> QED BY <1>10, <3>3 DEF Answers, CodedPongs
  <2>5. CodedPongs(s)'
    <3> SUFFICES ASSUME NEW i \in DOMAIN chan'[s][I]
                 PROVE  LET g == chan'[s][I][i] IN
                        /\ DueNext(s, g) \/ cache'[s][I][g.of] = Chunks - 1
                        /\ cache'[s][L][g.of] = Chunks
        BY Zenon DEF CodedPongs, Due, DueNext
    <3>1. CASE chan'[s][I] = p
        BY <1>5, <1>6, <2>3, <2>4, <3>1, Zenon
    <3>2. CASE /\ chan'[s][I] = p \o a /\ ~down[I]
               /\ cache[s][L][f.of] = f.size - 1
      <4>1. Due(s, f) /\ cache'[s][L][f.of] = Chunks
        <5>1. cache[s][L][f.of] # Chunks /\ cache[s][L][f.of] < f.size
            BY <1>2, <2>1, <3>2
        <5>2. f.kind = "ping"
            BY <1>4 DEF Ping
        <5>3. Due(s, f)
            BY <1>4, <1>10, <3>2, <5>1, <5>2 DEF Answers, CodedPings
        <5>4. cache'[s][L][f.of] = cache[s][L][f.of] + 1
            BY <1>5, <1>10, <5>1
        <5> QED BY <1>2, <2>1, <3>2, <5>3, <5>4
      <4>2. \A k \in DOMAIN (p \o a) : \/ k \in DOMAIN p /\ (p \o a)[k] = p[k]
                                       \/ k - Len(p) \in DOMAIN a /\ (p \o a)[k] = a[k - Len(p)]
          BY <1>8, <1>9, ConcatFacts, Zenon
      <4>3. CASE i \in DOMAIN p /\ (p \o a)[i] = p[i]
          BY <1>5, <1>6, <2>3, <2>4, <3>2, <4>3
      <4>4. CASE i - Len(p) \in DOMAIN a /\ (p \o a)[i] = a[i - Len(p)]
        <5>1. chan'[s][I][i].of = f.of
            BY <1>8, <3>2, <4>4
        <5>2. Due(s, chan'[s][I][i])
            BY <4>1, <5>1 DEF Due
        <5> QED BY <1>6, <4>1, <5>1, <5>2
      <4> QED BY <3>2, <4>2, <4>3, <4>4
    <3> QED BY <1>1, <1>10, <3>1, <3>2
  <2>6. CodedPings(s)'
    <3> SUFFICES ASSUME ~down[I], NEW i \in DOMAIN chan'[s][L], chan'[s][L][i].kind = "ping"
                 PROVE  DueNext(s, chan'[s][L][i]) \/ cache'[s][L][chan'[s][L][i].of] = Chunks
        BY <1>3 DEF CodedPings, Due, DueNext
    <3>1. PICK j \in DOMAIN q : chan'[s][L][i] = q[j]
        BY <1>7
    <3>2. Due(s, q[j]) \/ cache[s][L][q[j].of] = Chunks
        BY <1>10, <3>1 DEF Answers, CodedPings
    <3>3. q[j].of \in 1..MaxRound
      <4>1. q[j] \in WireFrames /\ Ping(q[j])
          BY <1>4, <3>1 DEF Typed, StreamOk, ChansOk, Count
      <4>2. q[j].of \in 0..MaxRound /\ 1 =< q[j].of
          BY <4>1 DEF Ping, WireFrames
      <4> QED BY <4>2, RoundFacts
    <3> QED BY <1>6, <2>3, <3>1, <3>2, <3>3
  <2>7. PlainPongs(s)' /\ PlainPings(s)'
      BY <1>3, <1>10 DEF PlainPongs, PlainPings
  <2> QED BY <2>5, <2>6, <2>7 DEF Answers
<1>11. CASE ~setting.rlnc
  <2>1. ~down[I] => Due(s, f) /\ Len(q) = 1 /\ p = <<>>
    <3>1. f.kind = "ping"
        BY <1>4 DEF Ping
    <3>2. ~down[I] => Due(s, f) /\ 1 = Len(q) /\ p = <<>>
        BY <1>4, <1>11, <3>1 DEF Answers, PlainPings
    <3> QED BY <3>2
  <2>2. PlainPongs(s)'
    <3> SUFFICES Len(chan'[s][I]) =< 1 /\ \A i \in DOMAIN chan'[s][I] : DueNext(s, chan'[s][I][i])
        BY DEF PlainPongs, Due, DueNext
    <3>1. CASE chan'[s][I] = p
        BY <1>6, <1>11, <3>1 DEF Answers, PlainPongs
    <3>2. CASE chan'[s][I] = p \o a /\ ~down[I]
      <4>1. chan'[s][I] = <<Frame("pong", f.of, 1)>>
        <5>1. <<>> \o a = a
            BY <1>8
        <5> QED BY <1>8, <1>11, <2>1, <3>2, <5>1
      <4>2. Due(s, Frame("pong", f.of, 1))
          BY <2>1, <3>2 DEF Due, Frame
      <4> QED BY <1>6, <4>1, <4>2
    <3> QED BY <1>1, <1>11, <3>1, <3>2
  <2>3. PlainPings(s)'
    <3>1. ~down[I] => \A i \in DOMAIN chan'[s][L] : FALSE
      <4>1. Len(Tail(q)) = Len(q) - 1 /\ Tail(q) \in Seq(WireFrames)
          BY <1>4, HeadFacts
      <4>2. ~down[I] => Len(Tail(q)) = 0
          BY <2>1, <4>1
      <4>3. ~down[I] => Tail(q) = <<>>
          BY <4>1, <4>2, EmptySeq
      <4> QED BY <1>1, <4>3
    <3> QED BY <1>3, <3>1 DEF PlainPings
  <2>4. CodedPongs(s)' /\ CodedPings(s)'
      BY <1>3, <1>11 DEF CodedPongs, CodedPings
  <2> QED BY <2>2, <2>3, <2>4 DEF Answers
<1> QED BY <1>10, <1>11

(* The steps of a stream that neither write a frame nor read a pong.        *)
LEMMA QuietAnswers ==
    ASSUME Typed, NEW s \in Streams, Answers(s), disturbed'[s].late = {},
           \/ ListenerStarts(s)
           \/ \E e \in Ends : ReadFails(s, e) \/ TimesOut(s, e) \/ Finishes(s, e) \/ Closes(s, e)
                               \/ Loses(s, e)
    PROVE  Answers(s)'
<1>1. TypeOK /\ I \in Ends /\ L \in Ends /\ \A e \in Ends : e = I \/ e = L
    BY EndFacts DEF Typed, I, L
<1>2. \A e \in Ends : Within(chan[s][e], chan[s][e])
    BY <1>1, HandlerFacts, WithinSelf
<1>3. /\ TypeOK' /\ Local(s) /\ cache' = cache
      /\ \A e \in Ends : Within(chan'[s][e], chan[s][e])
      /\ \/ handler'[s][I] = handler[s][I] \/ handler[s][I].at # "wait"
         \/ chan[s][I] = <<>> /\ down[I]
  <2>1. CASE ListenerStarts(s)
    <3>1. /\ TypeOK' /\ Local(s) /\ handler'[s][I] = handler[s][I] /\ chan'[s][I] = chan[s][I]
          /\ cache' = cache
          /\ \/ chan'[s][L] = chan[s][L]
             \/ chan[s][L] # <<>> /\ chan'[s][L] = Tail(chan[s][L])
        BY <2>1, ListenerStartsDoes
    <3>2. Within(chan'[s][L], chan[s][L])
        BY <1>1, <1>2, <3>1, HandlerFacts, HeadFacts
    <3> QED BY <1>1, <1>2, <3>1, <3>2
  <2>2. CASE \E e \in Ends : ReadFails(s, e)
    <3>1. PICK e \in Ends : ReadFails(s, e)
        BY <2>2
    <3>2. /\ TypeOK' /\ Local(s) /\ down[e] /\ chan[s][e] = <<>> /\ chan' = chan /\ cache' = cache
          /\ \A x \in Ends : x # e => handler'[s][x] = handler[s][x]
        BY <3>1, ReadFailsDoes
    <3> QED BY <1>1, <1>2, <3>2
  <2>3. CASE \E e \in Ends : TimesOut(s, e)
      BY <2>3, TimesOutDoes
  <2>4. CASE \E e \in Ends : Finishes(s, e)
    <3>1. PICK e \in Ends : Finishes(s, e)
        BY <2>4
    <3>2. /\ TypeOK' /\ Local(s) /\ handler[s][e].at = "finish" /\ cache' = cache
          /\ \A x \in Ends : x # e => handler'[s][x] = handler[s][x] /\ chan'[s][x] = chan[s][x]
          /\ Within(chan'[s][e], chan[s][e])
        BY <3>1, FinishesDoes
    <3> QED BY <1>1, <1>2, <3>2
  <2>5. CASE \E e \in Ends : Closes(s, e)
    <3>1. PICK e \in Ends : Closes(s, e)
        BY <2>5
    <3>2. /\ TypeOK' /\ Local(s) /\ handler[s][e].at = "closing" /\ cache' = cache
          /\ \A x \in Ends : x # e => handler'[s][x] = handler[s][x] /\ chan'[s][x] = chan[s][x]
          /\ Within(chan'[s][e], chan[s][e])
        BY <3>1, ClosesDoes
    <3> QED BY <1>1, <1>2, <3>2
  <2>6. CASE \E e \in Ends : Loses(s, e)
      BY <1>1, <1>2, <2>6, LosesDoes
  <2> QED BY <2>1, <2>2, <2>3, <2>4, <2>5, <2>6
<1>4. setting' = setting /\ down' = down
    BY <1>3 DEF Local, node
<1> QED BY <1>1, <1>3, <1>4, ShrinkAnswers

(* A step of one stream keeps the rounds of every other stream.            *)
LEMMA OthersInRound ==
    ASSUME NEW s \in Streams, NEW t \in Streams, t # s, Local(s), InRound(t)
    PROVE  InRound(t)'
<1>1. /\ handler'[t] = handler[t] /\ chan'[t] = chan[t] /\ cache'[t] = cache[t]
      /\ rtts'[t] = rtts[t] /\ disturbed'[t] = disturbed[t]
      /\ setting' = setting /\ down' = down
    BY DEF Local, node
<1>2. Measured(t)' <=> Measured(t)
    BY <1>1 DEF Measured
<1>3. Answers(t) => Answers(t)'
    BY <1>1 DEF Answers, CodedPongs, CodedPings, PlainPongs, PlainPings, Due
<1> QED BY <1>1, <1>2, <1>3 DEF InRound

(* A step of a stream that answers in its round keeps the round trips right. *)
LEMMA StreamInRound ==
    ASSUME Typed, NEW s \in Streams, InRound(s),
           \/ InitiatorStarts(s) \/ ListenerStarts(s) \/ Begins(s) \/ Reads(s, I) \/ Reads(s, L)
           \/ \E e \in Ends : ReadFails(s, e) \/ TimesOut(s, e) \/ Finishes(s, e) \/ Closes(s, e)
                               \/ Loses(s, e)
    PROVE  Local(s) /\ InRound(s)'
<1>1. /\ Local(s) /\ (disturbed'[s].late = {} => disturbed[s].late = {})
      /\ rtts' = rtts \/ Reads(s, I)
  <2>1. CASE InitiatorStarts(s)
      BY <2>1, InitiatorStartsDoes
  <2>2. CASE ListenerStarts(s)
      BY <2>2, ListenerStartsDoes
  <2>3. CASE Begins(s)
      BY <2>3, BeginsDoes
  <2>4. CASE Reads(s, I)
      BY <2>4, InitiatorReadsDoes
  <2>5. CASE Reads(s, L)
      BY <2>5, ListenerReadsDoes
  <2>6. CASE \E e \in Ends : ReadFails(s, e) \/ TimesOut(s, e) \/ Finishes(s, e) \/ Closes(s, e)
                              \/ Loses(s, e)
      BY <2>6, EndsDoes
  <2> QED BY <2>1, <2>2, <2>3, <2>4, <2>5, <2>6
<1>2. ASSUME disturbed'[s].late = {}
      PROVE  Answers(s)' /\ Measured(s)'
  <2>1. Answers(s) /\ Measured(s)
      BY <1>1, <1>2 DEF InRound
  <2>2. Answers(s)' /\ (Reads(s, I) => Measured(s)')
      BY <1>2, <2>1, InitiatorStartsAnswers, BeginsAnswers, InitiatorReadsAnswers,
         ListenerReadsAnswers, QuietAnswers
  <2>3. rtts' = rtts => Measured(s)'
      BY <2>1 DEF Measured
  <2> QED BY <1>1, <2>2, <2>3
<1> QED BY <1>1, <1>2 DEF InRound

(* Every step keeps the frames on the way in the round they belong to.     *)
LEMMA NextInRound ==
    ASSUME Typed, \A s \in Streams : InRound(s), [Next]_vars
    PROVE  \A s \in Streams : InRound(s)'
<1>1. TypeOK /\ TypeOK'
    BY NextTyped DEF Typed
<1>2. CASE UNCHANGED <<setting, handler, chan, cache, rtts, down, disturbed>>
  <2>1. \A s \in Streams : Measured(s)' <=> Measured(s)
      BY <1>2 DEF Measured
  <2>2. \A s \in Streams : Answers(s)' <=> Answers(s)
      BY <1>2 DEF Answers, CodedPongs, CodedPings, PlainPongs, PlainPings, Due
  <2> QED BY <1>2, <2>1, <2>2 DEF InRound
<1>3. CASE OpenStream
  <2>1. PICK s \in Streams :
          /\ UNCHANGED <<setting, chan, cache, rtts, down, disturbed>>
          /\ \A e \in Ends : handler[s][e].at = "none"
          /\ \A t \in Streams : t # s => handler'[t] = handler[t]
      BY <1>3, OpenStreamDoes
  <2>2. ASSUME NEW t \in Streams
        PROVE  InRound(t)'
    <3>1. \A e \in Ends : Within(chan[t][e], chan[t][e])
        BY <1>1, HandlerFacts, WithinSelf
    <3>2. handler'[t][I] = handler[t][I] \/ handler[t][I].at # "wait"
        BY <2>1, EndFacts DEF I
    <3>3. Answers(t) => Answers(t)'
        BY <1>1, <2>1, <3>1, <3>2, ShrinkAnswers
    <3>4. Measured(t) => Measured(t)'
        BY <2>1 DEF Measured
    <3> QED BY <2>1, <3>3, <3>4 DEF InRound
  <2> QED BY <2>2
<1>4. CASE (\E s \in Streams, e \in Ends : MuxerPanics(s, e)) \/ Breaks
  <2>1. /\ UNCHANGED <<node, handler, cache, rtts>>
        /\ \A s \in Streams, x \in Ends : Within(chan'[s][x], chan[s][x])
        /\ \A x \in Ends : down[x] => down'[x]
        /\ \A s \in Streams : disturbed'[s].late = disturbed[s].late
      BY <1>4, GoneDoes
  <2>2. ASSUME NEW t \in Streams
        PROVE  InRound(t)'
    <3>1. I \in Ends /\ setting' = setting
        BY <2>1, EndFacts DEF I, node
    <3>2. Answers(t) => Answers(t)'
        BY <1>1, <2>1, <3>1, ShrinkAnswers
    <3>3. Measured(t) => Measured(t)'
        BY <2>1 DEF Measured
    <3> QED BY <2>1, <3>2, <3>3 DEF InRound
  <2> QED BY <2>2
<1>5. CASE \E s \in Streams :
             \/ InitiatorStarts(s) \/ ListenerStarts(s) \/ Begins(s) \/ Reads(s, I) \/ Reads(s, L)
             \/ \E e \in Ends : ReadFails(s, e) \/ TimesOut(s, e) \/ Finishes(s, e)
                                 \/ Closes(s, e) \/ Loses(s, e)
  <2>1. PICK s \in Streams : Local(s) /\ InRound(s)'
      BY <1>5, StreamInRound
  <2> QED BY <2>1, OthersInRound
<1>6. CASE PingCall
    BY <1>2, <1>6, PingCallDoes
<1>7. CASE UNCHANGED vars
    BY <1>2, <1>7 DEF vars
<1> QED BY <1>3, <1>4, <1>5, <1>6, <1>7, Steps

(* A round trip is timed with the answer to the ping of its own round, until *)
(* an exchange of the stream times out: no frame of an earlier round is left *)
(* that the initiator or the listener would take for one of a later (ping,  *)
(* handle_incoming), whatever else the network loses or cuts.               *)
THEOREM RoundTripsMatch == Spec => []AnswersInRound
<1> DEFINE Inv == Typed /\ \A s \in Streams : InRound(s)
<1>1. Init => Inv
  <2>1. ASSUME Init, NEW s \in Streams
        PROVE  InRound(s)
    <3>1. chan[s][I] = <<>> /\ chan[s][L] = <<>> /\ rtts[s] = <<>>
        BY <2>1, EndFacts DEF Init, I, L
    <3>2. Measured(s)
        BY <3>1 DEF Measured
    <3>3. Answers(s)
        BY <3>1 DEF Answers, CodedPongs, CodedPings, PlainPongs, PlainPings
    <3> QED BY <3>2, <3>3 DEF InRound
  <2> QED BY <2>1, InitTyped
<1>2. Inv /\ [Next]_vars => Inv'
    BY NextTyped, NextInRound
<1>3. Inv => AnswersInRound
    BY DEF InRound, Measured, AnswersInRound
<1> QED BY <1>1, <1>2, <1>3, PTL DEF Spec

-----------------------------------------------------------------------------
(* Plain pings on a quiet network. *)

PingFrame(r) == Frame("ping", r, 1)
PongFrame(r) == Frame("pong", r, 1)
CountFrame(n) == Frame("count", n, 1)
RoundsOf(n) == IF n = 0 THEN Endless ELSE n
Over == {"finish", "closing", "closed"}

(* The two handlers of a stream move in turns: one frame at most is on its  *)
(* way, beside the count.                                                   *)
NotYet(s) ==
    /\ handler[s][I].at \in {"none", "count"} /\ handler[s][L].at = handler[s][I].at
    /\ chan[s][I] = <<>> /\ chan[s][L] = <<>>
CountOnWay(s) == \E n \in Asks :
    /\ handler[s][L].at = "count" /\ chan[s][I] = <<>>
    /\ handler[s][I].round = 1 /\ handler[s][I].rounds = RoundsOf(n)
    /\ \/ handler[s][I].at = "round" /\ chan[s][L] = <<CountFrame(n)>>
       \/ handler[s][I].at = "wait" /\ chan[s][L] = <<CountFrame(n), PingFrame(1)>>
PingOnWay(s) ==
    /\ handler[s][L].at = "round" /\ chan[s][I] = <<>>
    /\ handler[s][L].rounds = handler[s][I].rounds /\ handler[s][L].round = handler[s][I].round
    /\ \/ handler[s][I].at = "round" /\ chan[s][L] = <<>>
       \/ handler[s][I].at = "wait" /\ chan[s][L] = <<PingFrame(handler[s][I].round)>>
PongOnWay(s) ==
    /\ handler[s][I].at = "wait" /\ chan[s][I] = <<PongFrame(handler[s][I].round)>>
    /\ chan[s][L] = <<>> /\ handler[s][L].rounds = handler[s][I].rounds
    /\ IF handler[s][I].round < handler[s][I].rounds
       THEN handler[s][L].at = "round" /\ handler[s][L].round = handler[s][I].round + 1
       ELSE handler[s][L].at \in Over
BothOver(s) ==
    /\ handler[s][I].at \in Over /\ handler[s][L].at \in Over
    /\ chan[s][I] = <<>> /\ chan[s][L] = <<>>
InStep(s) == NotYet(s) \/ CountOnWay(s) \/ PingOnWay(s) \/ PongOnWay(s) \/ BothOver(s)

PlainQuiet == ~setting.rlnc /\ (\A s \in Streams : Quiet(s)) =>
                (\A e \in Ends : ~down[e]) /\ \A s \in Streams : InStep(s)

(* A queue of one frame.                                                   *)
LEMMA TupleFacts ==
    ASSUME NEW x, NEW y
    PROVE  /\ Tail(<<x>>) = <<>> /\ Tail(<<x, y>>) = <<y>> /\ <<x>> \o <<y>> = <<x, y>>
           /\ <<>> \o <<x>> = <<x>> /\ <<x>>[1] = x /\ <<x, y>>[1] = x
           /\ <<x>> # <<>> /\ <<x, y>> # <<>>
<1>1. <<x>> \in Seq({x, y}) /\ <<y>> \in Seq({x, y}) /\ <<x, y>> \in Seq({x, y})
    OBVIOUS
<1>2. Tail(<<x>>) = <<>>
    OBVIOUS
<1>3. Tail(<<x, y>>) = <<y>>
    OBVIOUS
<1>4. <<x>> \o <<y>> = <<x, y>>
  <2> DEFINE a == <<x>>
             b == <<y>>
             c == <<x, y>>
  <2>1. /\ a \in Seq({x, y}) /\ b \in Seq({x, y}) /\ c \in Seq({x, y})
        /\ Len(a) = 1 /\ Len(b) = 1 /\ Len(c) = 2 /\ a[1] = x /\ b[1] = y /\ c[1] = x /\ c[2] = y
      BY <1>1
  <2> HIDE DEF a, b, c
  <2>2. /\ a \o b \in Seq({x, y}) /\ Len(a \o b) = 2
        /\ (a \o b)[1] = a[1] /\ (a \o b)[2] = b[1]
      BY <2>1, ConcatProperties
  <2>3. \A i \in 1..2 : (a \o b)[i] = c[i]
      BY <2>1, <2>2
  <2>4. a \o b = c
      BY <2>1, <2>2, <2>3, SeqEqual
  <2> QED BY <2>4 DEF a, b, c
<1>5. <<>> \o <<x>> = <<x>>
    OBVIOUS
<1>6. <<x>>[1] = x /\ <<x, y>>[1] = x /\ <<x>> # <<>> /\ <<x, y>> # <<>>
    OBVIOUS
<1> QED BY <1>2, <1>3, <1>4, <1>5, <1>6

(* What is within an empty queue is empty.                                 *)
LEMMA EmptyWithin ==
    ASSUME NEW S, NEW r \in Seq(S), Within(r, <<>>)
    PROVE  r = <<>>
<1>1. Len(r) =< 0 /\ Len(r) \in Nat
    BY DEF Within
<1>2. Len(r) = 0
    BY <1>1
<1> QED BY <1>2, EmptySeq

(* After the start the count alone is on the way.                          *)
LEMMA InitiatorStartsInStep ==
    ASSUME Typed, NEW s \in Streams, InitiatorStarts(s), \A e \in Ends : ~down[e], InStep(s)
    PROVE  InStep(s)'
<1>1. /\ handler[s][I].at = "count" /\ handler'[s][L] = handler[s][L] /\ chan'[s][I] = chan[s][I]
      /\ count \in Asks
    BY InitiatorStartsDoes
<1>2. ~down[I] /\ ~down[L]
    BY EndFacts DEF I, L
<1>3. handler'[s][I] = Starting(count) /\ chan'[s][L] = chan[s][L] \o <<CountFrame(count)>>
    BY <1>2, InitiatorStartsDoes DEF CountFrame
<1>4. NotYet(s)
    BY <1>1 DEF InStep, CountOnWay, PingOnWay, PongOnWay, BothOver, Over
<1>5. chan'[s][L] = <<CountFrame(count)>>
    BY <1>3, <1>4, TupleFacts DEF NotYet
<1>6. /\ handler'[s][I].at = "round" /\ handler'[s][I].round = 1
      /\ handler'[s][I].rounds = RoundsOf(count)
    BY <1>3 DEF Starting, RoundsOf
<1>7. CountOnWay(s)'
    BY <1>1, <1>4, <1>5, <1>6 DEF CountOnWay, NotYet
<1> QED BY <1>7 DEF InStep

(* After the count is taken, the ping may be on the way.                   *)
LEMMA ListenerStartsInStep ==
    ASSUME Typed, NEW s \in Streams, ListenerStarts(s), \A e \in Ends : ~down[e], InStep(s)
    PROVE  InStep(s)'
<1> DEFINE q == chan[s][L]
<1>1. ~down[L]
    BY EndFacts DEF L
<1>2. /\ handler[s][L].at = "count" /\ handler'[s][I] = handler[s][I] /\ chan'[s][I] = chan[s][I]
      /\ q # <<>> /\ chan'[s][L] = Tail(q)
      /\ handler'[s][L] = Starting(IF q[1].kind = "count" THEN q[1].of ELSE Huge)
    BY <1>1, ListenerStartsDoes
<1>3. CountOnWay(s)
    BY <1>2 DEF InStep, NotYet, PingOnWay, PongOnWay, BothOver, Over
<1>4. PICK n \in Asks :
        /\ chan[s][I] = <<>> /\ handler[s][I].round = 1 /\ handler[s][I].rounds = RoundsOf(n)
        /\ \/ handler[s][I].at = "round" /\ q = <<CountFrame(n)>>
           \/ handler[s][I].at = "wait" /\ q = <<CountFrame(n), PingFrame(1)>>
    BY <1>3 DEF CountOnWay
<1>5. q[1] = CountFrame(n)
    BY <1>4, TupleFacts
<1>6. q[1].kind = "count" /\ q[1].of = n
    BY <1>5 DEF CountFrame, Frame
<1>7. /\ handler'[s][L].at = "round" /\ handler'[s][L].round = 1
      /\ handler'[s][L].rounds = RoundsOf(n)
    BY <1>2, <1>6 DEF Starting, RoundsOf
<1>8. \/ handler[s][I].at = "round" /\ chan'[s][L] = <<>>
      \/ handler[s][I].at = "wait" /\ chan'[s][L] = <<PingFrame(1)>>
  <2>1. CASE handler[s][I].at = "round" /\ q = <<CountFrame(n)>>
      BY <1>2, <2>1, TupleFacts
  <2>2. CASE handler[s][I].at = "wait" /\ q = <<CountFrame(n), PingFrame(1)>>
      BY <1>2, <2>2, TupleFacts
  <2> QED BY <1>4, <2>1, <2>2
<1>9. PingOnWay(s)'
    BY <1>2, <1>4, <1>7, <1>8 DEF PingOnWay
<1> QED BY <1>9 DEF InStep

(* After the round begins its ping alone is on the way.                    *)
LEMMA BeginsInStep ==
    ASSUME Typed, NEW s \in Streams, Begins(s), \A e \in Ends : ~down[e], InStep(s), ~setting.rlnc
    PROVE  InStep(s)'
<1> DEFINE h == handler[s][I]
           q == chan[s][L]
<1>1. ~down[I] /\ ~down[L] /\ TypeOK /\ h \in Handlers
    BY EndFacts, HandlerFacts DEF Typed, I, L
<1>2. /\ h.at = "round" /\ h.round \in 1..MaxRound /\ handler'[s][L] = handler[s][L]
      /\ chan'[s][I] = chan[s][I] /\ handler'[s][I] = [h EXCEPT !.at = "wait"]
      /\ chan'[s][L] = q \o CodedSet("ping", h.round, Chunks)
    BY <1>1, BeginsDoes
<1>3. CodedSet("ping", h.round, Chunks) = <<PingFrame(h.round)>>
    BY <1>1, <1>2, CodedSetFacts DEF PingFrame
<1>4. /\ handler'[s][I].at = "wait" /\ handler'[s][I].round = h.round
      /\ handler'[s][I].rounds = h.rounds
    BY <1>1, <1>2 DEF Handlers
<1>5. CASE CountOnWay(s)
  <2>1. PICK n \in Asks :
          /\ handler[s][L].at = "count" /\ chan[s][I] = <<>> /\ h.round = 1
          /\ h.rounds = RoundsOf(n) /\ q = <<CountFrame(n)>>
      BY <1>2, <1>5 DEF CountOnWay
  <2>2. chan'[s][L] = <<CountFrame(n), PingFrame(1)>>
      BY <1>2, <1>3, <2>1, TupleFacts
  <2>3. CountOnWay(s)'
      BY <1>2, <1>4, <2>1, <2>2 DEF CountOnWay
  <2> QED BY <2>3 DEF InStep
<1>6. CASE PingOnWay(s)
  <2>1. q = <<>>
      BY <1>2, <1>6 DEF PingOnWay
  <2>2. chan'[s][L] = <<PingFrame(h.round)>>
      BY <1>2, <1>3, <2>1, TupleFacts
  <2>3. PingOnWay(s)'
      BY <1>2, <1>4, <1>6, <2>2 DEF PingOnWay
  <2> QED BY <2>3 DEF InStep
<1> QED BY <1>2, <1>5, <1>6 DEF InStep, NotYet, PongOnWay, BothOver, Over

(* After the pong is taken nothing is on the way.                          *)
LEMMA InitiatorReadsInStep ==
    ASSUME Typed, NEW s \in Streams, Reads(s, I), InStep(s), ~setting.rlnc
    PROVE  InStep(s)'
<1> DEFINE h == handler[s][I]
           q == chan[s][I]
<1>1. h \in Handlers /\ I \in Ends
    BY EndFacts, HandlerFacts DEF Typed, I
<1>2. /\ handler'[s][L] = handler[s][L] /\ chan'[s][L] = chan[s][L] /\ chan'[s][I] = Tail(q)
      /\ handler'[s][I] = After(h)
    BY InitiatorReadsDoes
<1>3. q # <<>> /\ h.at = "wait"
    BY <1>1, ReadsTakes
<1>4. PongOnWay(s)
    BY <1>3 DEF InStep, NotYet, CountOnWay, PingOnWay, BothOver, Over
<1>5. chan'[s][I] = <<>>
    BY <1>2, <1>4, TupleFacts DEF PongOnWay
<1>6. /\ After(h).at \in {"round", "finish"} /\ After(h).rounds = h.rounds
      /\ After(h).at = "round" => After(h).round = h.round + 1 /\ h.round < h.rounds
      /\ After(h).at = "finish" => ~(h.round < h.rounds)
    BY <1>1, AfterFacts
<1>7. CASE After(h).at = "round"
  <2>1. PingOnWay(s)'
      BY <1>2, <1>4, <1>5, <1>6, <1>7 DEF PingOnWay, PongOnWay
  <2> QED BY <2>1 DEF InStep
<1>8. CASE After(h).at = "finish"
  <2>1. BothOver(s)'
      BY <1>2, <1>4, <1>5, <1>6, <1>8 DEF BothOver, PongOnWay, Over
  <2> QED BY <2>1 DEF InStep
<1> QED BY <1>6, <1>7, <1>8

(* After the ping is taken its pong alone is on the way.                   *)
LEMMA ListenerReadsInStep ==
    ASSUME Typed, NEW s \in Streams, Reads(s, L), \A e \in Ends : ~down[e], InStep(s), ~setting.rlnc
    PROVE  InStep(s)'
<1> DEFINE h == handler[s][L]
           q == chan[s][L]
           f == q[1]
<1>1. h \in Handlers /\ I \in Ends /\ L \in Ends /\ I # L /\ TypeOK
    BY EndFacts, HandlerFacts DEF Typed, I, L
<1>2. ~down[I] /\ ~down[L]
    BY <1>1
<1>3. /\ handler'[s][I] = handler[s][I] /\ chan'[s][L] = Tail(q) /\ handler'[s][L] = After(h)
      /\ chan'[s][I] = chan[s][I] \o Answer(s, f)
    BY <1>2, ListenerReadsDoes
<1>4. q # <<>> /\ h.at = "round" /\ Ping(f) /\ f.of \in 1..MaxRound
    BY <1>1, ReadsTakes
<1>5. PingOnWay(s)
    BY <1>4 DEF InStep, NotYet, CountOnWay, PongOnWay, BothOver, Over
<1>6. /\ handler[s][I].at = "wait" /\ q = <<PingFrame(handler[s][I].round)>>
      /\ chan[s][I] = <<>> /\ h.rounds = handler[s][I].rounds /\ h.round = handler[s][I].round
    BY <1>4, <1>5 DEF PingOnWay
<1>7. f = PingFrame(handler[s][I].round)
    BY <1>6, TupleFacts
<1>8. f.of = handler[s][I].round
    BY <1>7 DEF PingFrame, Frame
<1>9. Answer(s, f) = <<PongFrame(handler[s][I].round)>>
    BY <1>1, <1>4, <1>8, AnswerFacts DEF PongFrame
<1>10. chan'[s][I] = <<PongFrame(handler[s][I].round)>> /\ chan'[s][L] = <<>>
    BY <1>3, <1>6, <1>9, TupleFacts
<1>11. /\ After(h).at \in {"round", "finish"} /\ After(h).rounds = h.rounds
       /\ After(h).at = "round" => After(h).round = h.round + 1 /\ h.round < h.rounds
       /\ After(h).at = "finish" => ~(h.round < h.rounds)
    BY <1>1, AfterFacts
<1>12. PongOnWay(s)'
    BY <1>3, <1>6, <1>10, <1>11 DEF PongOnWay, Over
<1> QED BY <1>12 DEF InStep

(* A quiet handler ends only when its rounds are over.                     *)
LEMMA EndsInStep ==
    ASSUME Typed, NEW s \in Streams, NEW e \in Ends, Finishes(s, e) \/ Closes(s, e),
           \A x \in Ends : ~down[x], InStep(s)
    PROVE  InStep(s)' /\ (\A x \in Ends : handler'[s][x].at \in {handler[s][x].at} \cup Over)
<1> DEFINE h == handler[s][e]
<1>1. h \in Handlers /\ I \in Ends /\ L \in Ends /\ I # L /\ (\A x \in Ends : x = I \/ x = L)
    BY EndFacts, HandlerFacts DEF Typed, I, L
<1>2. /\ TypeOK' /\ h.at \in {"finish", "closing"}
      /\ \A x \in Ends : x # e => handler'[s][x] = handler[s][x] /\ chan'[s][x] = chan[s][x]
      /\ handler'[s][e] \in {[h EXCEPT !.at = "closing"], [h EXCEPT !.at = "closed"]}
      /\ Within(chan'[s][e], chan[s][e])
  <2>1. CASE Finishes(s, e)
      BY <2>1, FinishesDoes
  <2>2. CASE Closes(s, e)
      BY <2>2, ClosesDoes
  <2> QED BY <2>1, <2>2
<1>3. handler'[s][e].at \in Over /\ handler'[s][e].rounds = h.rounds
    BY <1>1, <1>2 DEF Handlers, Over
<1>4. chan'[s][e] \in Seq(WireFrames)
    BY <1>2 DEF TypeOK
<1>5. chan[s][e] = <<>> => chan'[s][e] = <<>>
    BY <1>2, <1>4, EmptyWithin
<1>6. CASE BothOver(s)
  <2>1. BothOver(s)'
      BY <1>1, <1>2, <1>3, <1>5, <1>6 DEF BothOver
  <2> QED BY <1>2, <1>3, <2>1 DEF InStep
<1>7. CASE PongOnWay(s)
  <2>1. e = L
      BY <1>1, <1>2, <1>7 DEF PongOnWay
  <2>2. PongOnWay(s)'
      BY <1>1, <1>2, <1>3, <1>5, <1>7, <2>1 DEF PongOnWay
  <2> QED BY <1>2, <1>3, <2>2 DEF InStep
<1> QED BY <1>1, <1>2, <1>6, <1>7 DEF InStep, NotYet, CountOnWay, PingOnWay

(* A step of a quiet stream keeps its two ends in step.                    *)
LEMMA StepsOfStream ==
    ASSUME Typed, NEW s \in Streams, InStep(s), \A e \in Ends : ~down[e], ~setting.rlnc,
           \/ InitiatorStarts(s) \/ ListenerStarts(s) \/ Begins(s) \/ Reads(s, I) \/ Reads(s, L)
           \/ \E e \in Ends : ReadFails(s, e) \/ TimesOut(s, e) \/ Finishes(s, e) \/ Closes(s, e)
                               \/ Loses(s, e)
    PROVE  Local(s) /\ ((disturbed' = disturbed /\ InStep(s)') \/ ~Quiet(s)')
<1>1. CASE InitiatorStarts(s)
    BY <1>1, InitiatorStartsInStep, InitiatorStartsDoes
<1>2. CASE ListenerStarts(s)
    BY <1>2, ListenerStartsInStep, ListenerStartsDoes
<1>3. CASE Begins(s)
    BY <1>3, BeginsInStep, BeginsDoes
<1>4. CASE Reads(s, I)
    BY <1>4, InitiatorReadsInStep, InitiatorReadsDoes
<1>5. CASE Reads(s, L)
    BY <1>5, ListenerReadsInStep, ListenerReadsDoes
<1>6. CASE \E e \in Ends : ReadFails(s, e)
    BY <1>6 DEF ReadFails
<1>7. CASE \E e \in Ends : TimesOut(s, e)
    BY <1>7, TimesOutDoes DEF Quiet
<1>8. CASE \E e \in Ends : Finishes(s, e) \/ Closes(s, e)
  <2>1. PICK e \in Ends : Finishes(s, e) \/ Closes(s, e)
      BY <1>8
  <2>2. Local(s) /\ disturbed' = disturbed
      BY <2>1, FinishesDoes, ClosesDoes
  <2> QED BY <2>1, <2>2, EndsInStep
<1>9. CASE \E e \in Ends : Loses(s, e)
    BY <1>9, LosesDoes DEF Quiet
<1> QED BY <1>1, <1>2, <1>3, <1>4, <1>5, <1>6, <1>7, <1>8, <1>9

(* A disturbance is not undone.                                             *)
LEMMA QuietKept ==
    ASSUME Typed, NEW s \in Streams,
           \/ InitiatorStarts(s) \/ ListenerStarts(s) \/ Begins(s) \/ Reads(s, I) \/ Reads(s, L)
           \/ \E e \in Ends : ReadFails(s, e) \/ TimesOut(s, e) \/ Finishes(s, e) \/ Closes(s, e)
                               \/ Loses(s, e)
    PROVE  Local(s) /\ (Quiet(s)' => Quiet(s))
<1>1. CASE InitiatorStarts(s)
    BY <1>1, InitiatorStartsDoes DEF Quiet
<1>2. CASE ListenerStarts(s)
    BY <1>2, ListenerStartsDoes DEF Quiet
<1>3. CASE Begins(s)
    BY <1>3, BeginsDoes DEF Quiet
<1>4. CASE Reads(s, I)
    BY <1>4, InitiatorReadsDoes DEF Quiet
<1>5. CASE Reads(s, L)
    BY <1>5, ListenerReadsDoes DEF Quiet
<1>6. CASE \E e \in Ends : ReadFails(s, e)
    BY <1>6, ReadFailsDoes DEF Quiet
<1>7. CASE \E e \in Ends : TimesOut(s, e)
    BY <1>7, TimesOutDoes DEF Quiet
<1>8. CASE \E e \in Ends : Finishes(s, e)
    BY <1>8, FinishesDoes DEF Quiet
<1>9. CASE \E e \in Ends : Closes(s, e)
    BY <1>9, ClosesDoes DEF Quiet
<1>10. CASE \E e \in Ends : Loses(s, e)
    BY <1>10, LosesDoes DEF Quiet
<1> QED BY <1>1, <1>2, <1>3, <1>4, <1>5, <1>6, <1>7, <1>8, <1>9, <1>10

(* Every step keeps the two ends of every quiet stream in step.            *)
LEMMA NextPlainQuiet ==
    ASSUME Typed, PlainQuiet, [Next]_vars
    PROVE  PlainQuiet'
<1>1. I \in Ends /\ L \in Ends /\ \A e \in Ends : e = I \/ e = L
    BY EndFacts DEF I, L
<1>2. CASE UNCHANGED <<setting, handler, chan, down, disturbed>>
  <2>1. ASSUME NEW s \in Streams
        PROVE  (Quiet(s)' <=> Quiet(s)) /\ (InStep(s)' <=> InStep(s))
      BY <1>2 DEF Quiet, InStep, NotYet, CountOnWay, PingOnWay, PongOnWay, BothOver
  <2> QED BY <1>2, <2>1 DEF PlainQuiet
<1>3. CASE OpenStream
  <2>1. PICK s \in Streams :
          /\ UNCHANGED <<setting, chan, down, disturbed>>
          /\ \A e \in Ends : /\ handler[s][e].at = "none"
                             /\ handler'[s][e] = [Idle EXCEPT !.at = "count"]
          /\ \A t \in Streams : t # s => handler'[t] = handler[t]
      BY <1>3, OpenStreamDoes
  <2>2. \A t \in Streams : Quiet(t)' <=> Quiet(t)
      BY <2>1 DEF Quiet
  <2>3. \A t \in Streams : t # s => (InStep(t)' <=> InStep(t))
      BY <2>1 DEF InStep, NotYet, CountOnWay, PingOnWay, PongOnWay, BothOver
  <2>4. ASSUME InStep(s)
        PROVE  InStep(s)'
    <3>1. NotYet(s)
        BY <1>1, <2>1, <2>4 DEF InStep, CountOnWay, PingOnWay, PongOnWay, BothOver, Over
    <3>2. \A e \in Ends : handler'[s][e].at = "count"
        BY <2>1, IdleFacts
    <3>3. NotYet(s)'
        BY <1>1, <2>1, <3>1, <3>2 DEF NotYet
    <3> QED BY <3>3 DEF InStep
  <2> QED BY <2>1, <2>2, <2>3, <2>4 DEF PlainQuiet
<1>4. CASE \E s \in Streams :
             \/ InitiatorStarts(s) \/ ListenerStarts(s) \/ Begins(s) \/ Reads(s, I) \/ Reads(s, L)
             \/ \E e \in Ends : ReadFails(s, e) \/ TimesOut(s, e) \/ Finishes(s, e)
                                 \/ Closes(s, e) \/ Loses(s, e)
  <2>1. PICK s \in Streams :
          \/ InitiatorStarts(s) \/ ListenerStarts(s) \/ Begins(s) \/ Reads(s, I) \/ Reads(s, L)
          \/ \E e \in Ends : ReadFails(s, e) \/ TimesOut(s, e) \/ Finishes(s, e)
                              \/ Closes(s, e) \/ Loses(s, e)
      BY <1>4
  <2>2. Local(s) /\ (Quiet(s)' => Quiet(s))
      BY <2>1, QuietKept
  <2>3. setting' = setting /\ down' = down
      BY <2>2 DEF Local, node
  <2>4. \A t \in Streams : t # s => (Quiet(t)' <=> Quiet(t)) /\ (InStep(t)' <=> InStep(t))
      BY <2>2 DEF Local, Quiet, InStep, NotYet, CountOnWay, PingOnWay, PongOnWay, BothOver
  <2>5. Quiet(s)' => Quiet(s)
      BY <2>2
  <2>6. ASSUME ~setting.rlnc, \A e \in Ends : ~down[e], InStep(s), Quiet(s)'
        PROVE  InStep(s)'
      BY <2>1, <2>6, StepsOfStream
  <2> QED BY <2>3, <2>4, <2>5, <2>6 DEF PlainQuiet
<1>5. CASE \E s \in Streams, e \in Ends : MuxerPanics(s, e)
  <2>1. PICK s \in Streams, e \in Ends : MuxerPanics(s, e)
      BY <1>5
  <2>2. handler[s][e].at = "closing" /\ chan[s][e] # <<>> /\ setting' = setting
        /\ disturbed' = disturbed
      BY <2>1 DEF MuxerPanics, node
  <2>3. ~InStep(s)
      BY <1>1, <2>2 DEF InStep, NotYet, CountOnWay, PingOnWay, PongOnWay, BothOver
  <2>4. \A t \in Streams : Quiet(t)' <=> Quiet(t)
      BY <2>2 DEF Quiet
  <2> QED BY <2>2, <2>3, <2>4 DEF PlainQuiet
<1>6. CASE Breaks
  <2>1. PICK s \in Streams : TRUE
      BY RoundFacts
  <2>2. disturbed'[s].broken
    <3>1. disturbed' = [t \in Streams |-> [disturbed[t] EXCEPT !.broken = TRUE]]
        BY <1>6 DEF Breaks
    <3>2. disturbed[s] \in Faults
        BY TypeFacts DEF Typed
    <3> QED BY <3>1, <3>2 DEF Faults
  <2> QED BY <2>2 DEF PlainQuiet, Quiet
<1>7. CASE PingCall
    BY <1>2, <1>7, PingCallDoes
<1>8. CASE UNCHANGED vars
    BY <1>2, <1>8 DEF vars
<1> QED BY <1>3, <1>4, <1>5, <1>6, <1>7, <1>8, Steps

(* When nothing is lost, late or broken, pings with plain payloads leave the *)
(* connection up, however many run at once and for however many rounds: the *)
(* handlers of a stream move in turns, so that neither ends while a frame is *)
(* on its way to it (ping, close and handle_incoming of the muxer).         *)
THEOREM PlainPingsAreSafe == Spec => []PlainPingsLeaveConn
<1> DEFINE Inv == Typed /\ PlainQuiet
<1>1. Init => Inv
  <2>1. ASSUME Init
        PROVE  PlainQuiet
    <3>1. \A s \in Streams, e \in Ends : handler[s][e].at = "none" /\ chan[s][e] = <<>> /\ ~down[e]
        BY <2>1, IdleFacts DEF Init
    <3>2. \A s \in Streams : NotYet(s)
        BY <3>1, EndFacts DEF NotYet, I, L
    <3>3. \A e \in Ends : ~down[e]
        BY <2>1 DEF Init
    <3> QED BY <3>2, <3>3 DEF PlainQuiet, InStep
  <2> QED BY <2>1, InitTyped
<1>2. Inv /\ [Next]_vars => Inv'
    BY NextTyped, NextPlainQuiet
<1>3. Inv => PlainPingsLeaveConn
    BY DEF PlainQuiet, PlainPingsLeaveConn
<1> QED BY <1>1, <1>2, <1>3, PTL DEF Spec
=============================================================================
