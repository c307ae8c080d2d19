--------------------------- MODULE UpgradeProofs ---------------------------
(***************************************************************************)
(* Proofs about Upgrade, for any number of faults of the network: the       *)
(* state's types, that the rounds implement the single exchange of          *)
(* UpgradeExchange, that in order no frame is taken for a message of the    *)
(* upgrade, and that both ends that get through share their secret.         *)
(***************************************************************************)
EXTENDS Upgrade, Integers, SequenceTheorems, TLAPS

-----------------------------------------------------------------------------
(* The script. *)

(* Which rounds exchange a peer info, a key, and the muxer's name.          *)
LEMMA ScriptFacts ==
    /\ Rounds = 1..8 /\ Last = 16
    /\ \A r \in 1..8 : /\ Script[r] \in Protos \cup {"key", "info"}
                       /\ Script[r] = "info" <=> r = 6
                       /\ Script[r] = "mplex" <=> r = 8
<1>1. Len(Script) = 8 /\ DOMAIN Script = 1..8
    BY DEF Script
<1>2. \A r \in 1..8 : r = 1 \/ r = 2 \/ r = 3 \/ r = 4 \/ r = 5 \/ r = 6 \/ r = 7 \/ r = 8
    OBVIOUS
<1>3. /\ Script[1] = "multiselect" /\ Script[2] = "dh" /\ Script[3] = "key"
      /\ Script[4] = "multiselect" /\ Script[5] = "identify" /\ Script[6] = "info"
      /\ Script[7] = "multiselect" /\ Script[8] = "mplex"
    BY DEF Script
<1> QED BY <1>1, <1>2, <1>3 DEF Rounds, Last, Protos

(* The number of messages of the script.                                    *)
LEMMA LastFact == Last = 16
BY ScriptFacts

(* An end that is upgrading is in one of the rounds.                        *)
LEMMA RoundFacts ==
    ASSUME TypeOK, NEW e \in Ends, done[e] < Last
    PROVE  /\ done[e] \in 0..15 /\ Round(e) \in 1..8
           /\ Round(e) = 6 <=> done[e] \in {10, 11}
           /\ Round(e) = 8 <=> done[e] \in {14, 15}
<1>1. done[e] \in 0..15
    BY LastFact DEF TypeOK
<1> DEFINE d == done[e]
<1>2. Round(e) = d \div 2 + 1
    BY DEF Round
<1> HIDE DEF d
<1>3. d \in 0..15
    BY <1>1 DEF d
<1>4. /\ d \div 2 + 1 \in 1..8
      /\ d \div 2 + 1 = 6 <=> d \in {10, 11}
      /\ d \div 2 + 1 = 8 <=> d \in {14, 15}
    BY <1>3
<1> QED BY <1>1, <1>2, <1>4 DEF d

(* What an end says is a message of its own.                                *)
LEMMA SaysFacts ==
    ASSUME NEW e \in Ends, NEW r \in 1..8
    PROVE  /\ Says(e, r) \in Messages /\ Says(e, r).from = e
           /\ Says(e, r).what = "mplex" => r = 8
           /\ Says("dialer", r).what = Script[r]
BY ScriptFacts DEF Says, Messages, Protos

-----------------------------------------------------------------------------
(* Types. *)

(* A panic changes the task and the connections.                            *)
LEMMA PanicTypes ==
    ASSUME TypeOK, NEW e \in Ends, Panics(e)
    PROVE  /\ task' \in [Ends -> {"upgrade", "registered", "dead"}]
           /\ open' \in [Ends -> BOOLEAN]
<1>1. task' \in [Ends -> {"upgrade", "registered", "dead"}]
    BY DEF TypeOK, Panics
<1>2. open' \in [Ends -> BOOLEAN]
    BY Zenon DEF TypeOK, Panics
<1> QED BY <1>1, <1>2

(* A round has two messages: none is counted beyond the last.               *)
LEMMA DoneTypes ==
    ASSUME TypeOK, NEW e \in Ends, done[e] < Last, done' = [done EXCEPT ![e] = @ + 1]
    PROVE  done' \in [Ends -> 0..Last] /\ done'[e] = done[e] + 1
<1>1. done \in [Ends -> 0..16]
    BY LastFact DEF TypeOK
<1>2. done[e] + 1 \in 0..16
    BY <1>1, LastFact
<1> QED BY <1>1, <1>2, LastFact

(* The steps of an end.                                                     *)
LEMMA EndTypes ==
    ASSUME TypeOK, NEW e \in Ends, EndStep(e) \/ MuxerReads(e) \/ MuxerWrites(e)
    PROVE  TypeOK'
<1> USE UpgradeAssumption
<1>0. Other(e) \in Ends
    BY DEF Other, Ends
<1>1. CASE Sends(e)
    <2>1. done[e] < Last /\ Round(e) \in 1..8
        BY <1>1, RoundFacts DEF Sends, Speaks, Upgrading
    <2>2. Says(e, Round(e)) \in Messages
        BY <2>1, SaysFacts
    <2>3. done' \in [Ends -> 0..Last]
        BY <1>1, <2>1, DoneTypes DEF Sends
    <2>4. chan' \in [Ends -> Seq(Messages)]
        BY <1>0, <1>1, <2>2 DEF Sends, TypeOK
    <2> QED BY <1>1, <2>3, <2>4 DEF Sends, TypeOK
<1>2. CASE SendFails(e)
    BY <1>2, PanicTypes DEF SendFails, TypeOK
<1>3. CASE Receives(e)
    <2> DEFINE m == Head(chan[e])
    <2>1. done[e] < Last /\ chan[e] \in Seq(Messages) /\ chan[e] # <<>>
        BY <1>3 DEF Receives, Listens, Upgrading, TypeOK
    <2>2a. m \in Messages /\ Tail(chan[e]) \in Seq(Messages)
        BY <2>1
    <2> HIDE DEF m
    <2>2. m.from \in Ends /\ Tail(chan[e]) \in Seq(Messages)
        BY <2>2a DEF Messages
    <2>3. chan' \in [Ends -> Seq(Messages)]
        BY <1>3, <2>2 DEF Receives, TypeOK
    <2>4. task' \in [Ends -> {"upgrade", "registered", "dead"}] /\ open' \in [Ends -> BOOLEAN]
        BY <1>3, PanicTypes DEF Receives, TypeOK
    <2>5a. done' = done \/ done' = [done EXCEPT ![e] = @ + 1]
        BY <1>3 DEF Receives
    <2>5. done' \in [Ends -> 0..Last]
        BY <2>1, <2>5a, DoneTypes DEF TypeOK
    <2>6. secret' = secret \/ secret' = [secret EXCEPT ![e] = Cipher(e, m)]
        BY <1>3 DEF Receives, m
    <2>7. Cipher(e, m) \subseteq Ends /\ e \in Cipher(e, m)
        BY <2>2 DEF Cipher
    <2>8. secret' \in [Ends -> SUBSET Ends] /\ \A x \in Ends : secret'[x] # {} => x \in secret'[x]
        <3>1. secret \in [Ends -> SUBSET Ends] /\ \A x \in Ends : secret[x] # {} => x \in secret[x]
            BY DEF TypeOK
        <3>2. CASE secret' = secret
            BY <3>1, <3>2
        <3> DEFINE c == Cipher(e, m)
        <3>3. CASE secret' = [secret EXCEPT ![e] = c]
            <4> HIDE DEF c
            <4>1. c \subseteq Ends /\ e \in c
                BY <2>7 DEF c
            <4>2. secret' \in [Ends -> SUBSET Ends]
                BY <3>1, <3>3, <4>1
            <4>3. \A x \in Ends : secret'[x] = IF x = e THEN c ELSE secret[x]
                BY <3>1, <3>3
            <4> QED BY <3>1, <4>1, <4>2, <4>3
        <3> QED BY <2>6, <3>2, <3>3
    <2>9. remote' = remote \/ remote' = [remote EXCEPT ![e] = m.from]
        BY <1>3 DEF Receives, m
    <2>10. remote' \in [Ends -> Ends \cup {Nobody}]
        BY <2>2, <2>9 DEF TypeOK
    <2> QED BY <1>3, <2>3, <2>4, <2>5, <2>8, <2>10 DEF Receives, TypeOK
<1>4. CASE ReceiveFails(e)
    BY <1>4, PanicTypes DEF ReceiveFails, TypeOK
<1>5. CASE Registers(e)
    BY <1>5 DEF Registers, TypeOK
<1>6. CASE MuxerReads(e)
    <2>1. Tail(chan[e]) \in Seq(Messages)
        BY <1>6 DEF MuxerReads, TypeOK
    <2>2. task' \in [Ends -> {"upgrade", "registered", "dead"}] /\ open' \in [Ends -> BOOLEAN]
        BY <1>6, PanicTypes DEF MuxerReads, TypeOK
    <2> QED BY <1>6, <2>1, <2>2 DEF MuxerReads, TypeOK
<1>7. CASE MuxerWrites(e)
    <2>1. [what |-> "frame", from |-> e] \in Messages
        BY DEF Messages
    <2>2. chan' \in [Ends -> Seq(Messages)]
        BY <1>0, <1>7, <2>1 DEF MuxerWrites, TypeOK
    <2>3. frames' \in [Ends -> 0..MaxFrames]
        BY <1>7 DEF MuxerWrites, TypeOK
    <2>4. cut' \in [Ends -> BOOLEAN]
        BY <1>7, Zenon DEF MuxerWrites, ReadDropped, TypeOK
    <2> QED BY <1>7, <2>2, <2>3, <2>4 DEF MuxerWrites, TypeOK
<1> QED BY <1>1, <1>2, <1>3, <1>4, <1>5, <1>6, <1>7 DEF EndStep

NetStep == Breaks \/ \E e \in Ends : Loses(e) \/ Duplicates(e) \/ Overtakes(e)

(* What the network does to the messages on their way: it only drops,        *)
(* repeats and moves them.                                                   *)
LEMMA NetFacts ==
    ASSUME TypeOK, NetStep
    PROVE  /\ chan' \in [Ends -> Seq(Messages)] /\ open' \in [Ends -> BOOLEAN]
           /\ faults' \in 0..MaxFaults
           /\ UNCHANGED <<transport, odd, cut, done, task, secret, remote, peer_store, frames>>
           /\ \A x \in Ends : \A i \in DOMAIN chan'[x] : \E j \in DOMAIN chan[x] :
                  chan'[x][i] = chan[x][j]
<1> USE UpgradeAssumption
<1>1. CASE Breaks
    BY <1>1 DEF Breaks, Faulty, TypeOK
<1>2. ASSUME NEW e \in Ends, Loses(e) \/ Duplicates(e) \/ Overtakes(e)
      PROVE  /\ chan' \in [Ends -> Seq(Messages)] /\ open' \in [Ends -> BOOLEAN]
             /\ faults' \in 0..MaxFaults
             /\ UNCHANGED <<transport, odd, cut, done, task, secret, remote, peer_store, frames>>
             /\ \A x \in Ends : \A i \in DOMAIN chan'[x] : \E j \in DOMAIN chan[x] :
                    chan'[x][i] = chan[x][j]
    <2> DEFINE q == chan[e]
               q2 == chan'[e]
    <2>0. faults' \in 0..MaxFaults
        BY <1>2 DEF Loses, Duplicates, Overtakes, Faulty, TypeOK
    <2>1. /\ q \in Seq(Messages) /\ q # <<>>
          /\ \/ chan' = [chan EXCEPT ![e] = Tail(q)]
             \/ chan' = [chan EXCEPT ![e] = Append(q, Head(q))]
             \/ chan' = [chan EXCEPT ![e] = Append(Tail(q), Head(q))]
        BY <1>2 DEF Loses, Duplicates, Overtakes, TypeOK
    <2>2. /\ q2 = Tail(q) \/ q2 = Append(q, Head(q)) \/ q2 = Append(Tail(q), Head(q))
          /\ chan' = [chan EXCEPT ![e] = q2]
        BY <2>1 DEF TypeOK
    <2> HIDE DEF q, q2
    <2>3. q2 \in Seq(Messages)
        <3>1. Head(q) \in Messages /\ Tail(q) \in Seq(Messages)
            BY <2>1
        <3> DEFINE h == Head(q)
                   t == Tail(q)
        <3> HIDE DEF h, t
        <3>2. Append(q, h) \in Seq(Messages) /\ Append(t, h) \in Seq(Messages)
            BY <2>1, <3>1 DEF h, t
        <3> QED BY <2>2, <3>1, <3>2 DEF h, t
    <2>4. \A i \in DOMAIN q2 : \E j \in DOMAIN q : q2[i] = q[j]
        <3>1. Len(q) \in Nat \ {0} /\ Head(q) = q[1] /\ Len(Tail(q)) = Len(q) - 1
            BY <2>1
        <3>2. \A i \in 1..Len(Tail(q)) : Tail(q)[i] = q[i + 1]
            BY <2>1
        <3>3. CASE q2 = Tail(q)
            BY <2>1, <3>1, <3>2, <3>3
        <3>4. CASE q2 = Append(q, Head(q))
            <4>1. Len(q2) = Len(q) + 1 /\ q2[Len(q) + 1] = q[1] /\ \A i \in 1..Len(q) : q2[i] = q[i]
                BY <2>1, <3>1, <3>4
            <4> QED BY <2>1, <2>3, <3>1, <4>1
        <3>5. CASE q2 = Append(Tail(q), Head(q))
            <4>1. /\ Len(q2) = Len(q) /\ q2[Len(q)] = q[1]
                  /\ \A i \in 1..(Len(q) - 1) : q2[i] = q[i + 1]
                BY <2>1, <3>1, <3>2, <3>5
            <4>2. DOMAIN q2 = 1..Len(q) /\ DOMAIN q = 1..Len(q)
                BY <2>1, <2>3, <4>1
            <4> SUFFICES ASSUME NEW i \in 1..Len(q) PROVE \E j \in 1..Len(q) : q2[i] = q[j]
                BY <4>2
            <4>3. CASE i = Len(q)
                BY <3>1, <4>1, <4>3
            <4>4. CASE i # Len(q)
                <5>1. Len(q) \in Nat
                    BY <3>1
                <5>2. i \in 1..(Len(q) - 1) /\ i + 1 \in 1..Len(q)
                    BY <4>4, <5>1
                <5> QED BY <4>1, <5>2
            <4> QED BY <4>3, <4>4
        <3> QED BY <2>2, <3>3, <3>4, <3>5
    <2>5. chan' \in [Ends -> Seq(Messages)]
        BY <2>2, <2>3 DEF TypeOK
    <2>6. \A x \in Ends : \A i \in DOMAIN chan'[x] : \E j \in DOMAIN chan[x] :
              chan'[x][i] = chan[x][j]
        BY <2>2, <2>4 DEF TypeOK, q
    <2>7. UNCHANGED <<open, transport, odd, cut, done, task, secret, remote, peer_store, frames>>
        BY <1>2 DEF Loses, Duplicates, Overtakes, Faulty
    <2>8. open' \in [Ends -> BOOLEAN]
        BY <2>7 DEF TypeOK
    <2> QED BY <2>0, <2>5, <2>6, <2>7, <2>8
<1> QED BY <1>1, <1>2 DEF NetStep

(* A step is of the network or of an end.                                   *)
LEMMA NextCases ==
    ASSUME Next
    PROVE  NetStep \/ \E e \in Ends : EndStep(e) \/ MuxerReads(e) \/ MuxerWrites(e)
BY DEF Next, NetStep

(* Both ends of an upgrade, and the messages between them, keep their types. *)
THEOREM TypeCorrect == Spec => []TypeOK
<1>1. Init => TypeOK
    BY UpgradeAssumption, LastFact DEF Init, TypeOK
<1>2. TypeOK /\ [Next]_vars => TypeOK'
    <2> SUFFICES ASSUME TypeOK, [Next]_vars PROVE TypeOK'
        OBVIOUS
    <2>1. CASE NetStep
        BY <2>1, NetFacts DEF TypeOK
    <2>2. CASE \E e \in Ends : EndStep(e) \/ MuxerReads(e) \/ MuxerWrites(e)
        BY <2>2, EndTypes
    <2>3. CASE UNCHANGED vars
        BY <2>3 DEF vars, TypeOK
    <2> QED BY <2>1, <2>2, <2>3, NextCases
<1> QED BY <1>1, <1>2, PTL DEF Spec

-----------------------------------------------------------------------------
(* The rounds implement the exchange. *)

(* Messages name who wrote them, the last message to the dialer is only ever *)
(* on its way when the listener is through, and whoever is past the exchange *)
(* of peer infos knows the other end.                                        *)
Underway ==
    \A e \in Ends : \A i \in DOMAIN chan[e] :
        /\ chan[e][i].from = Other(e)
        /\ e = "dialer" /\ chan[e][i].what = "mplex" => done["listener"] = Last
Informed == \A e \in Ends :
    done[e] >= (IF e = "dialer" THEN 11 ELSE 12) => remote[e] = Other(e)
RegisteredDone == \A e \in Ends : task[e] = "registered" => done[e] = Last

Inv == TypeOK /\ Underway /\ Informed /\ RegisteredDone

(* There are two ends.                                                      *)
LEMMA OtherFacts ==
    \A e \in Ends : Other(e) \in Ends /\ Other(e) # e /\ Other(Other(e)) = e
BY DEF Other, Ends

(* Messages that leave a queue take nothing away from Underway ...           *)
LEMMA UnderwayFewer ==
    ASSUME Underway, UNCHANGED done \/ done'["listener"] = done["listener"],
           \A x \in Ends : \A i \in DOMAIN chan'[x] : \E j \in DOMAIN chan[x] :
               chan'[x][i] = chan[x][j]
    PROVE  Underway'
BY DEF Underway

(* ... as when the first one is taken, ...                                  *)
LEMMA TailFewer ==
    ASSUME TypeOK, NEW e \in Ends, chan[e] # <<>>, chan' = [chan EXCEPT ![e] = Tail(@)]
    PROVE  \A x \in Ends : \A i \in DOMAIN chan'[x] : \E j \in DOMAIN chan[x] :
               chan'[x][i] = chan[x][j]
<1> DEFINE q == chan[e]
<1>1. q \in Seq(Messages) /\ q # <<>> /\ chan' = [chan EXCEPT ![e] = Tail(q)]
    BY DEF TypeOK
<1>2. chan'[e] = Tail(q) /\ \A x \in Ends : x # e => chan'[x] = chan[x]
    BY <1>1 DEF TypeOK
<1> HIDE DEF q
<1>3. \A i \in DOMAIN Tail(q) : i + 1 \in DOMAIN q /\ Tail(q)[i] = q[i + 1]
    BY <1>1
<1> QED BY <1>2, <1>3 DEF q

(* ... and a message of the right author nothing either.                     *)
LEMMA UnderwayMore ==
    ASSUME TypeOK, Underway, NEW e \in Ends, NEW m \in Messages, m.from = e,
           chan' = [chan EXCEPT ![Other(e)] = Append(@, m)],
           done["listener"] = Last => done'["listener"] = Last,
           e = "listener" /\ m.what = "mplex" => done'["listener"] = Last
    PROVE  Underway'
<1> DEFINE o == Other(e)
           q == chan[o]
<1>1. o \in Ends /\ Other(o) = e /\ (o = "dialer" => e = "listener")
    BY OtherFacts DEF Other, Ends
<1>2. q \in Seq(Messages) /\ chan' = [chan EXCEPT ![o] = Append(q, m)]
    BY <1>1 DEF TypeOK
<1>3. chan'[o] = Append(q, m) /\ \A x \in Ends : x # o => chan'[x] = chan[x]
    BY <1>1, <1>2 DEF TypeOK
<1> HIDE DEF o, q
<1>4. \A i \in DOMAIN Append(q, m) :
          Append(q, m)[i] = m \/ (i \in DOMAIN q /\ Append(q, m)[i] = q[i])
    <2>1. /\ Len(q) \in Nat /\ DOMAIN q = 1..Len(q) /\ DOMAIN Append(q, m) = 1..(Len(q) + 1)
          /\ Append(q, m)[Len(q) + 1] = m /\ \A i \in 1..Len(q) : Append(q, m)[i] = q[i]
        BY <1>2
    <2>2. \A i \in 1..(Len(q) + 1) : i \in 1..Len(q) \/ i = Len(q) + 1
        BY <2>1
    <2>3. SUFFICES ASSUME NEW i \in 1..(Len(q) + 1)
                   PROVE  Append(q, m)[i] = m \/ (i \in 1..Len(q) /\ Append(q, m)[i] = q[i])
        BY <2>1
    <2> QED BY <2>1, <2>2, <2>3
<1>5. SUFFICES ASSUME NEW x \in Ends, NEW i \in DOMAIN chan'[x]
               PROVE  /\ chan'[x][i].from = Other(x)
                      /\ x = "dialer" /\ chan'[x][i].what = "mplex" => done'["listener"] = Last
    BY DEF Underway
<1>6. CASE x # o \/ chan'[x][i] # m
    <2>1. i \in DOMAIN chan[x] /\ chan'[x][i] = chan[x][i]
        BY <1>3, <1>4, <1>5, <1>6 DEF q
    <2> QED BY <2>1 DEF Underway
<1>7. CASE x = o /\ chan'[x][i] = m
    BY <1>1, <1>7
<1> QED BY <1>6, <1>7

(* What a step of an end is to the rest of the invariant: it goes on, it     *)
(* panics, or it does neither.                                               *)
Learns(e) == done[e] = IF e = "dialer" THEN 10 ELSE 11
Advances(e) ==
    /\ task[e] = "upgrade" /\ done[e] < Last
    /\ done' = [done EXCEPT ![e] = @ + 1]
    /\ task' = task
    /\ remote' = (IF Learns(e) THEN [remote EXCEPT ![e] = Other(e)] ELSE remote)
    /\ e = "dialer" /\ done[e] = 15 => done["listener"] = Last
Stays(e) ==
    /\ UNCHANGED <<done, remote>>
    /\ \/ task' = [task EXCEPT ![e] = "dead"]
       \/ task' = task
       \/ done[e] = Last /\ task[e] = "upgrade" /\ task' = [task EXCEPT ![e] = "registered"]

(* Every step of an end advances it or leaves it where it is.                *)
LEMMA EndKinds ==
    ASSUME Inv, NEW e \in Ends, EndStep(e) \/ MuxerReads(e) \/ MuxerWrites(e)
    PROVE  (Advances(e) \/ Stays(e)) /\ Underway'
<1>0. TypeOK /\ Underway /\ Other(e) \in Ends
    BY OtherFacts DEF Inv
<1>1. CASE Sends(e)
    <2> DEFINE m == Says(e, Round(e))
    <2>1. /\ done[e] < Last /\ task[e] = "upgrade" /\ done' = [done EXCEPT ![e] = @ + 1]
          /\ chan' = [chan EXCEPT ![Other(e)] = Append(@, m)]
          /\ UNCHANGED <<task, remote>> /\ Speaks(e)
        BY <1>1 DEF Sends, Speaks, Upgrading
    <2>2. /\ done[e] \in 0..15 /\ Round(e) \in 1..8
          /\ Round(e) = 6 <=> done[e] \in {10, 11}
          /\ Round(e) = 8 <=> done[e] \in {14, 15}
        BY <1>0, <2>1, RoundFacts
    <2>3. m \in Messages /\ m.from = e /\ (m.what = "mplex" => Round(e) = 8)
        BY <2>2, SaysFacts
    <2> HIDE DEF m
    <2>4. SpeaksFirst(e, Round(e)) <=> (e = "dialer") = (Round(e) # 6)
        BY <2>2, ScriptFacts DEF SpeaksFirst
    <2>5. SpeaksFirst(e, Round(e)) <=> done[e] % 2 = 0
        BY <2>1 DEF Speaks
    <2>6. ~Learns(e) /\ (e = "dialer" => done[e] # 15)
        BY <2>2, <2>4, <2>5 DEF Learns, Ends
    <2>7. e = "listener" /\ Round(e) = 8 => done[e] = 15
        BY <2>2, <2>4, <2>5
    <2>8. Advances(e)
        BY <2>1, <2>6 DEF Advances
    <2>9. done'[e] = done[e] + 1 /\ (e # "listener" => done'["listener"] = done["listener"])
        BY <1>0, <2>1 DEF TypeOK, Ends
    <2>10. Underway'
        <3>1. done["listener"] = Last => done'["listener"] = Last
            BY <2>1, <2>9, LastFact
        <3>2. e = "listener" /\ m.what = "mplex" => done'["listener"] = Last
            BY <2>3, <2>7, <2>9, LastFact
        <3> QED BY <1>0, <2>1, <2>3, <3>1, <3>2, UnderwayMore
    <2> QED BY <2>8, <2>10
<1>2. CASE SendFails(e)
    BY <1>0, <1>2 DEF SendFails, Panics, Stays, Underway
<1>3. CASE Receives(e)
    <2> DEFINE m == Head(chan[e])
    <2>1. /\ done[e] < Last /\ task[e] = "upgrade" /\ chan[e] # <<>> /\ Listens(e) /\ ~Speaks(e)
          /\ chan' = [chan EXCEPT ![e] = Tail(@)]
        BY <1>3 DEF Receives, Listens, Upgrading
    <2>2. /\ done[e] \in 0..15 /\ Round(e) \in 1..8
          /\ Round(e) = 6 <=> done[e] \in {10, 11}
          /\ Round(e) = 8 <=> done[e] \in {14, 15}
        BY <1>0, <2>1, RoundFacts
    <2>3. 1 \in DOMAIN chan[e] /\ m = chan[e][1]
        BY <1>0, <2>1 DEF TypeOK
    <2>4. m.from = Other(e) /\ (e = "dialer" /\ m.what = "mplex" => done["listener"] = Last)
        BY <1>0, <2>3 DEF Underway
    <2> HIDE DEF m
    <2>5. SpeaksFirst(e, Round(e)) <=> (e = "dialer") = (Round(e) # 6)
        BY <2>2, ScriptFacts DEF SpeaksFirst
    <2>6. SpeaksFirst(e, Round(e)) <=> done[e] % 2 # 0
        <3>1. SpeaksFirst(e, Round(e)) \in BOOLEAN
            BY DEF SpeaksFirst
        <3>2. Upgrading(e)
            BY <2>1 DEF Listens
        <3> QED BY <2>1, <3>1, <3>2 DEF Speaks
    <2>7. Round(e) = 6 <=> Learns(e)
        BY <2>2, <2>5, <2>6 DEF Learns, Ends
    <2>8. \A x \in Ends : \A i \in DOMAIN chan'[x] :
              \E j \in DOMAIN chan[x] : chan'[x][i] = chan[x][j]
        BY <1>0, <2>1, TailFewer
    <2>9. CASE Fits(e, Round(e), m)
        <3>1. /\ done' = [done EXCEPT ![e] = @ + 1] /\ task' = task
              /\ remote' = IF Script[Round(e)] = "info" THEN [remote EXCEPT ![e] = m.from]
                                                        ELSE remote
            BY <1>3, <2>9 DEF Receives, m
        <3>2. Script[Round(e)] = "info" <=> Round(e) = 6
            BY <2>2, ScriptFacts
        <3>3. e = "dialer" /\ Round(e) = 8 => m.what = "mplex"
            <4>1. SUFFICES ASSUME e = "dialer", Round(e) = 8 PROVE m.what = "mplex"
                OBVIOUS
            <4>2. Script[8] = "mplex" /\ Says(e, 8).what = "mplex"
                BY <4>1, ScriptFacts, SaysFacts
            <4> QED BY <2>9, <4>1, <4>2 DEF Fits, Selected
        <3>4. Advances(e)
            BY <2>1, <2>2, <2>4, <2>7, <3>1, <3>2, <3>3 DEF Advances
        <3>5. e # "listener" => done'["listener"] = done["listener"]
            BY <1>0, <3>1 DEF TypeOK, Ends
        <3>6. e = "listener" => done["listener"] # Last
            BY <2>1, <2>2, LastFact
        <3>7. Underway'
            BY <1>0, <2>8, <3>5, <3>6 DEF Underway, Ends
        <3> QED BY <3>4, <3>7
    <2>10. CASE ~Fits(e, Round(e), m)
        <3>1. Panics(e) /\ UNCHANGED <<done, remote>>
            BY <1>3, <2>10 DEF Receives, m
        <3>2. Stays(e)
            BY <3>1 DEF Panics, Stays
        <3>3. Underway'
            BY <1>0, <2>8, <3>1 DEF Underway
        <3> QED BY <3>2, <3>3
    <2> QED BY <2>9, <2>10
<1>4. CASE ReceiveFails(e)
    BY <1>0, <1>4 DEF ReceiveFails, Panics, Stays, Underway
<1>5. CASE Registers(e)
    BY <1>0, <1>5 DEF Registers, Stays, Underway
<1>6. CASE MuxerReads(e)
    <2>1. /\ chan[e] # <<>> /\ chan' = [chan EXCEPT ![e] = Tail(@)] /\ UNCHANGED <<done, remote>>
          /\ task' = task \/ task' = [task EXCEPT ![e] = "dead"]
        BY <1>6 DEF MuxerReads, Panics
    <2>2. \A x \in Ends : \A i \in DOMAIN chan'[x] :
              \E j \in DOMAIN chan[x] : chan'[x][i] = chan[x][j]
        BY <1>0, <2>1, TailFewer
    <2> QED BY <1>0, <2>1, <2>2 DEF Stays, Underway
<1>7. CASE MuxerWrites(e)
    <2> DEFINE m == [what |-> "frame", from |-> e]
    <2>1. m \in Messages /\ m.from = e /\ m.what # "mplex"
        BY DEF Messages
    <2>2. chan' = [chan EXCEPT ![Other(e)] = Append(@, m)] /\ UNCHANGED <<done, remote, task>>
        BY <1>7 DEF MuxerWrites
    <2> HIDE DEF m
    <2>3. Underway'
        BY <1>0, <2>1, <2>2, UnderwayMore
    <2> QED BY <2>2, <2>3 DEF Stays
<1> QED BY <1>1, <1>2, <1>3, <1>4, <1>5, <1>6, <1>7 DEF EndStep

(* Both kinds keep what is left of the invariant.                            *)
LEMMA NextInv == Inv /\ [Next]_vars => Inv'
<1> SUFFICES ASSUME Inv, [Next]_vars PROVE Inv'
    OBVIOUS
<1>1. CASE UNCHANGED vars
    BY <1>1 DEF vars, Inv, TypeOK, Underway, Informed, RegisteredDone
<1>2. CASE NetStep
    <2>1. UNCHANGED <<done, task, remote>> /\ TypeOK'
        BY <1>2, NetFacts DEF Inv, TypeOK
    <2>2. Underway'
        BY <1>2, <2>1, NetFacts, UnderwayFewer DEF Inv
    <2> QED BY <2>1, <2>2 DEF Inv, Informed, RegisteredDone
<1>3. ASSUME NEW e \in Ends, EndStep(e) \/ MuxerReads(e) \/ MuxerWrites(e)
      PROVE  Inv'
    <2>1. TypeOK' /\ Underway' /\ (Advances(e) \/ Stays(e))
        BY <1>3, EndKinds, EndTypes DEF Inv
    <2>2. /\ done \in [Ends -> 0..16] /\ remote \in [Ends -> Ends \cup {Nobody}]
          /\ task \in [Ends -> {"upgrade", "registered", "dead"}] /\ Informed /\ RegisteredDone
        BY LastFact DEF Inv, TypeOK
    <2>3. CASE Stays(e)
        <3>1. Informed'
            BY <2>2, <2>3 DEF Stays, Informed
        <3>2. RegisteredDone'
            BY <2>2, <2>3 DEF Stays, RegisteredDone
        <3> QED BY <2>1, <3>1, <3>2 DEF Inv
    <2>4. CASE Advances(e)
        <3>1. \A x \in Ends : done'[x] = IF x = e THEN done[e] + 1 ELSE done[x]
            BY <2>2, <2>4 DEF Advances
        <3>2. \A x \in Ends : remote'[x] = IF x = e /\ Learns(e) THEN Other(e) ELSE remote[x]
            BY <2>2, <2>4 DEF Advances
        <3>3. Informed'
            BY <2>2, <3>1, <3>2 DEF Informed, Learns
        <3>4. RegisteredDone'
            BY <2>2, <2>4, <3>1 DEF Advances, RegisteredDone
        <3> QED BY <2>1, <3>3, <3>4 DEF Inv
    <2> QED BY <2>1, <2>3, <2>4
<1> QED BY <1>1, <1>2, <1>3, NextCases

(* Nothing is said in the beginning.                                        *)
LEMMA InitInv == Init => Inv
<1> SUFFICES ASSUME Init PROVE Inv
    OBVIOUS
<1>1. TypeOK
    BY UpgradeAssumption, LastFact DEF Init, TypeOK
<1>2. Underway
    BY DEF Init, Underway
<1>3. Informed /\ RegisteredDone
    BY DEF Init, Informed, RegisteredDone
<1> QED BY <1>1, <1>2, <1>3 DEF Inv

(* The refinement mapping of a step of an end.                               *)
LEMMA EndRefines ==
    ASSUME Inv, NEW e \in Ends, Advances(e) \/ Stays(e), Informed'
    PROVE  [Exchange!Next]_(Exchange!vars)
<1> DEFINE outcome == [x \in Ends |-> Outcome(x)]
           known == [x \in Ends |-> IF done[x] = Last THEN remote[x] ELSE Nobody]
<1>1. /\ done \in [Ends -> 0..16] /\ remote \in [Ends -> Ends \cup {Nobody}]
      /\ task \in [Ends -> {"upgrade", "registered", "dead"}] /\ Last = 16
      /\ RegisteredDone /\ Other(e) \in Ends
    BY LastFact, OtherFacts DEF Inv, TypeOK
<1>2. outcome' = [x \in Ends |-> Outcome(x)'] /\
      known' = [x \in Ends |-> IF done'[x] = Last THEN remote'[x] ELSE Nobody]
    BY LastFact
<1>3. CASE Stays(e)
    <2>1. known' = known
        BY <1>3 DEF Stays
    <2>2. CASE done[e] # Last /\ task[e] = "upgrade" /\ task' = [task EXCEPT ![e] = "dead"]
        <3>1. /\ Outcome(e) = "busy" /\ Outcome(e)' = "dead"
              /\ \A x \in Ends : x # e => Outcome(x)' = Outcome(x)
            BY <1>1, <1>3, <2>2 DEF Stays, Outcome
        <3>2. outcome' = [outcome EXCEPT ![e] = "dead"] /\ outcome[e] = "busy"
            BY <1>2, <3>1
        <3> QED BY <2>1, <3>2 DEF Exchange!Next, Exchange!Dies, Ends
    <2>3. CASE ~(done[e] # Last /\ task[e] = "upgrade" /\ task' = [task EXCEPT ![e] = "dead"])
        <3>1. \A x \in Ends : Outcome(x)' = Outcome(x)
            BY <1>1, <1>3, <2>3 DEF Stays, Outcome, RegisteredDone
        <3>2. outcome' = outcome
            BY <1>2, <3>1
        <3> QED BY <2>1, <3>2 DEF Exchange!vars
    <2> QED BY <2>2, <2>3
<1>4. CASE Advances(e)
    <2>1. /\ \A x \in Ends : done'[x] = IF x = e THEN done[e] + 1 ELSE done[x]
          /\ \A x \in Ends : x # e => remote'[x] = remote[x]
          /\ task' = task /\ done[e] # Last /\ task[e] = "upgrade"
        BY <1>1, <1>4 DEF Advances
    <2>2. \A x \in Ends : x # e => Outcome(x)' = Outcome(x)
        BY <2>1 DEF Outcome
    <2>3. Outcome(e) = "busy" /\ known[e] = Nobody
        BY <2>1 DEF Outcome
    <2>4. CASE done[e] = 15
        <3>1. done'[e] = Last /\ Outcome(e)' = "through"
            BY <1>1, <2>1, <2>4 DEF Outcome
        <3>2. remote'[e] = Other(e)
            BY <1>1, <3>1 DEF Informed
        <3>3. outcome' = [outcome EXCEPT ![e] = "through"] /\ outcome[e] = "busy"
            BY <1>2, <2>2, <2>3, <3>1
        <3>4. known' = [known EXCEPT ![e] = Other(e)]
            BY <1>2, <2>1, <3>1, <3>2
        <3>5. e = "dialer" => outcome["listener"] = "through"
            <4>1. e = "dialer" => done["listener"] = Last
                BY <1>4, <2>4 DEF Advances
            <4>2. "listener" \in Ends
                BY DEF Ends
            <4>3. done["listener"] = Last => Outcome("listener") = "through"
                BY DEF Outcome
            <4> QED BY <4>1, <4>2, <4>3
        <3> QED BY <3>3, <3>4, <3>5 DEF Exchange!Next, Exchange!Through, Other, Ends
    <2>5. CASE done[e] # 15
        <3>1. done'[e] # Last /\ Outcome(e)' = "busy"
            BY <1>1, <2>1, <2>5 DEF Outcome
        <3>2. outcome' = outcome
            BY <1>2, <2>2, <2>3, <3>1
        <3>3. known' = known
            BY <1>2, <2>1, <3>1
        <3> QED BY <3>2, <3>3 DEF Exchange!vars
    <2> QED BY <2>4, <2>5
<1> QED BY <1>3, <1>4

(* Every round, fault and panic of an upgrade is a step of the exchange that *)
(* Swarm takes it for, or none (conn_handler).                                *)
THEOREM RefinesExchange == Spec => ExchangeSpec
<1>1. Spec => []Inv
    BY InitInv, NextInv, PTL DEF Spec
<1>2. Init => Exchange!Init
    BY LastFact DEF Init, Exchange!Init, Outcome, Ends
<1>3. Inv /\ Inv' /\ [Next]_vars => [Exchange!Next]_(Exchange!vars)
    <2> SUFFICES ASSUME Inv, Inv', [Next]_vars PROVE [Exchange!Next]_(Exchange!vars)
        OBVIOUS
    <2>1. CASE UNCHANGED vars
        BY <2>1 DEF vars, Exchange!vars, Outcome
    <2>2. CASE NetStep
        BY <2>2, NetFacts DEF Exchange!vars, Outcome, Inv
    <2>3. ASSUME NEW e \in Ends, EndStep(e) \/ MuxerReads(e) \/ MuxerWrites(e)
          PROVE  [Exchange!Next]_(Exchange!vars)
        BY <2>3, EndKinds, EndRefines DEF Inv
    <2> QED BY <2>1, <2>2, <2>3, NextCases
<1> QED BY <1>1, <1>2, <1>3, PTL DEF Spec, ExchangeSpec, Exchange!Spec

-----------------------------------------------------------------------------
(* What each end has said and heard. *)

(* At which counts of messages an end speaks, how many of its messages it    *)
(* has received then, and how many it has sent.                              *)
TalksAt(e, d) == IF e = "dialer" THEN d = 11 \/ (d % 2 = 0 /\ d # 10)
                                 ELSE d = 10 \/ (d % 2 = 1 /\ d # 11)
GotAt(e, d) == IF e = "dialer" THEN (IF d = 11 THEN 6 ELSE d \div 2)
                               ELSE (IF d = 11 THEN 5 ELSE (d + 1) \div 2)
Got(e) == GotAt(e, done[e])
Sent(e) == done[e] - Got(e)

(* The counts are of eight messages each way.                               *)
LEMMA GotFacts ==
    ASSUME NEW e \in Ends, NEW d \in 0..16
    PROVE  /\ GotAt(e, d) \in 0..8 /\ d - GotAt(e, d) \in 0..8
           /\ GotAt(e, d) = 8 /\ e = "dialer" => d = 16
           /\ d = 16 <=> (GotAt(e, d) = 8 /\ d - GotAt(e, d) = 8)
           /\ e = "dialer" => d - GotAt(e, d) =< GotAt(e, d) + 1
BY DEF GotAt, Ends

(* A turn adds one to the one or to the other.                              *)
LEMMA TurnFacts ==
    ASSUME NEW e \in Ends, NEW d \in 0..15
    PROVE  /\ d + 1 \in 0..16
           /\ TalksAt(e, d) =>
                /\ GotAt(e, d + 1) = GotAt(e, d)
                /\ d \div 2 + 1 = d - GotAt(e, d) + 1
                /\ e = "dialer" => d - GotAt(e, d) =< GotAt(e, d)
           /\ ~TalksAt(e, d) =>
                /\ GotAt(e, d + 1) = GotAt(e, d) + 1
                /\ d \div 2 + 1 = GotAt(e, d) + 1
                /\ e = "listener" /\ d # 11 => d % 2 = 0 /\ d # 10
<1>1. CASE e = "dialer"
    BY <1>1 DEF GotAt, TalksAt
<1>2. CASE e = "listener"
    BY <1>2 DEF GotAt, TalksAt
<1> QED BY <1>1, <1>2 DEF Ends

(* Whose turn it is.                                                         *)
LEMMA Turns ==
    ASSUME TypeOK, NEW e \in Ends, Upgrading(e)
    PROVE  /\ done[e] \in 0..15 /\ Round(e) \in 1..8 /\ Round(e) = done[e] \div 2 + 1
           /\ Speaks(e) <=> TalksAt(e, done[e])
           /\ Listens(e) <=> ~TalksAt(e, done[e])
<1>1. /\ done[e] \in 0..15 /\ Round(e) \in 1..8
      /\ Round(e) = 6 <=> done[e] \in {10, 11}
    BY RoundFacts DEF Upgrading
<1>2. SpeaksFirst(e, Round(e)) <=> (e = "dialer") = (Round(e) # 6)
    BY <1>1, ScriptFacts DEF SpeaksFirst
<1>3. SpeaksFirst(e, Round(e)) \in BOOLEAN
    BY DEF SpeaksFirst
<1>4. Speaks(e) <=> (SpeaksFirst(e, Round(e)) <=> done[e] % 2 = 0)
    BY <1>3 DEF Speaks
<1>5. Speaks(e) <=> TalksAt(e, done[e])
    BY <1>1, <1>2, <1>4 DEF TalksAt, Ends
<1> QED BY <1>1, <1>5 DEF Round, Listens

(* What both ends have counted.                                              *)
LEMMA Counted ==
    ASSUME TypeOK, NEW e \in Ends
    PROVE  /\ done[e] \in 0..16 /\ Got(e) \in 0..8 /\ Sent(e) \in 0..8
           /\ Got(e) = 8 /\ e = "dialer" => done[e] = 16
           /\ done[e] = 16 <=> (Got(e) = 8 /\ Sent(e) = 8)
           /\ e = "dialer" => Sent(e) =< Got(e) + 1
<1>1. done[e] \in 0..16
    BY LastFact DEF TypeOK
<1> QED BY <1>1, GotFacts DEF Got, Sent

(* Speaking, an end counts the message of its round as sent, and hearing     *)
(* one as received.                                                          *)
LEMMA Counts ==
    ASSUME TypeOK, NEW e \in Ends, Upgrading(e), done' = [done EXCEPT ![e] = @ + 1]
    PROVE  /\ Speaks(e) => /\ Got(e)' = Got(e) /\ Sent(e)' = Sent(e) + 1
                           /\ Round(e) = Sent(e) + 1
                           /\ e = "dialer" => Sent(e) =< Got(e)
           /\ Listens(e) => /\ Got(e)' = Got(e) + 1 /\ Sent(e)' = Sent(e)
                            /\ Round(e) = Got(e) + 1
                            /\ Got(e) < 8
           /\ \A x \in Ends : x # e => Got(x)' = Got(x) /\ Sent(x)' = Sent(x)
<1> DEFINE d == done[e]
<1>1. /\ d \in 0..15 /\ Round(e) \in 1..8 /\ Round(e) = d \div 2 + 1
      /\ Speaks(e) <=> TalksAt(e, d)
      /\ Listens(e) <=> ~TalksAt(e, d)
    BY Turns
<1>2. done'[e] = d + 1 /\ \A x \in Ends : x # e => done'[x] = done[x]
    BY DEF TypeOK
<1>5. /\ Got(e) = GotAt(e, d) /\ Sent(e) = d - GotAt(e, d)
      /\ Got(e)' = GotAt(e, d + 1) /\ Sent(e)' = (d + 1) - GotAt(e, d + 1)
    <2> DEFINE n == done'[e]
    <2>1. Got(e)' = GotAt(e, n) /\ Sent(e)' = n - GotAt(e, n)
        BY DEF Got, Sent
    <2>2. Got(e) = GotAt(e, d) /\ Sent(e) = d - GotAt(e, d)
        BY DEF Got, Sent
    <2>3. n = d + 1
        BY <1>2
    <2> HIDE DEF d, n
    <2> QED BY <2>1, <2>2, <2>3
<1> HIDE DEF d
<1>3. /\ TalksAt(e, d) =>
           /\ GotAt(e, d + 1) = GotAt(e, d)
           /\ d \div 2 + 1 = d - GotAt(e, d) + 1
           /\ e = "dialer" => d - GotAt(e, d) =< GotAt(e, d)
      /\ ~TalksAt(e, d) =>
           /\ GotAt(e, d + 1) = GotAt(e, d) + 1
           /\ d \div 2 + 1 = GotAt(e, d) + 1
    BY <1>1, TurnFacts
<1>4. GotAt(e, d) \in 0..8
    BY <1>1, GotFacts
<1>6. \A x \in Ends : x # e => Got(x)' = Got(x) /\ Sent(x)' = Sent(x)
    BY <1>2 DEF Got, Sent
<1>7. Round(e) - 1 < 8
    BY <1>1
<1>8. Speaks(e) => /\ Got(e)' = Got(e) /\ Sent(e)' = Sent(e) + 1
                   /\ Round(e) = Sent(e) + 1 /\ (e = "dialer" => Sent(e) =< Got(e))
    BY <1>1, <1>3, <1>4, <1>5
<1>9. Listens(e) => /\ Got(e)' = Got(e) + 1 /\ Sent(e)' = Sent(e)
                    /\ Round(e) = Got(e) + 1 /\ Got(e) < 8
    BY <1>1, <1>3, <1>4, <1>5, <1>7
<1> QED BY <1>6, <1>8, <1>9

-----------------------------------------------------------------------------
(* In order, the queue to an end holds what the other has said and it has    *)
(* not heard, and then the frames of a muxer, unless the end died of a       *)
(* protocol it does not know: the other then waits for its reply.            *)
Orderly == transport = "tcp" \/ faults = 0
MuxerFrame(e) == [what |-> "frame", from |-> e]
InOrder(e) == LET o == Other(e)
                  n == Sent(o) - Got(e) IN
    /\ Got(e) =< Sent(o) /\ n =< Len(chan[e])
    /\ \A i \in DOMAIN chan[e] :
        chan[e][i] = IF i =< n THEN Says(o, Got(e) + i) ELSE MuxerFrame(o)
    /\ Len(chan[e]) > n => done[o] = 16
Deaf(e) ==
    /\ e = "listener" /\ task[e] = "dead" /\ chan[e] = <<>>
    /\ done[e] < 16 /\ Sent(e) = Got(e) /\ Sent("dialer") = Got(e) + 1
QueuesInOrder == Orderly => \A e \in Ends : InOrder(e) \/ Deaf(e)

(* A listener of another build stops at the round they differ in, ...        *)
OddStops == Orderly /\ odd # 0 => done["listener"] =< 2 * (odd - 1)

(* ... and an end registers its peer once, and dies of nothing but a frame   *)
(* cut in two.                                                               *)
Unregistered == \A e \in Ends : task[e] = "upgrade" => peer_store[e] = Nobody
DiesOfACut == Orderly => \A e \in Ends : task[e] = "dead" /\ peer_store[e] # Nobody => cut[e]

OrderInv == Inv /\ QueuesInOrder /\ OddStops /\ Unregistered /\ DiesOfACut

(* The messages of a queue without its first one.                           *)
LEMMA TailElements ==
    ASSUME NEW q \in Seq(Messages), q # <<>>
    PROVE  /\ Len(q) \in Nat \ {0} /\ Head(q) = q[1] /\ 1 \in DOMAIN q
           /\ Tail(q) \in Seq(Messages) /\ Len(Tail(q)) = Len(q) - 1
           /\ \A i \in DOMAIN Tail(q) : i + 1 \in DOMAIN q /\ Tail(q)[i] = q[i + 1]
OBVIOUS

(* The only message of a queue leaves it empty.                             *)
LEMMA SingleTail ==
    ASSUME NEW q \in Seq(Messages), Len(q) = 1
    PROVE  Tail(q) = <<>>
<1>1. q # <<>>
    BY EmptySeq
<1>2. Tail(q) \in Seq(Messages) /\ Len(Tail(q)) = 0
    BY <1>1
<1> QED BY <1>2, EmptySeq

(* The messages of a queue with one more at its end.                        *)
LEMMA AppendElements ==
    ASSUME NEW q \in Seq(Messages), NEW m \in Messages
    PROVE  /\ Append(q, m) \in Seq(Messages) /\ Len(q) \in Nat /\ Len(Append(q, m)) = Len(q) + 1
           /\ Append(q, m)[Len(q) + 1] = m
           /\ \A i \in DOMAIN Append(q, m) :
                i = Len(q) + 1 \/ (i \in DOMAIN q /\ Append(q, m)[i] = q[i])
OBVIOUS

(* Orderly or not, a queue changes by one message at one end.                *)
LEMMA QueueOf ==
    ASSUME TypeOK, NEW e \in Ends, NEW q, chan' = [chan EXCEPT ![e] = q]
    PROVE  chan'[e] = q /\ \A x \in Ends : x # e => chan'[x] = chan[x]
BY DEF TypeOK

(* The listener that is deaf keeps the dialer from going on.                 *)
LEMMA DeafKeeps ==
    ASSUME TypeOK, Deaf("listener"), InOrder("dialer")
    PROVE  Got("dialer") =< Got("listener") /\ Got("dialer") < Sent("dialer") /\ done["dialer"] < 16
<1>1. "dialer" \in Ends /\ "listener" \in Ends /\ Other("dialer") = "listener"
    BY DEF Ends, Other
<1>2. Got("dialer") =< Sent("listener") /\ Sent("listener") = Got("listener")
    BY <1>1 DEF InOrder, Deaf
<1>3. Sent("dialer") = Got("listener") + 1
    BY DEF Deaf
<1>4. Got("dialer") \in 0..8 /\ Got("listener") \in 0..8
    BY <1>1, Counted
<1>5. done["dialer"] \in 0..16 /\ (done["dialer"] = 16 => Got("dialer") = Sent("dialer"))
    BY <1>1, Counted
<1> QED BY <1>2, <1>3, <1>4, <1>5

(* An end that speaks adds the message the other is to hear next.            *)
LEMMA SendsInOrder ==
    ASSUME Inv, Orderly, \A x \in Ends : InOrder(x) \/ Deaf(x), NEW e \in Ends, Sends(e)
    PROVE  \A x \in Ends : (InOrder(x) \/ Deaf(x))'
<1> DEFINE o == Other(e)
           q == chan[o]
           m == Says(e, Round(e))
<1>0. TypeOK /\ o \in Ends /\ o # e /\ Other(o) = e /\ \A x \in Ends : x = e \/ x = o
    BY OtherFacts DEF Inv, Other, Ends
<1>1. /\ Upgrading(e) /\ Speaks(e) /\ done' = [done EXCEPT ![e] = @ + 1]
      /\ chan' = [chan EXCEPT ![o] = Append(q, m)] /\ task' = task /\ odd' = odd
      /\ task[e] = "upgrade" /\ done[e] < 16
    BY <1>0, LastFact DEF Sends, Speaks, Upgrading, TypeOK
<1>2. /\ Got(e)' = Got(e) /\ Sent(e)' = Sent(e) + 1 /\ Round(e) = Sent(e) + 1
      /\ e = "dialer" => Sent(e) =< Got(e)
      /\ Got(o)' = Got(o) /\ Sent(o)' = Sent(o) /\ Round(e) \in 1..8
    BY <1>0, <1>1, Counts, Turns
<1>3. Got(e) \in 0..8 /\ Sent(e) \in 0..8 /\ Got(o) \in 0..8 /\ Sent(o) \in 0..8
    BY <1>0, Counted
<1>4. m \in Messages /\ q \in Seq(Messages)
    BY <1>0, <1>2, SaysFacts DEF TypeOK
<1>5. chan'[o] = Append(q, m) /\ chan'[e] = chan[e]
    BY <1>0, <1>1, QueueOf
<1>6. done'[o] = done[o]
    BY <1>0, <1>1 DEF TypeOK
<1>7. ~Deaf(e) /\ InOrder(e)
    BY <1>1 DEF Deaf
<1>8. InOrder(e)'
    <2>1. \A i : Says(o, i)' = Says(o, i)
        BY <1>1 DEF Says
    <2> HIDE DEF o
    <2> QED BY <1>2, <1>5, <1>6, <1>7, <2>1 DEF InOrder, MuxerFrame, o
<1>9. ~Deaf(o)
    <2>1. SUFFICES ASSUME Deaf(o) PROVE FALSE
        OBVIOUS
    <2>2. o = "listener" /\ e = "dialer"
        BY <1>0, <2>1 DEF Deaf, Ends
    <2>3. Got(e) < Sent(e)
        BY <1>0, <1>7, <2>1, <2>2, DeafKeeps
    <2> QED BY <1>2, <1>3, <2>2, <2>3
<1>10. InOrder(o)'
    <2> DEFINE n == Sent(e) - Got(o)
               q2 == Append(q, m)
    <2>1. /\ Got(o) =< Sent(e) /\ n =< Len(q)
          /\ \A i \in DOMAIN q : q[i] = IF i =< n THEN Says(e, Got(o) + i) ELSE MuxerFrame(e)
          /\ Len(q) > n => done[e] = 16
        BY <1>0, <1>9 DEF InOrder
    <2>2. m = Says(e, Got(o) + (n + 1))
        BY <1>2, <1>3, <2>1
    <2> HIDE DEF m, q
    <2>3. /\ q2 \in Seq(Messages) /\ Len(q) \in Nat /\ Len(q2) = Len(q) + 1
          /\ q2[Len(q) + 1] = m
          /\ \A i \in DOMAIN q2 : i = Len(q) + 1 \/ (i \in DOMAIN q /\ q2[i] = q[i])
          /\ DOMAIN q = 1..Len(q)
        BY <1>4, AppendElements
    <2> HIDE DEF q2
    <2>4. n \in Int /\ n = Len(q) /\ Sent(e)' - Got(o)' = n + 1
        BY <1>1, <1>2, <1>3, <2>1, <2>3
    <2> HIDE DEF n
    <2>5. \A i \in DOMAIN q2 : q2[i] = IF i =< n + 1 THEN Says(e, Got(o) + i) ELSE MuxerFrame(e)
        BY <2>1, <2>2, <2>3, <2>4
    <2>6. \A i : Says(e, i)' = Says(e, i)
        BY <1>1 DEF Says
    <2>7. chan'[o] = q2 /\ Got(o)' =< Sent(e)'
        BY <1>2, <1>3, <1>5, <2>1 DEF q2
    <2> HIDE DEF o
    <2>8. Len(q2) = n + 1
        BY <2>3, <2>4
    <2>9. \A i \in DOMAIN chan'[o] : chan'[o][i] =
              IF i =< Sent(e)' - Got(o)' THEN Says(e, Got(o) + i)' ELSE MuxerFrame(e)'
        BY <1>2, <2>4, <2>5, <2>6, <2>7 DEF MuxerFrame
    <2> QED BY <1>0, <2>4, <2>7, <2>8, <2>9 DEF InOrder
<1> QED BY <1>0, <1>8, <1>10

(* What an end hears is what the other said in that round.                   *)
LEMMA HearsItsRound ==
    ASSUME TypeOK, NEW e \in Ends, InOrder(e), Listens(e), chan[e] # <<>>
    PROVE  /\ Round(e) = Got(e) + 1 /\ Round(e) \in 1..8 /\ Got(e) < Sent(Other(e))
           /\ Head(chan[e]) = Says(Other(e), Round(e))
<1> DEFINE o == Other(e)
           q == chan[e]
<1>0. o \in Ends /\ Upgrading(e)
    BY OtherFacts DEF Listens
<1>1. Round(e) \in 1..8 /\ done[e] \in 0..15 /\ Round(e) = done[e] \div 2 + 1
      /\ ~TalksAt(e, done[e])
    BY <1>0, Turns
<1>2. Got(e) \in 0..8 /\ Sent(o) \in 0..8 /\ (done[o] = 16 => Sent(o) = 8)
    BY <1>0, Counted
<1>3. Round(e) = Got(e) + 1
    BY <1>1, TurnFacts DEF Got
<1>4. q \in Seq(Messages) /\ q # <<>>
    BY DEF TypeOK
<1> HIDE DEF q
<1>5. Len(q) \in Nat \ {0} /\ Head(q) = q[1] /\ 1 \in DOMAIN q
    BY <1>4, TailElements
<1> DEFINE n == Sent(o) - Got(e)
<1>6. /\ Got(e) =< Sent(o) /\ n =< Len(q)
      /\ \A i \in DOMAIN q : q[i] = IF i =< n THEN Says(o, Got(e) + i) ELSE MuxerFrame(o)
      /\ Len(q) > n => done[o] = 16
    BY DEF InOrder, q
<1>7. n \in Int /\ n >= 1
    BY <1>1, <1>2, <1>3, <1>5, <1>6
<1>8. q[1] = Says(o, Got(e) + 1)
    BY <1>5, <1>6, <1>7
<1> QED BY <1>1, <1>2, <1>3, <1>5, <1>7, <1>8 DEF q

(* A queue in order is in order without its first message.                   *)
LEMMA TailInOrder ==
    ASSUME TypeOK, NEW e \in Ends, InOrder(e), chan[e] # <<>>,
           chan' = [chan EXCEPT ![e] = Tail(@)], UNCHANGED odd, UNCHANGED done[Other(e)],
           \/ Got(e) < Sent(Other(e)) /\ Got(e)' = Got(e) + 1 
           \/ Got(e) = Sent(Other(e)) /\ Got(e)' = Got(e)
    PROVE  InOrder(e)'
<1> DEFINE o == Other(e)
           q == chan[e]
           q2 == Tail(q)
           n == Sent(o) - Got(e)
           n2 == Sent(o) - Got(e)'
<1>0. o \in Ends
    BY OtherFacts
<1>1. q \in Seq(Messages) /\ q # <<>> /\ chan'[e] = q2
    BY QueueOf DEF TypeOK
<1>2. /\ Got(e) =< Sent(o) /\ n =< Len(q)
      /\ \A i \in DOMAIN q : q[i] = IF i =< n THEN Says(o, Got(e) + i) ELSE MuxerFrame(o)
      /\ Len(q) > n => done[o] = 16
    BY DEF InOrder
<1>3. Got(e) \in 0..8 /\ Sent(o) \in 0..8
    BY <1>0, Counted
<1>4. Sent(o)' = Sent(o)
    BY DEF Sent, Got
<1> HIDE DEF q
<1>5. /\ Len(q) \in Nat \ {0} /\ q2 \in Seq(Messages) /\ Len(q2) = Len(q) - 1
      /\ \A i \in DOMAIN q2 : i + 1 \in DOMAIN q /\ q2[i] = q[i + 1]
    BY <1>1, TailElements
<1> HIDE DEF q2
<1>6. DOMAIN q2 \subseteq Nat
    BY <1>5
<1>7. (n >= 1 /\ n2 = n - 1 /\ Got(e)' = Got(e) + 1) \/ (n = 0 /\ n2 = 0 /\ Got(e)' = Got(e))
    BY <1>3
<1>8. n \in Int /\ n2 \in Int /\ Got(e)' =< Sent(o)
    BY <1>3
<1> HIDE DEF n, n2
<1>9. \A i \in DOMAIN q2 : q2[i] = IF i =< n2 THEN Says(o, Got(e)' + i) ELSE MuxerFrame(o)
    <2> SUFFICES ASSUME NEW i \in DOMAIN q2
                 PROVE  q2[i] = IF i =< n2 THEN Says(o, Got(e)' + i) ELSE MuxerFrame(o)
        OBVIOUS
    <2>1. i \in Nat /\ q2[i] = IF i + 1 =< n THEN Says(o, Got(e) + (i + 1)) ELSE MuxerFrame(o)
        BY <1>2, <1>5, <1>6
    <2>2. i + 1 =< n <=> (i =< n2 /\ n >= 1)
        BY <1>7, <1>8, <2>1
    <2>3. n >= 1 => Got(e) + (i + 1) = Got(e)' + i
        BY <1>3, <1>7, <1>8, <2>1
    <2>4. i \in DOMAIN q2 => i >= 1
        BY <1>5
    <2> QED BY <1>7, <1>8, <2>1, <2>2, <2>3, <2>4
<1>10. n2 =< Len(q2) /\ (Len(q2) > n2 => done[o] = 16)
    BY <1>2, <1>5, <1>7, <1>8
<1>11. \A i : Says(o, i)' = Says(o, i)
    BY DEF Says
<1>12. chan'[e] = q2 /\ Sent(o)' - Got(e)' = n2 /\ done'[o] = done[o] /\ Got(e)' =< Sent(o)'
    BY <1>1, <1>4, <1>8 DEF n2
<1> HIDE DEF o
<1>13. \A i \in DOMAIN chan'[e] : chan'[e][i] =
           IF i =< Sent(o)' - Got(e)' THEN Says(o, Got(e) + i)' ELSE MuxerFrame(o)'
    BY <1>9, <1>11, <1>12 DEF MuxerFrame
<1> QED BY <1>10, <1>12, <1>13 DEF InOrder, o

(* An end of the same build accepts what it hears; the listener of another   *)
(* build does not, and then hears nothing more.                              *)
LEMMA ReceivesInOrder ==
    ASSUME OrderInv, Orderly, NEW e \in Ends, Receives(e)
    PROVE  (\A x \in Ends : (InOrder(x) \/ Deaf(x))') /\ OddStops'
<1> DEFINE o == Other(e)
           m == Head(chan[e])
           r == Round(e)
<1>0. /\ TypeOK /\ o \in Ends /\ o # e /\ Other(o) = e /\ \A x \in Ends : x = e \/ x = o
      /\ \A x \in Ends : InOrder(x) \/ Deaf(x)
    BY OtherFacts DEF OrderInv, QueuesInOrder, Inv, Other, Ends
<1>1. /\ Upgrading(e) /\ Listens(e) /\ chan[e] # <<>> /\ task[e] = "upgrade" /\ done[e] < 16
      /\ chan' = [chan EXCEPT ![e] = Tail(@)] /\ odd' = odd
    BY LastFact DEF Receives, Listens, Upgrading
<1>2. InOrder(e) /\ chan'[o] = chan[o]
    BY <1>0, <1>1, QueueOf DEF Deaf
<1>3. r = Got(e) + 1 /\ r \in 1..8 /\ Got(e) < Sent(o) /\ m = Says(o, r)
    BY <1>0, <1>1, <1>2, HearsItsRound
<1>4. /\ done[e] \in 0..15 /\ r = done[e] \div 2 + 1 /\ ~TalksAt(e, done[e])
      /\ r = 6 <=> done[e] \in {10, 11}
    BY <1>0, <1>1, Turns, RoundFacts, LastFact DEF TypeOK
<1>5. /\ Got(e) \in 0..8 /\ Sent(e) \in 0..8 /\ Got(o) \in 0..8 /\ Sent(o) \in 0..8
      /\ done[e] \in 0..16 /\ done[o] \in 0..16
    BY <1>0, Counted
<1>6. odd \in 1..8 \cup {0} /\ odd # 6 /\ odd # 3
    BY <1>0, ScriptFacts DEF TypeOK, Selects, Script
<1>7. CASE Fits(e, r, m)
    <2>1. done' = [done EXCEPT ![e] = @ + 1] /\ task' = task
        BY <1>1, <1>3, <1>7 DEF Receives
    <2>2. /\ Got(e)' = Got(e) + 1 /\ Sent(e)' = Sent(e) /\ Got(o)' = Got(o) /\ Sent(o)' = Sent(o)
          /\ done'[o] = done[o] /\ done'[e] = done[e] + 1
        BY <1>0, <1>1, <2>1, Counts DEF TypeOK
    <2>3. InOrder(e)'
        BY <1>0, <1>1, <1>2, <1>3, <2>2, TailInOrder
    <2>4. InOrder(o) => InOrder(o)'
        <3>1. \A i : Says(e, i)' = Says(e, i)
            BY <1>1 DEF Says
        <3>2. done[e] # 16
            BY <1>1
        <3> HIDE DEF o
        <3> QED BY <1>0, <1>2, <2>2, <3>1, <3>2 DEF InOrder, MuxerFrame
    <2>5. Deaf(o) => Deaf(o)'
        BY <1>0, <1>2, <2>1, <2>2 DEF Deaf, Ends
    <2>6. OddStops'
        <3>1. SUFFICES ASSUME odd # 0 PROVE done'["listener"] =< 2 * (odd - 1)
            BY <1>1 DEF OddStops
        <3>2. done["listener"] =< 2 * (odd - 1)
            BY <3>1 DEF OrderInv, OddStops
        <3>3. CASE e = "listener"
            <4>1. r # odd
                <5>1. SUFFICES ASSUME r = odd PROVE FALSE
                    OBVIOUS
                <5>2. Says(e, r).what = "another"
                    BY <3>3, <5>1 DEF Says
                <5>3. o = "dialer" /\ m.what = Script[r]
                    BY <1>3, <3>3, SaysFacts DEF Other, Ends
                <5>4. Script[r] \notin {"key", "info", "another"}
                    BY <1>0, <3>1, <5>1, ScriptFacts DEF TypeOK, Selects, Script
                <5> QED BY <1>7, <5>2, <5>3, <5>4 DEF Fits, Selected
            <4>2. done[e] # 2 * (odd - 1)
                BY <1>4, <1>6, <3>1, <4>1
            <4> QED BY <1>4, <1>6, <2>2, <3>1, <3>2, <3>3, <4>2
        <3>4. CASE e = "dialer"
            BY <1>0, <2>2, <3>2, <3>4 DEF Other
        <3> QED BY <3>3, <3>4 DEF Ends
    <2> QED BY <1>0, <2>3, <2>4, <2>5, <2>6
<1>8. CASE ~Fits(e, r, m)
    <2>1. /\ done' = done /\ task' = [task EXCEPT ![e] = "dead"]
        BY <1>1, <1>3, <1>8 DEF Receives, Panics
    <2>2. /\ \A x \in Ends : Got(x)' = Got(x) /\ Sent(x)' = Sent(x)
        BY <2>1 DEF Got, Sent
    <2>3. OddStops'
        BY <1>0, <1>1, <2>1 DEF OrderInv, OddStops, Orderly, Receives
    <2>4. e = "listener" /\ o = "dialer" /\ r = odd
        <3>1. Says("dialer", r).what = Script[r] /\ Script[r] \in Protos \cup {"key", "info"}
            BY <1>3, SaysFacts, ScriptFacts DEF Ends
        <3>2. CASE e = "listener"
            <4>1. o = "dialer"
                BY <3>2 DEF Other
            <4>2. r # odd => Says(e, r).what = Script[r]
                BY DEF Says
            <4> QED BY <1>3, <1>8, <3>1, <3>2, <4>1, <4>2 DEF Fits, Selected
        <3>3. CASE e = "dialer"
            <4>1. o = "listener"
                BY <3>3 DEF Other
            <4>2. r # odd => m.what = Script[r]
                BY <1>3 DEF Says
            <4>3. r # odd => Fits(e, r, m)
                BY <3>1, <3>3, <4>2 DEF Fits, Selected
            <4>4. r = odd
                BY <1>8, <4>3
            <4>5. done["listener"] =< 2 * (odd - 1)
                BY <1>3, <4>4 DEF OrderInv, OddStops
            <4>6. Sent(o) < odd
                BY <1>5, <1>6, <4>1, <4>4, <4>5, <1>3 DEF Sent, Got, GotAt
            <4> QED BY <1>3, <1>5, <1>6, <4>4, <4>6
        <3> QED BY <3>2, <3>3 DEF Ends
    <2>5. InOrder(o)
        BY <1>0, <2>4 DEF Deaf
    <2>6. InOrder(o)'
        <3>1. \A i : Says(e, i)' = Says(e, i)
            BY <1>1 DEF Says
        <3> HIDE DEF o
        <3> QED BY <1>0, <1>2, <2>1, <2>2, <2>5, <3>1 DEF InOrder, MuxerFrame
    <2>7. Deaf(e)'
        <3>1. Got(o) =< Sent(e) /\ Sent(o) =< Got(o) + 1
            BY <1>0, <2>4, <2>5, Counted DEF InOrder
        <3>2. Sent(e) = Got(e)
            <4>1. done[e] # 11
                BY <1>4, <1>6, <2>4
            <4>2. done[e] % 2 = 0
                BY <1>0, <1>4, <2>4, <4>1, TurnFacts
            <4> QED BY <1>4, <2>4, <4>1, <4>2 DEF Sent, Got, GotAt
        <3>3. Sent(o) = Got(e) + 1
            BY <1>3, <1>5, <3>1, <3>2
        <3>4. done[o] # 16
            BY <1>0, <1>3, <1>5, <3>1, <3>2, Counted
        <3>5. chan[e] \in Seq(Messages) /\ Len(chan[e]) = 1
            <4>1. Len(chan[e]) \in Nat \ {0} /\ chan[e] \in Seq(Messages)
                BY <1>0, <1>1, TailElements DEF TypeOK
            <4>2. Len(chan[e]) > Sent(o) - Got(e) => done[o] = 16
                BY <1>2 DEF InOrder
            <4>3. Sent(o) - Got(e) = 1
                BY <1>5, <3>3
            <4>4. Len(chan[e]) =< 1
                BY <3>4, <4>1, <4>2, <4>3
            <4> DEFINE l == Len(chan[e])
            <4>5. l \in Nat \ {0} /\ l =< 1
                BY <4>1, <4>4
            <4> HIDE DEF l
            <4>6. l = 1
                BY <4>5
            <4> QED BY <4>1, <4>6 DEF l
        <3>6. chan'[e] = <<>>
            <4>1. Tail(chan[e]) = <<>>
                BY <3>5, SingleTail
            <4> QED BY <1>0, <1>1, <4>1, QueueOf
        <3>7. task'[e] = "dead" /\ done'[e] < 16
            BY <1>0, <1>1, <2>1 DEF TypeOK
        <3> QED BY <2>2, <2>4, <3>2, <3>3, <3>6, <3>7, <1>0 DEF Deaf
    <2> QED BY <1>0, <2>3, <2>6, <2>7
<1> QED BY <1>7, <1>8

(* Where nothing is said or heard, a queue stays in order.                   *)
LEMMA UnmovedInOrder ==
    ASSUME TypeOK, NEW x \in Ends, InOrder(x) \/ Deaf(x), UNCHANGED <<done, odd>>,
           chan'[x] = chan[x], task[x] = "dead" => task'[x] = "dead"
    PROVE  (InOrder(x) \/ Deaf(x))'
<1> DEFINE o == Other(x)
<1>1. Got(x)' = Got(x) /\ Sent(x)' = Sent(x) /\ Got(o)' = Got(o) /\ Sent(o)' = Sent(o)
      /\ Sent("dialer")' = Sent("dialer")
    BY DEF Got, Sent
<1>2. \A i : Says(o, i)' = Says(o, i)
    BY DEF Says
<1> HIDE DEF o
<1>3. InOrder(x) => InOrder(x)'
    BY <1>1, <1>2 DEF InOrder, MuxerFrame, o
<1>4. Deaf(x) => Deaf(x)'
    BY <1>1 DEF Deaf
<1> QED BY <1>3, <1>4

(* A muxer reads frames, as the other end is through as well.                *)
LEMMA MuxerReadsInOrder ==
    ASSUME Inv, Orderly, \A x \in Ends : InOrder(x) \/ Deaf(x), NEW e \in Ends, MuxerReads(e)
    PROVE  (\A x \in Ends : (InOrder(x) \/ Deaf(x))') /\ Head(chan[e]) = MuxerFrame(Other(e))
<1> DEFINE o == Other(e)
           q == chan[e]
<1>0. /\ TypeOK /\ o \in Ends /\ o # e /\ Other(o) = e /\ \A x \in Ends : x = e \/ x = o
    BY OtherFacts DEF Inv, Other, Ends
<1>1. /\ done[e] = 16 /\ chan[e] # <<>> /\ chan' = [chan EXCEPT ![e] = Tail(@)]
      /\ UNCHANGED <<done, odd>>
      /\ task' = task \/ task' = [task EXCEPT ![e] = "dead"]
    BY LastFact DEF MuxerReads, Panics, Inv, RegisteredDone
<1>2. InOrder(e)
    BY <1>1 DEF Deaf
<1>3. Got(e) = 8 /\ Sent(o) \in 0..8
    BY <1>0, <1>1, Counted
<1>4. Got(e) = Sent(o) /\ Got(e)' = Got(e)
    BY <1>1, <1>2, <1>3 DEF InOrder, Got
<1>5. InOrder(e)'
    BY <1>0, <1>1, <1>2, <1>4, TailInOrder
<1>6. (InOrder(o) \/ Deaf(o))'
    <2>1. chan'[o] = chan[o]
        BY <1>0, <1>1, QueueOf
    <2>2. task'[o] = task[o]
        BY <1>0, <1>1 DEF TypeOK
    <2> QED BY <1>0, <1>1, <2>1, <2>2, UnmovedInOrder
<1>7. Head(q) = MuxerFrame(o)
    <2>1. q \in Seq(Messages) /\ q # <<>>
        BY <1>0, <1>1 DEF TypeOK
    <2>2. \A i \in DOMAIN q : q[i] = IF i =< 0 THEN Says(o, Got(e) + i) ELSE MuxerFrame(o)
        BY <1>2, <1>3, <1>4 DEF InOrder
    <2> HIDE DEF q
    <2>3. Head(q) = q[1] /\ 1 \in DOMAIN q
        BY <2>1, TailElements
    <2> QED BY <2>2, <2>3
<1> QED BY <1>0, <1>5, <1>6, <1>7

(* The frames a muxer writes follow all the end has said.                    *)
LEMMA MuxerWritesInOrder ==
    ASSUME Inv, Orderly, \A x \in Ends : InOrder(x) \/ Deaf(x), NEW e \in Ends, MuxerWrites(e)
    PROVE  \A x \in Ends : (InOrder(x) \/ Deaf(x))'
<1> DEFINE o == Other(e)
           q == chan[o]
           m == MuxerFrame(e)
           n == Sent(e) - Got(o)
<1>0. /\ TypeOK /\ o \in Ends /\ o # e /\ Other(o) = e /\ \A x \in Ends : x = e \/ x = o
    BY OtherFacts DEF Inv, Other, Ends
<1>1. /\ done[e] = 16 /\ chan' = [chan EXCEPT ![o] = Append(q, m)]
      /\ UNCHANGED <<done, odd, task>>
    <2>1. chan' = [chan EXCEPT ![o] = Append(@, m)] /\ UNCHANGED <<done, odd, task>>
        BY DEF MuxerWrites, MuxerFrame
    <2>2. done[e] = 16
        BY LastFact DEF MuxerWrites, Inv, RegisteredDone
    <2>3. chan \in [Ends -> Seq(Messages)]
        BY <1>0 DEF TypeOK
    <2> HIDE DEF m, o
    <2> QED BY <1>0, <2>1, <2>2, <2>3
<1>2. chan'[o] = Append(q, m) /\ chan'[e] = chan[e]
    BY <1>0, <1>1, QueueOf
<1>3. (InOrder(e) \/ Deaf(e))'
    BY <1>0, <1>1, <1>2, UnmovedInOrder
<1>4. ~Deaf(o)
    <2>1. SUFFICES ASSUME Deaf(o) PROVE FALSE
        OBVIOUS
    <2>2. o = "listener" /\ e = "dialer"
        BY <1>0, <2>1 DEF Deaf, Ends
    <2>3. ~Deaf(e)
        BY <2>2 DEF Deaf
    <2> QED BY <1>0, <1>1, <2>1, <2>2, <2>3, DeafKeeps
<1>5. /\ Got(o) =< Sent(e) /\ n =< Len(q)
      /\ \A i \in DOMAIN q : q[i] = IF i =< n THEN Says(e, Got(o) + i) ELSE m
    BY <1>0, <1>4 DEF InOrder
<1>6. Got(o) \in 0..8 /\ Sent(e) \in 0..8
    BY <1>0, Counted
<1>7. m \in Messages /\ q \in Seq(Messages)
    BY <1>0 DEF TypeOK, MuxerFrame, Messages
<1>8. /\ Got(o)' = Got(o) /\ Sent(e)' = Sent(e) /\ done'[e] = 16 /\ m' = m
      /\ \A i : Says(e, i)' = Says(e, i)
    BY <1>1 DEF Got, Sent, Says, MuxerFrame
<1> DEFINE q2 == Append(q, m)
<1> HIDE DEF q, m, n
<1>9. /\ q2 \in Seq(Messages) /\ Len(q) \in Nat /\ Len(q2) = Len(q) + 1
      /\ q2[Len(q) + 1] = m
      /\ \A i \in DOMAIN q2 : i = Len(q) + 1 \/ (i \in DOMAIN q /\ q2[i] = q[i])
    BY <1>7, AppendElements
<1>10. n \in Int
    BY <1>6 DEF n
<1> HIDE DEF q2
<1>11. n =< Len(q2) /\ Len(q) + 1 > n
    BY <1>5, <1>9, <1>10
<1>12. \A i \in DOMAIN q2 : q2[i] = IF i =< n THEN Says(e, Got(o) + i) ELSE m
    BY <1>5, <1>9, <1>10, <1>11
<1>13. chan'[o] = q2
    BY <1>2 DEF q2, q, m
<1> HIDE DEF o
<1>14. InOrder(o)'
    <2>1. Sent(e)' - Got(o)' = n
        BY <1>8 DEF n
    <2>2. Got(o)' =< Sent(e)'
        BY <1>5, <1>8
    <2>3. \A i \in DOMAIN chan'[o] : chan'[o][i] =
              IF i =< Sent(e)' - Got(o)' THEN Says(e, Got(o) + i)' ELSE MuxerFrame(e)'
        BY <1>8, <1>12, <1>13, <2>1 DEF m
    <2> QED BY <1>0, <1>8, <1>11, <1>13, <2>1, <2>2, <2>3 DEF InOrder
<1> QED BY <1>0, <1>3, <1>14

(* All queues are empty in the beginning.                                   *)
LEMMA OrderInit == Init => OrderInv
<1> SUFFICES ASSUME Init PROVE OrderInv
    OBVIOUS
<1>1. TypeOK /\ Inv
    BY InitInv DEF Inv
<1>2. \A e \in Ends : Got(e) = 0 /\ Sent(e) = 0
    BY DEF Init, Got, Sent, GotAt, Ends
<1>3. QueuesInOrder
    <2> SUFFICES ASSUME NEW e \in Ends PROVE InOrder(e)
        BY DEF QueuesInOrder
    <2>1. chan[e] = <<>> /\ Got(e) = 0 /\ Sent(Other(e)) = 0
        BY <1>2, OtherFacts DEF Init
    <2> QED BY <2>1 DEF InOrder
<1>4. OddStops
    <2>1. odd \in Nat /\ done["listener"] = 0
        BY <1>1, ScriptFacts DEF Init, TypeOK, Selects, Ends
    <2> QED BY <2>1 DEF OddStops
<1>5. Unregistered /\ DiesOfACut
    BY DEF Init, Unregistered, DiesOfACut
<1> QED BY <1>1, <1>3, <1>4, <1>5 DEF OrderInv

(* The parts of the invariant that only the tasks change.                    *)
LEMMA TasksInOrder ==
    ASSUME OrderInv, NEW e \in Ends, UNCHANGED <<transport, odd>>,
           \/ task' = task /\ peer_store' = peer_store
           \/ /\ task' = [task EXCEPT ![e] = "dead"] /\ peer_store' = peer_store
              /\ task[e] = "upgrade" \/ (Orderly => cut'[e])
           \/ /\ task[e] = "upgrade" /\ task' = [task EXCEPT ![e] = "registered"]
              /\ \A x \in Ends : x # e => peer_store'[x] = peer_store[x],
           \A x \in Ends : cut[x] => cut'[x], faults' = faults
    PROVE  Unregistered' /\ DiesOfACut'
<1>1. TypeOK /\ Unregistered /\ DiesOfACut
    BY DEF OrderInv, Inv
<1>2. Unregistered'
    BY <1>1 DEF TypeOK, Unregistered
<1>3. DiesOfACut'
    BY <1>1 DEF TypeOK, Unregistered, DiesOfACut, Orderly
<1> QED BY <1>2, <1>3

(* The listener's count moves only as it hears.                              *)
LEMMA OddWaits ==
    ASSUME OrderInv, UNCHANGED <<transport, odd, done>>, Orderly' => Orderly
    PROVE  OddStops'
BY DEF OrderInv, OddStops

(* The steps of an end keep the order.                                      *)
LEMMA EndOrder ==
    ASSUME OrderInv, NEW e \in Ends, EndStep(e) \/ MuxerReads(e) \/ MuxerWrites(e)
    PROVE  QueuesInOrder' /\ OddStops' /\ Unregistered' /\ DiesOfACut'
<1>0. /\ Inv /\ TypeOK /\ (Orderly => \A x \in Ends : InOrder(x) \/ Deaf(x))
      /\ OddStops /\ Unregistered /\ DiesOfACut
    BY DEF OrderInv, Inv, QueuesInOrder
<1>1. UNCHANGED <<transport, odd, faults>> /\ (Orderly' <=> Orderly)
    BY DEF EndStep, Sends, SendFails, Receives, ReceiveFails, Registers, MuxerReads, MuxerWrites,
           Orderly
<1>2. CASE Sends(e)
    <2>1. QueuesInOrder'
        BY <1>0, <1>1, <1>2, SendsInOrder DEF QueuesInOrder
    <2>2. Unregistered' /\ DiesOfACut'
        BY <1>1, <1>2, TasksInOrder DEF Sends
    <2>3. OddStops'
        <3>1. SUFFICES ASSUME Orderly, odd # 0 PROVE done'["listener"] =< 2 * (odd - 1)
            BY <1>1 DEF OddStops
        <3>2. done["listener"] =< 2 * (odd - 1)
            BY <1>0, <3>1 DEF OddStops
        <3>3. CASE e = "dialer"
            BY <1>0, <1>2, <3>2, <3>3 DEF Sends, TypeOK, Ends
        <3>4. CASE e = "listener"
            <4>1. Upgrading(e) /\ Speaks(e) /\ done'[e] = done[e] + 1
                BY <1>0, <1>2 DEF Sends, Speaks, TypeOK
            <4>2. done[e] \in 0..15 /\ TalksAt(e, done[e])
                BY <1>0, <4>1, Turns
            <4>3. odd \in 1..8 /\ odd # 6
                BY <1>0, <3>1, ScriptFacts DEF TypeOK, Selects
            <4>4. done[e] # 2 * (odd - 1)
                BY <3>4, <4>2, <4>3 DEF TalksAt
            <4> QED BY <3>2, <3>4, <4>1, <4>2, <4>3, <4>4
        <3> QED BY <3>3, <3>4 DEF Ends
    <2> QED BY <2>1, <2>2, <2>3
<1>3. CASE Receives(e)
    <2>1. QueuesInOrder' /\ OddStops'
        BY <1>1, <1>3, ReceivesInOrder DEF QueuesInOrder, OddStops
    <2>2. task[e] = "upgrade" /\ (task' = task \/ task' = [task EXCEPT ![e] = "dead"])
        BY <1>3 DEF Receives, Listens, Upgrading, Panics
    <2>3. Unregistered' /\ DiesOfACut'
        BY <1>1, <1>3, <2>2, TasksInOrder DEF Receives
    <2> QED BY <2>1, <2>3
<1>4. CASE SendFails(e) \/ ReceiveFails(e) \/ Registers(e)
    <2>1. /\ UNCHANGED <<done, chan, cut>> /\ task[e] = "upgrade"
          /\ \/ task' = [task EXCEPT ![e] = "dead"] /\ peer_store' = peer_store
             \/ /\ task' = [task EXCEPT ![e] = "registered"]
                /\ peer_store' = [peer_store EXCEPT ![e] = remote[e]]
        BY <1>4 DEF SendFails, ReceiveFails, Registers, Panics, Speaks, Listens, Upgrading
    <2>2. QueuesInOrder'
        <3>1. \A x \in Ends : task[x] = "dead" => task'[x] = "dead"
            BY <1>0, <2>1 DEF TypeOK
        <3> QED BY <1>0, <1>1, <2>1, <3>1, UnmovedInOrder DEF QueuesInOrder
    <2>3. \A x \in Ends : x # e => peer_store'[x] = peer_store[x]
        BY <1>0, <2>1 DEF TypeOK
    <2>4. Unregistered' /\ DiesOfACut'
        BY <1>1, <2>1, <2>3, TasksInOrder
    <2> QED BY <1>1, <2>1, <2>2, <2>4, OddWaits
<1>5. CASE MuxerReads(e)
    <2>1. QueuesInOrder'
        BY <1>0, <1>1, <1>5, MuxerReadsInOrder DEF QueuesInOrder
    <2>2. /\ UNCHANGED <<done, cut, peer_store>>
          /\ \/ task' = task
             \/ task' = [task EXCEPT ![e] = "dead"] /\ (cut[e] \/ Head(chan[e]).what # "frame")
        BY <1>5 DEF MuxerReads, Panics
    <2>3. Orderly => Head(chan[e]).what = "frame"
        <3>1. Orderly => Head(chan[e]) = MuxerFrame(Other(e))
            BY <1>0, <1>5, MuxerReadsInOrder
        <3>2. MuxerFrame(Other(e)).what = "frame"
            BY DEF MuxerFrame
        <3> QED BY <3>1, <3>2
    <2>4. Unregistered' /\ DiesOfACut'
        BY <1>1, <2>2, <2>3, TasksInOrder
    <2> QED BY <1>1, <2>1, <2>2, <2>4, OddWaits
<1>6. CASE MuxerWrites(e)
    <2>1. QueuesInOrder'
        BY <1>0, <1>1, <1>6, MuxerWritesInOrder DEF QueuesInOrder
    <2>2. UNCHANGED <<done, task, peer_store>> /\ \A x \in Ends : cut[x] => cut'[x]
        BY <1>0, <1>6, Zenon DEF MuxerWrites, ReadDropped, TypeOK
    <2>3. Unregistered' /\ DiesOfACut'
        BY <1>1, <2>2, TasksInOrder
    <2> QED BY <1>1, <2>1, <2>2, <2>3, OddWaits
<1> QED BY <1>2, <1>3, <1>4, <1>5, <1>6 DEF EndStep

(* No fault of a network that keeps the order moves a message.               *)
LEMMA OrderNext == OrderInv /\ [Next]_vars => OrderInv'
<1> SUFFICES ASSUME OrderInv, [Next]_vars PROVE OrderInv'
    OBVIOUS
<1>0. Inv /\ Inv'
    BY NextInv DEF OrderInv
<1>1. CASE UNCHANGED vars \/ NetStep
    <2>1. UNCHANGED <<transport, odd, cut, done, task, peer_store>>
        BY <1>0, <1>1, NetFacts DEF Inv, vars
    <2>2. Orderly' => Orderly /\ chan' = chan
        <3>1. CASE UNCHANGED vars
            BY <3>1 DEF vars, Orderly
        <3>2. CASE Breaks
            BY <3>2 DEF Breaks, Faulty, Orderly
        <3>3. ASSUME NEW e \in Ends, Loses(e) \/ Duplicates(e) \/ Overtakes(e)
              PROVE  Orderly' => Orderly /\ chan' = chan
            BY <1>0, <3>3 DEF Loses, Duplicates, Overtakes, Faulty, Orderly, Inv, TypeOK
        <3> QED BY <1>1, <3>1, <3>2, <3>3 DEF NetStep
    <2>3. QueuesInOrder'
        BY <1>0, <2>1, <2>2, UnmovedInOrder DEF OrderInv, QueuesInOrder, Inv
    <2>4. OddStops'
        BY <2>1, <2>2, OddWaits
    <2>5. Unregistered' /\ DiesOfACut'
        BY <2>1, <2>2 DEF OrderInv, Unregistered, DiesOfACut
    <2> QED BY <1>0, <2>3, <2>4, <2>5 DEF OrderInv
<1>2. ASSUME NEW e \in Ends, EndStep(e) \/ MuxerReads(e) \/ MuxerWrites(e) PROVE OrderInv'
    BY <1>0, <1>2, EndOrder DEF OrderInv
<1> QED BY <1>1, <1>2, NextCases

(* In order, the upgrade hands a connection to the muxer with every message  *)
(* of the upgrade read and no frame of the muxer lost to it, and a muxer      *)
(* fails only on a frame whose read it has dropped.                          *)
LEMMA OrderHandsOver == OrderInv => CleanHandover
<1> SUFFICES ASSUME OrderInv, Orderly, NEW e \in Ends
             PROVE  /\ chan[e] # <<>> => (Head(chan[e]).what = "frame") = (done[e] = Last)
                    /\ task[e] = "dead" /\ peer_store[e] # Nobody => cut[e]
    BY DEF CleanHandover, Orderly
<1>0. TypeOK /\ (InOrder(e) \/ Deaf(e)) /\ Other(e) \in Ends
    BY OtherFacts DEF OrderInv, Inv, QueuesInOrder
<1>1. ASSUME chan[e] # <<>> PROVE (Head(chan[e]).what = "frame") = (done[e] = Last)
    <2> DEFINE o == Other(e)
               q == chan[e]
               n == Sent(o) - Got(e)
    <2>1. q \in Seq(Messages) /\ q # <<>> /\ InOrder(e)
        BY <1>0, <1>1 DEF TypeOK, Deaf
    <2>2. /\ Got(e) =< Sent(o) /\ n =< Len(q)
          /\ \A i \in DOMAIN q : q[i] = IF i =< n THEN Says(o, Got(e) + i) ELSE MuxerFrame(o)
          /\ Len(q) > n => done[o] = 16
        BY <2>1 DEF InOrder
    <2> HIDE DEF q
    <2>3. Head(q) = q[1] /\ 1 \in DOMAIN q /\ Len(q) \in Nat \ {0}
        BY <2>1, TailElements
    <2>4. /\ Got(e) \in 0..8 /\ Sent(o) \in 0..8 /\ (done[o] = 16 => Sent(o) = 8 /\ Got(o) = 8)
          /\ done[e] = 16 <=> (Got(e) = 8 /\ Sent(e) = 8)
          /\ Sent(e) \in 0..8 /\ Got(o) \in 0..8
        BY <1>0, Counted
    <2>5. CASE n >= 1
        <3>1. Head(q) = Says(o, Got(e) + 1) /\ Got(e) + 1 \in 1..8 /\ Got(e) # 8
            BY <2>2, <2>3, <2>4, <2>5
        <3>2. Says(o, Got(e) + 1).what # "frame"
            BY <3>1, ScriptFacts DEF Says, Protos
        <3> QED BY <2>4, <3>1, <3>2, LastFact DEF q
    <2>6. CASE ~(n >= 1)
        <3>1. n = 0 /\ done[o] = 16 /\ Got(e) = 8
            BY <2>2, <2>3, <2>4, <2>6
        <3>2. Head(q).what = "frame"
            BY <2>2, <2>3, <3>1 DEF MuxerFrame
        <3>3. Sent(e) = 8
            <4>1. ~Deaf(o)
                BY <3>1 DEF Deaf
            <4>2. InOrder(o) /\ Other(o) = e
                BY <1>0, <4>1, OtherFacts DEF OrderInv, QueuesInOrder
            <4>3. Got(o) =< Sent(e)
                BY <4>2 DEF InOrder
            <4> QED BY <2>4, <3>1, <4>3
        <3> QED BY <2>4, <3>1, <3>2, <3>3, LastFact DEF q
    <2> QED BY <2>5, <2>6
<1>2. task[e] = "dead" /\ peer_store[e] # Nobody => cut[e]
    BY DEF OrderInv, DiesOfACut
<1> QED BY <1>1, <1>2

(* Whatever the timing of the two ends, in order no frame of the muxer is    *)
(* taken for a message of the upgrade, nor the reverse (conn_handler).       *)
THEOREM HandoverIsClean == Spec => []CleanHandover
<1>1. Spec => []OrderInv
    BY OrderInit, OrderNext, PTL DEF Spec
<1> QED BY <1>1, OrderHandsOver, PTL

-----------------------------------------------------------------------------
(* The keys. *)

(* In order, whoever is past the exchange of keys has the other's.  After    *)
(* one fault of the network an end may have taken a second "dh" for a key:   *)
(* the key is then still to come, and makes the next round fail.             *)
KeysHeard == Orderly => \A e \in Ends : Got(e) >= 3 => Other(e) \in secret[e]
OneFault == transport = "udp" /\ faults = 1
KeyFollows(e) == LET i == 3 - Got(e) IN
    task[e] = "upgrade" /\ Got(e) =< 2 /\ i \in DOMAIN chan[e] /\ chan[e][i].what = "dh" =>
        \/ Len(chan[e]) = i /\ Sent(Other(e)) = 2
        \/ i + 1 \in DOMAIN chan[e] /\ chan[e][i + 1].what = "key"
SecondDh == OneFault => \A e \in Ends : KeyFollows(e)
Stuck(e) ==
    /\ Got(e) = 3
    /\ \/ task[e] = "dead"
       \/ chan[e] = <<>> /\ Sent(Other(e)) = 2
       \/ chan[e] # <<>> /\ Head(chan[e]).what = "key"
WrongKeyStops(e) == Got(e) >= 3 /\ Other(e) \notin secret[e] => Stuck(e)
WrongKey == OneFault => \A e \in Ends : WrongKeyStops(e)

KeyInv == OrderInv /\ KeysHeard /\ SecondDh /\ WrongKey

(* The rounds of the key exchange.                                          *)
LEMMA KeyScript ==
    \A r \in 1..8 : /\ Script[r] = "key" <=> r = 3
                    /\ Script[r] = "dh" => r = 2
<1>1. \A r \in 1..8 : r = 1 \/ r = 2 \/ r = 3 \/ r = 4 \/ r = 5 \/ r = 6 \/ r = 7 \/ r = 8
    OBVIOUS
<1> QED BY <1>1 DEF Script

(* The second message of each end, and only that one, is "dh", and the third *)
(* one the key.                                                              *)
LEMMA KeyRounds ==
    ASSUME Inv, NEW e \in Ends, NEW r \in 1..8
    PROVE  /\ Says(e, r).what = "dh" => r = 2
           /\ Says(e, 3).what = "key"
           /\ r # 3 => Says(e, r).what # "key"
<1>1. odd # 3
    BY DEF Inv, TypeOK, Selects, Script
<1> QED BY <1>1, KeyScript DEF Says

(* Where a queue and both counts stay, so does what is known of it.          *)
LEMMA KeysStay ==
    ASSUME NEW x \in Ends, Got(x)' = Got(x), chan'[x] = chan[x],
           Sent(Other(x))' = Sent(Other(x)),
           task'[x] = "upgrade" => task[x] = "upgrade",
           task[x] = "dead" => task'[x] = "dead", secret'[x] = secret[x]
    PROVE  /\ KeyFollows(x) => KeyFollows(x)'
           /\ WrongKeyStops(x) => WrongKeyStops(x)'
<1> DEFINE o == Other(x)
<1> HIDE DEF o
<1>1. KeyFollows(x) => KeyFollows(x)'
    BY DEF KeyFollows, o
<1>2. WrongKeyStops(x) => WrongKeyStops(x)'
    BY DEF WrongKeyStops, Stuck, o
<1> QED BY <1>1, <1>2

(* A message more at the end of a queue.                                     *)
LEMMA KeysMore ==
    ASSUME TypeOK, NEW x \in Ends, NEW m \in Messages,
           chan' = [chan EXCEPT ![x] = Append(@, m)],
           Got(x)' = Got(x), UNCHANGED <<task, secret>>,
           m.what = "dh" => Sent(Other(x))' = 2,
           Sent(Other(x)) = 2 => m.what = "key"
    PROVE  /\ KeyFollows(x) => KeyFollows(x)'
           /\ WrongKeyStops(x) => WrongKeyStops(x)'
<1> DEFINE q == chan[x]
           q2 == Append(q, m)
           i == 3 - Got(x)
           o == Other(x)
<1>1. q \in Seq(Messages) /\ chan'[x] = q2 /\ Got(x) \in 0..8
    BY QueueOf, Counted DEF TypeOK
<1> HIDE DEF q
<1>2. /\ q2 \in Seq(Messages) /\ Len(q) \in Nat /\ Len(q2) = Len(q) + 1
      /\ q2[Len(q) + 1] = m
      /\ \A j \in DOMAIN q2 : j = Len(q) + 1 \/ (j \in DOMAIN q /\ q2[j] = q[j])
      /\ \A j \in DOMAIN q : q2[j] = q[j]
      /\ DOMAIN q = 1..Len(q) /\ DOMAIN q2 = 1..(Len(q) + 1)
    BY <1>1, AppendElements
<1>3. i \in Int
    BY <1>1
<1>4. q = <<>> => Head(q2) = m
    BY <1>1, <1>2, EmptySeq
<1>5. q # <<>> => Head(q2) = Head(q) /\ q2 # <<>>
    BY <1>1
<1>6. q2 # <<>>
    BY <1>2, EmptySeq
<1> HIDE DEF q2, i, o
<1>7. ASSUME KeyFollows(x) PROVE KeyFollows(x)'
    <2>1. task[x] = "upgrade" /\ Got(x) =< 2 /\ i \in DOMAIN q /\ q[i].what = "dh" =>
              \/ Len(q) = i /\ Sent(o) = 2
              \/ i + 1 \in DOMAIN q /\ q[i + 1].what = "key"
        BY <1>7 DEF KeyFollows, q, i, o
    <2>2. SUFFICES ASSUME task[x] = "upgrade", Got(x) =< 2, i \in DOMAIN q2, q2[i].what = "dh"
                   PROVE  \/ Len(q2) = i /\ Sent(o)' = 2
                          \/ i + 1 \in DOMAIN q2 /\ q2[i + 1].what = "key"
        BY <1>1 DEF KeyFollows, i, o
    <2>3. CASE i = Len(q) + 1
        BY <1>2, <2>2, <2>3 DEF o
    <2>4. CASE i # Len(q) + 1
        <3>1. i \in DOMAIN q /\ q[i].what = "dh"
            BY <1>2, <2>2, <2>4
        <3>2. CASE Len(q) = i /\ Sent(o) = 2
            <4>1. i + 1 \in DOMAIN q2 /\ q2[i + 1] = m
                BY <1>2, <3>2
            <4> QED BY <3>2, <4>1 DEF o
        <3>3. CASE i + 1 \in DOMAIN q /\ q[i + 1].what = "key"
            <4>1. i + 1 \in DOMAIN q2 /\ q2[i + 1] = q[i + 1]
                BY <1>2, <3>3
            <4> QED BY <3>3, <4>1
        <3> QED BY <2>1, <2>2, <3>1, <3>2, <3>3
    <2> QED BY <2>3, <2>4
<1>8. ASSUME WrongKeyStops(x) PROVE WrongKeyStops(x)'
    <2>1. SUFFICES ASSUME Got(x)' >= 3, Other(x) \notin secret'[x] PROVE Stuck(x)'
        BY DEF WrongKeyStops
    <2>2. Stuck(x)
        BY <1>8, <2>1 DEF WrongKeyStops
    <2> QED BY <1>1, <1>4, <1>5, <1>6, <2>2 DEF Stuck, q
<1> QED BY <1>7, <1>8

(* Keeping, end by end, is keeping.                                          *)
Keeps(x) == (KeyFollows(x) => KeyFollows(x)') /\ (WrongKeyStops(x) => WrongKeyStops(x)')

(* The key follows the "dh" that an end sends.                              *)
LEMMA SendsKeepKeys ==
    ASSUME Inv, NEW e \in Ends, Sends(e)
    PROVE  (\A x \in Ends : Keeps(x)) /\ \A x \in Ends : Got(x)' = Got(x)
<1> DEFINE o == Other(e)
           m == Says(e, Round(e))
<1>0. TypeOK /\ o \in Ends /\ o # e /\ Other(o) = e /\ \A x \in Ends : x = e \/ x = o
    BY OtherFacts DEF Inv, Other, Ends
<1>1. /\ Upgrading(e) /\ Speaks(e) /\ done' = [done EXCEPT ![e] = @ + 1]
      /\ chan' = [chan EXCEPT ![o] = Append(@, m)] /\ UNCHANGED <<task, secret>>
    BY DEF Sends, Speaks
<1>2. /\ Got(e)' = Got(e) /\ Sent(e)' = Sent(e) + 1 /\ Round(e) = Sent(e) + 1
      /\ Got(o)' = Got(o) /\ Sent(o)' = Sent(o) /\ Round(e) \in 1..8
    BY <1>0, <1>1, Counts, Turns
<1>3. m \in Messages /\ (m.what = "dh" => Round(e) = 2) /\ (Round(e) = 3 => m.what = "key")
    BY <1>0, <1>2, SaysFacts, KeyRounds
<1>4. Sent(e) \in 0..8 /\ chan'[e] = chan[e]
    BY <1>0, <1>1, Counted, QueueOf
<1>5. Keeps(o)
    <2>1. Sent(Other(o)) = Sent(e) /\ Sent(Other(o))' = Sent(e)'
        BY <1>0 DEF Sent, Got
    <2>2. /\ m.what = "dh" => Sent(Other(o))' = 2
          /\ Sent(Other(o)) = 2 => m.what = "key"
        BY <1>2, <1>3, <1>4, <2>1
    <2> HIDE DEF m
    <2> QED BY <1>0, <1>1, <1>2, <1>3, <2>2, KeysMore DEF Keeps
<1>6. Keeps(e)
    BY <1>0, <1>1, <1>2, <1>4, KeysStay DEF Keeps
<1> QED BY <1>0, <1>2, <1>5, <1>6

(* A muxer's end is past the keys; an end that gives up keeps them.          *)
LEMMA MuxerKeepsKeys ==
    ASSUME Inv, NEW e \in Ends, MuxerReads(e) \/ MuxerWrites(e) \/ Registers(e)
                                \/ SendFails(e) \/ ReceiveFails(e)
    PROVE  (\A x \in Ends : Keeps(x)) /\ UNCHANGED <<done, secret>>
<1>0. /\ TypeOK /\ Other(e) \in Ends /\ Other(e) # e /\ Other(Other(e)) = e
      /\ \A x \in Ends : x = e \/ x = Other(e)
    BY OtherFacts DEF Inv, Other, Ends
<1>1. UNCHANGED <<done, secret>>
    BY DEF MuxerReads, MuxerWrites, Registers, SendFails, ReceiveFails
<1>2. \A x : Got(x)' = Got(x) /\ Sent(x)' = Sent(x)
    BY <1>1 DEF Got, Sent
<1>3. CASE MuxerReads(e)
    <2>1. /\ done[e] = 16 /\ task[e] = "registered" /\ chan' = [chan EXCEPT ![e] = Tail(@)]
          /\ task' = task \/ task' = [task EXCEPT ![e] = "dead"]
        BY <1>3, LastFact DEF MuxerReads, Panics, Inv, RegisteredDone
    <2>2. /\ chan'[Other(e)] = chan[Other(e)] /\ Got(e) = 8 /\ task'[e] # "upgrade"
          /\ task'[Other(e)] = task[Other(e)]
        BY <1>0, <2>1, QueueOf, Counted DEF TypeOK
    <2>3. Keeps(Other(e))
        BY <1>0, <1>1, <1>2, <2>2, KeysStay DEF Keeps
    <2>4. Keeps(e)
        BY <1>1, <1>2, <2>2 DEF Keeps, KeyFollows, WrongKeyStops, Stuck
    <2> QED BY <1>0, <1>1, <2>3, <2>4
<1>4. CASE MuxerWrites(e)
    <2> DEFINE m == MuxerFrame(e)
    <2>1. /\ done[e] = 16 /\ chan' = [chan EXCEPT ![Other(e)] = Append(@, m)] /\ task' = task
        BY <1>4, LastFact DEF MuxerWrites, Inv, RegisteredDone, MuxerFrame
    <2>2. chan'[e] = chan[e] /\ Sent(e) = 8 /\ Sent(e)' = Sent(e)
        BY <1>0, <1>2, <2>1, QueueOf, Counted
    <2>3. m \in Messages /\ m.what # "dh"
        BY DEF MuxerFrame, Messages
    <2> HIDE DEF m
    <2> DEFINE o == Other(e)
    <2>6. Sent(Other(o)) = 8 /\ Sent(Other(o))' = 8
        BY <1>0, <2>2 DEF Sent, Got
    <2>7. m.what = "dh" => Sent(Other(o))' = 2
        BY <2>3
    <2>8. Sent(Other(o)) = 2 => m.what = "key"
        BY <2>6
    <2>4. Keeps(o)
        BY <1>0, <1>1, <1>2, <2>1, <2>3, <2>7, <2>8, KeysMore DEF Keeps
    <2>5. Keeps(e)
        BY <1>0, <1>1, <1>2, <2>1, <2>2, KeysStay DEF Keeps
    <2> QED BY <1>0, <1>1, <2>4, <2>5
<1>5. CASE Registers(e) \/ SendFails(e) \/ ReceiveFails(e)
    <2>1. /\ chan' = chan /\ task[e] = "upgrade"
          /\ \/ task' = [task EXCEPT ![e] = "dead"]
             \/ task' = [task EXCEPT ![e] = "registered"]
        BY <1>5 DEF SendFails, ReceiveFails, Registers, Panics, Speaks, Listens, Upgrading
    <2>2. \A x \in Ends : /\ task'[x] = "upgrade" => task[x] = "upgrade"
                          /\ task[x] = "dead" => task'[x] = "dead"
        BY <1>0, <2>1 DEF TypeOK
    <2> QED BY <1>0, <1>1, <1>2, <2>1, <2>2, KeysStay DEF Keeps
<1> QED BY <1>3, <1>4, <1>5

(* A second "dh" taken for the key leaves the key as the next message.       *)
LEMMA ReceivesKeepsKeys ==
    ASSUME KeyInv, NEW e \in Ends, Receives(e)
    PROVE  /\ Orderly => (Got(e)' >= 3 => Other(e) \in secret'[e])
           /\ OneFault => \A x \in Ends : KeyFollows(x)' /\ WrongKeyStops(x)'
           /\ \A x \in Ends : x # e => Got(x)' = Got(x) /\ secret'[x] = secret[x]
<1> DEFINE o == Other(e)
           q == chan[e]
           m == Head(q)
           r == Round(e)
<1>0. /\ Inv /\ TypeOK /\ o \in Ends /\ o # e /\ Other(o) = e /\ \A x \in Ends : x = e \/ x = o
      /\ Underway /\ OrderInv
    BY OtherFacts DEF KeyInv, OrderInv, Inv, Other, Ends
<1>1. /\ Upgrading(e) /\ Listens(e) /\ q # <<>> /\ task[e] = "upgrade"
      /\ chan' = [chan EXCEPT ![e] = Tail(q)] /\ q \in Seq(Messages)
    BY <1>0 DEF Receives, Listens, Upgrading, TypeOK
<1>2. /\ chan'[e] = Tail(q) /\ chan'[o] = chan[o]
    BY <1>0, <1>1, QueueOf
<1>3. r \in 1..8 /\ r = Got(e) + 1 /\ Got(e) \in 0..8
    BY <1>0, <1>1, Turns, TurnFacts, Counted DEF Got
<1> HIDE DEF q
<1>4. /\ Len(q) \in Nat \ {0} /\ m = q[1] /\ 1 \in DOMAIN q
      /\ Tail(q) \in Seq(Messages) /\ Len(Tail(q)) = Len(q) - 1
      /\ \A i \in DOMAIN Tail(q) : i + 1 \in DOMAIN q /\ Tail(q)[i] = q[i + 1]
      /\ DOMAIN q = 1..Len(q) /\ DOMAIN Tail(q) = 1..(Len(q) - 1)
    BY <1>1, TailElements
<1>5. m.from = o
    BY <1>0, <1>4 DEF Underway, q
<1>6. Orderly => m = Says(o, r)
    <2>1. SUFFICES ASSUME Orderly PROVE m = Says(o, r)
        OBVIOUS
    <2>2. InOrder(e)
        BY <1>0, <1>1, <2>1 DEF OrderInv, QueuesInOrder, Deaf
    <2> QED BY <1>0, <1>1, <2>2, HearsItsRound DEF q
<1>7. Orderly => (Got(e) >= 3 => o \in secret[e])
    BY DEF KeyInv, KeysHeard
<1>8. OneFault => KeyFollows(e) /\ WrongKeyStops(e) /\ KeyFollows(o) /\ WrongKeyStops(o)
    BY <1>0 DEF KeyInv, SecondDh, WrongKey
<1>9. CASE Fits(e, r, m)
    <2>1. /\ done' = [done EXCEPT ![e] = @ + 1] /\ task' = task
          /\ secret' = IF Script[r] # "key" THEN secret ELSE [secret EXCEPT ![e] = Cipher(e, m)]
        BY <1>9 DEF Receives, q
    <2>2. /\ Got(e)' = Got(e) + 1 /\ Sent(e)' = Sent(e) /\ Got(o)' = Got(o) /\ Sent(o)' = Sent(o)
        BY <1>0, <1>1, <2>1, Counts
    <2>3. Script[3] = "key" /\ (Script[r] = "key" => r = 3)
        BY <1>3, KeyScript
    <2>4. secret'[o] = secret[o]
        BY <1>0, <2>1 DEF TypeOK
    <2>5. r # 3 => secret'[e] = secret[e]
        BY <2>1, <2>3
    <2>6. r = 3 => (m.what = "key" => o \in secret'[e])
        BY <1>0, <1>5, <2>1, <2>3 DEF Cipher, TypeOK
    <2>7. Orderly => (Got(e)' >= 3 => o \in secret'[e])
        <3>1. r = 3 => Says(o, r).what = "key"
            BY <1>0, <1>3, KeyRounds
        <3> QED BY <1>3, <1>6, <1>7, <2>2, <2>5, <2>6, <3>1
    <2>8. ASSUME OneFault PROVE Keeps(o)
        BY <1>0, <1>2, <2>1, <2>2, <2>4, KeysStay DEF Keeps
    <2>9. ASSUME OneFault PROVE KeyFollows(e)'
        <3> DEFINE i == 3 - Got(e)
                   q2 == Tail(q)
        <3>1. Got(e) =< 2 /\ i \in DOMAIN q /\ q[i].what = "dh" =>
                  \/ Len(q) = i /\ Sent(o) = 2
                  \/ i + 1 \in DOMAIN q /\ q[i + 1].what = "key"
            BY <1>1, <1>8, <2>9 DEF KeyFollows, q
        <3>2. SUFFICES ASSUME Got(e) + 1 =< 2, i - 1 \in DOMAIN q2, q2[i - 1].what = "dh"
                       PROVE  \/ Len(q2) = i - 1 /\ Sent(o) = 2
                              \/ i \in DOMAIN q2 /\ q2[i].what = "key"
            <4>1. 3 - Got(e)' = i - 1 /\ (i - 1) + 1 = i
                BY <1>3, <2>2
            <4> HIDE DEF q2, i, o
            <4> QED BY <1>2, <2>1, <2>2, <4>1 DEF KeyFollows, q2, o
        <3>3. i \in Int /\ Got(e) =< 2
            BY <1>3, <3>2
        <3> HIDE DEF i
        <3>4. i \in DOMAIN q /\ q[i] = q2[i - 1]
            BY <1>4, <3>2, <3>3
        <3>5. i + 1 \in DOMAIN q => i \in DOMAIN q2 /\ q2[i] = q[i + 1]
            BY <1>4, <3>3, <3>4
        <3>6. Len(q) = i => Len(q2) = i - 1
            BY <1>4
        <3> QED BY <3>1, <3>2, <3>3, <3>4, <3>5, <3>6
    <2>10. ASSUME OneFault PROVE WrongKeyStops(e)'
        <3>1. SUFFICES ASSUME Got(e) + 1 >= 3, o \notin secret'[e] PROVE Stuck(e)'
            BY <2>2 DEF WrongKeyStops
        <3>2. CASE r = 3
            <4>1. m.what = "dh" /\ Got(e) = 2
                BY <1>3, <1>9, <2>3, <2>6, <3>1, <3>2 DEF Fits
            <4>2. \/ Len(q) = 1 /\ Sent(o) = 2
                  \/ 2 \in DOMAIN q /\ q[2].what = "key"
                <5>1. 3 - Got(e) = 1 /\ 1 + 1 = 2 /\ Got(e) =< 2
                    BY <4>1
                <5> QED BY <1>1, <1>4, <1>8, <2>10, <4>1, <5>1 DEF KeyFollows, q
            <4>3. CASE Len(q) = 1 /\ Sent(o) = 2
                <5>1. Tail(q) = <<>>
                    BY <1>1, <4>3, SingleTail
                <5> QED BY <1>2, <1>3, <2>2, <3>2, <4>3, <5>1 DEF Stuck
            <4>4. CASE 2 \in DOMAIN q /\ q[2].what = "key"
                <5>1. Len(Tail(q)) # 0 /\ 1 \in DOMAIN Tail(q) /\ 1 + 1 = 2
                    BY <1>4, <4>4
                <5>2. Tail(q) # <<>> /\ Tail(q)[1] = q[2]
                    <6>1. Tail(q)[1] = q[1 + 1]
                        BY <1>4, <5>1
                    <6>2. Tail(q) # <<>>
                        BY <5>1, EmptySeq
                    <6> QED BY <5>1, <6>1, <6>2
                <5>3. Head(Tail(q)) = q[2]
                    BY <1>4, <5>2
                <5> QED BY <1>2, <1>3, <2>2, <3>2, <4>4, <5>2, <5>3 DEF Stuck
            <4> QED BY <4>2, <4>3, <4>4
        <3>3. CASE r # 3
            <4>1. Stuck(e)
                BY <1>3, <1>8, <2>5, <2>10, <3>1, <3>3 DEF WrongKeyStops
            <4>2. m.what = "key" /\ r = 4
                BY <1>1, <1>3, <4>1 DEF Stuck, q
            <4>3. Script[4] = "multiselect" /\ Says(e, r).what # "key"
                BY <1>0, <1>3, <4>2, KeyRounds DEF Script
            <4> QED BY <1>9, <4>2, <4>3 DEF Fits, Selected
        <3> QED BY <3>2, <3>3
    <2> QED BY <1>0, <1>8, <2>2, <2>4, <2>7, <2>8, <2>9, <2>10 DEF Keeps
<1>10. CASE ~Fits(e, r, m)
    <2>1. /\ done' = done /\ task' = [task EXCEPT ![e] = "dead"] /\ secret' = secret
        BY <1>10 DEF Receives, Panics, q
    <2>2. \A x : Got(x)' = Got(x) /\ Sent(x)' = Sent(x)
        BY <2>1 DEF Got, Sent
    <2>3. task'[e] = "dead" /\ task'[o] = task[o]
        BY <1>0, <2>1 DEF TypeOK
    <2>4. Keeps(o)
        BY <1>0, <1>2, <2>1, <2>2, <2>3, KeysStay DEF Keeps
    <2>5. Keeps(e)
        BY <2>1, <2>2, <2>3 DEF Keeps, KeyFollows, WrongKeyStops, Stuck
    <2> QED BY <1>0, <1>7, <1>8, <2>1, <2>2, <2>4, <2>5 DEF Keeps
<1> QED BY <1>9, <1>10

(* The first fault can leave a "dh" for the key only with the key behind it: *)
(* neither end goes on before the other has answered.                        *)
LEMMA FaultKeepsKeys ==
    ASSUME OrderInv, Orderly, OneFault', NEW e \in Ends,
           Loses(e) \/ Duplicates(e) \/ Overtakes(e)
    PROVE  \A x \in Ends : KeyFollows(x)'
<1> DEFINE o == Other(e)
           q == chan[e]
           q2 == chan'[e]
           n == Sent(o) - Got(e)
           i == 3 - Got(e)
<1>0. /\ Inv /\ TypeOK /\ o \in Ends /\ o # e /\ Other(o) = e /\ \A x \in Ends : x = e \/ x = o
      /\ \A x \in Ends : InOrder(x) \/ Deaf(x)
    BY OtherFacts DEF OrderInv, QueuesInOrder, Inv, Other, Ends
<1>1. /\ UNCHANGED <<done, task>> /\ q # <<>> /\ q \in Seq(Messages)
      /\ \/ chan' = [chan EXCEPT ![e] = Tail(q)]
         \/ chan' = [chan EXCEPT ![e] = Append(q, Head(q))]
         \/ Len(q) > 1 /\ chan' = [chan EXCEPT ![e] = Append(Tail(q), Head(q))]
    BY <1>0 DEF Loses, Duplicates, Overtakes, Faulty, TypeOK
<1>2. \A x : Got(x)' = Got(x) /\ Sent(x)' = Sent(x)
    BY <1>1 DEF Got, Sent
<1>3. /\ chan'[o] = chan[o]
      /\ \/ q2 = Tail(q)
         \/ q2 = Append(q, Head(q))
         \/ Len(q) > 1 /\ q2 = Append(Tail(q), Head(q))
    BY <1>0, <1>1 DEF TypeOK
<1>4. ASSUME NEW x \in Ends, InOrder(x), 3 - Got(x) \in DOMAIN chan[x]
      PROVE  chan[x][3 - Got(x)].what # "dh"
    <2>1. Got(x) \in 0..8 /\ Got(x) + (3 - Got(x)) = 3
        BY <1>0, Counted
    <2>2. chan[x][3 - Got(x)] \in {Says(Other(x), 3), MuxerFrame(Other(x))}
        BY <1>4, <2>1 DEF InOrder
    <2>3. Says(Other(x), 3).what = "key" /\ MuxerFrame(Other(x)).what = "frame"
        BY <1>0, OtherFacts, KeyRounds DEF MuxerFrame
    <2> QED BY <2>2, <2>3
<1>5. KeyFollows(o)'
    <2>1. KeyFollows(o)
        BY <1>0, <1>4 DEF KeyFollows, Deaf
    <2>2. Got(o)' = Got(o) /\ Sent(Other(o))' = Sent(Other(o)) /\ task' = task
        BY <1>0, <1>1 DEF Got, Sent
    <2> HIDE DEF o
    <2> QED BY <1>3, <2>1, <2>2 DEF KeyFollows
<1>6. SUFFICES ASSUME task[e] = "upgrade", Got(e) =< 2, i \in DOMAIN q2, q2[i].what = "dh"
               PROVE  Len(q2) = i /\ Sent(o) = 2
    <2>1. KeyFollows(e)' <=>
            (task'[e] = "upgrade" /\ Got(e)' =< 2 /\ 3 - Got(e)' \in DOMAIN q2
                /\ q2[3 - Got(e)'].what = "dh" =>
                \/ Len(q2) = 3 - Got(e)' /\ Sent(o)' = 2
                \/ (3 - Got(e)') + 1 \in DOMAIN q2 /\ q2[(3 - Got(e)') + 1].what = "key")
        BY DEF KeyFollows
    <2> HIDE DEF q2, o
    <2> QED BY <1>0, <1>1, <1>2, <1>5, <2>1 DEF o
<1>7. InOrder(e)
    BY <1>0, <1>6 DEF Deaf
<1>8. /\ Got(e) =< Sent(o) /\ n =< Len(q)
      /\ \A j \in DOMAIN q : q[j] = IF j =< n THEN Says(o, Got(e) + j) ELSE MuxerFrame(o)
      /\ Len(q) > n => done[o] = 16
    BY <1>7 DEF InOrder
<1>9. i \in DOMAIN q => q[i].what # "dh"
    BY <1>4, <1>7
<1>10. /\ Got(e) \in 0..2 /\ Sent(o) \in 0..8 /\ (done[o] = 16 => Sent(o) = 8)
    BY <1>0, <1>6, Counted
<1> HIDE DEF q, q2
<1>11. /\ Len(q) \in Nat \ {0} /\ Head(q) = q[1] /\ 1 \in DOMAIN q /\ DOMAIN q = 1..Len(q)
       /\ Tail(q) \in Seq(Messages) /\ Len(Tail(q)) = Len(q) - 1
       /\ \A j \in DOMAIN Tail(q) : j + 1 \in DOMAIN q /\ Tail(q)[j] = q[j + 1]
       /\ q[1] \in Messages
    BY <1>1, TailElements
<1>12. i \in 1..3 /\ n \in Int
    BY <1>10
(* The message after the key is no "dh" either. *)
<1>13. i + 1 \in DOMAIN q => q[i + 1].what # "dh"
    <2>1. SUFFICES ASSUME i + 1 \in DOMAIN q PROVE q[i + 1].what # "dh"
        OBVIOUS
    <2>2. Got(e) + (i + 1) = 4
        BY <1>10
    <2>3. q[i + 1] \in {Says(o, 4), MuxerFrame(o)}
        BY <1>8, <2>1, <2>2
    <2>4. Says(o, 4).what # "dh"
        BY <1>0, KeyRounds
    <2> QED BY <2>3, <2>4 DEF MuxerFrame
(* And the first one is, only while the other waits for the answer. *)
<1>14. q[1].what = "dh" => Got(e) = 1 /\ Sent(o) >= 2
    <2>1. SUFFICES ASSUME q[1].what = "dh" PROVE Got(e) = 1 /\ Sent(o) >= 2
        OBVIOUS
    <2>2. q[1] = Says(o, Got(e) + 1) /\ 1 =< n
        BY <1>8, <1>11, <1>12, <2>1 DEF MuxerFrame
    <2>3. Got(e) + 1 \in 1..8
        BY <1>10
    <2>4. Got(e) + 1 = 2
        BY <1>0, <2>1, <2>2, <2>3, KeyRounds
    <2> QED BY <1>10, <2>2, <2>4
<1>15. Got(e) = 1 => Sent(o) =< 2
    <2>1. SUFFICES ASSUME Got(e) = 1 PROVE Sent(o) =< 2
        OBVIOUS
    <2>2. done[e] \in 0..16 /\ done[o] \in 0..16
        BY <1>0, Counted
    <2>3. Got(o) =< Sent(e) \/ Deaf(o)
        BY <1>0 DEF InOrder
    <2>4. CASE e = "dialer"
        <3>1. o = "listener" /\ Sent(e) =< 2
            BY <1>0, <2>1, <2>4, Counted DEF Other
        <3>2. Sent(o) \in 0..8 /\ Got(o) \in 0..8 /\ (Sent(o) >= 3 => Got(o) >= 3)
            BY <2>2, <3>1, <1>0, Counted DEF Sent, Got, GotAt
        <3>3. Deaf(o) => Sent(o) = Got(o) /\ Sent(e) = Got(o) + 1
            BY <2>4 DEF Deaf
        <3>4. Sent(e) \in 0..8
            BY <1>0, Counted
        <3> QED BY <2>3, <3>1, <3>2, <3>3, <3>4
    <2>5. CASE e = "listener"
        <3>1. o = "dialer" /\ Sent(e) =< 1 /\ Sent(e) \in 0..8
            BY <1>0, <2>1, <2>2, <2>5, Counted DEF Other, Sent, Got, GotAt
        <3>2. Sent(o) =< Got(o) + 1 /\ Got(o) \in 0..8
            BY <1>0, <3>1, Counted
        <3>3. ~Deaf(o)
            BY <3>1 DEF Deaf
        <3> QED BY <1>10, <2>3, <3>1, <3>2, <3>3
    <2> QED BY <2>4, <2>5 DEF Ends
<1>16. CASE q2 = Tail(q)
    BY <1>6, <1>11, <1>13, <1>16
<1>17. CASE q2 = Append(q, Head(q))
    <2>1. /\ Len(q2) = Len(q) + 1 /\ q2[Len(q) + 1] = q[1]
          /\ \A j \in DOMAIN q2 : j = Len(q) + 1 \/ (j \in DOMAIN q /\ q2[j] = q[j])
        BY <1>1, <1>11, <1>17, AppendElements
    <2>2. i = Len(q) + 1 /\ q[1].what = "dh"
        BY <1>6, <1>9, <2>1
    <2> QED BY <1>10, <1>14, <1>15, <2>1, <2>2
<1>18. CASE Len(q) > 1 /\ q2 = Append(Tail(q), Head(q))
    <2>1. /\ Len(q2) = Len(q) /\ q2[Len(q)] = q[1]
          /\ \A j \in DOMAIN q2 : j = Len(q) \/ (j + 1 \in DOMAIN q /\ q2[j] = q[j + 1])
        <3>1. /\ Len(q2) = Len(Tail(q)) + 1 /\ q2[Len(Tail(q)) + 1] = q[1]
              /\ \A j \in DOMAIN q2 : \/ j = Len(Tail(q)) + 1
                                      \/ j \in DOMAIN Tail(q) /\ q2[j] = Tail(q)[j]
            BY <1>11, <1>18, AppendElements
        <3>2. Len(Tail(q)) + 1 = Len(q)
            BY <1>11
        <3> QED BY <1>11, <3>1, <3>2
    <2>2. i = Len(q) /\ q[1].what = "dh"
        BY <1>6, <1>13, <2>1
    <2>3. Got(e) = 1 /\ Sent(o) = 2
        BY <1>10, <1>14, <1>15, <2>2
    <2> QED BY <2>1, <2>2, <2>3
<1> QED BY <1>3, <1>16, <1>17, <1>18

(* No key is exchanged in the beginning.                                     *)
LEMMA KeyInit == Init => KeyInv
<1> SUFFICES ASSUME Init PROVE KeyInv
    OBVIOUS
<1>1. OrderInv
    BY OrderInit
<1>2. \A e \in Ends : Got(e) = 0
    BY DEF Init, Got, GotAt, Ends
<1>3. faults = 0
    BY DEF Init
<1> QED BY <1>1, <1>2, <1>3 DEF KeyInv, KeysHeard, SecondDh, WrongKey, OneFault

(* The steps of an end, and the faults of the network, keep the keys.        *)
LEMMA KeyNext == KeyInv /\ [Next]_vars => KeyInv'
<1> SUFFICES ASSUME KeyInv, [Next]_vars PROVE KeyInv'
    OBVIOUS
<1>0. OrderInv /\ OrderInv' /\ Inv /\ TypeOK /\ KeysHeard /\ SecondDh /\ WrongKey
    BY OrderNext DEF KeyInv, OrderInv, Inv
<1>1. CASE UNCHANGED vars
    <2>1. /\ \A x : Got(x)' = Got(x) /\ Sent(x)' = Sent(x)
          /\ UNCHANGED <<transport, faults, chan, task, secret>>
        BY <1>1 DEF vars, Got, Sent
    <2>2. \A x \in Ends : Keeps(x)
        BY <2>1, OtherFacts, KeysStay DEF Keeps
    <2> QED BY <1>0, <2>1, <2>2 DEF KeyInv, KeysHeard, SecondDh, WrongKey, Keeps, OneFault, Orderly
<1>2. CASE NetStep
    <2>1. /\ UNCHANGED <<transport, done, task, secret>> /\ faults' = faults + 1 /\ faults \in Nat
          /\ transport = "tcp" \/ transport = "udp"
        BY <1>0, <1>2 DEF NetStep, Breaks, Loses, Duplicates, Overtakes, Faulty, TypeOK
    <2>2. \A x : Got(x)' = Got(x) /\ secret'[x] = secret[x]
        BY <2>1 DEF Got
    <2>3. Orderly' => Orderly
        BY <2>1 DEF Orderly
    <2>4. KeysHeard'
        BY <1>0, <2>2, <2>3 DEF KeysHeard
    <2>5. OneFault' => Orderly
        BY <2>1 DEF Orderly, OneFault
    <2>6. SecondDh'
        <3>1. SUFFICES ASSUME OneFault', NEW x \in Ends PROVE KeyFollows(x)'
            BY DEF SecondDh
        <3>2. ~Breaks
            BY <3>1, <2>1 DEF Breaks, Faulty, OneFault
        <3> QED BY <1>0, <1>2, <2>5, <3>1, <3>2, FaultKeepsKeys DEF NetStep
    <2>7. WrongKey'
        BY <1>0, <2>2, <2>5 DEF WrongKey, WrongKeyStops, KeysHeard
    <2> QED BY <1>0, <2>4, <2>6, <2>7 DEF KeyInv
<1>3. ASSUME NEW e \in Ends, EndStep(e) \/ MuxerReads(e) \/ MuxerWrites(e) PROVE KeyInv'
    <2>1. UNCHANGED <<transport, odd, faults>> /\ (Orderly' <=> Orderly) /\ (OneFault' <=> OneFault)
        BY <1>3 DEF EndStep, Sends, SendFails, Receives, ReceiveFails, Registers, MuxerReads,
                    MuxerWrites, Orderly, OneFault
    <2>2. CASE Receives(e)
        <3>1. KeysHeard'
            BY <1>0, <2>1, <2>2, ReceivesKeepsKeys DEF KeysHeard
        <3>2. SecondDh' /\ WrongKey'
            BY <2>1, <2>2, ReceivesKeepsKeys DEF SecondDh, WrongKey
        <3> QED BY <1>0, <3>1, <3>2 DEF KeyInv
    <2>3. CASE ~Receives(e)
        <3>1. /\ \A x \in Ends : Keeps(x) /\ Got(x)' = Got(x)
              /\ secret' = secret
            <4>1. CASE Sends(e)
                BY <1>0, <4>1, SendsKeepKeys DEF Sends
            <4>2. CASE ~Sends(e)
                BY <1>0, <1>3, <2>3, <4>2, MuxerKeepsKeys DEF EndStep, Got
            <4> QED BY <4>1, <4>2
        <3>2. KeysHeard'
            BY <1>0, <2>1, <3>1 DEF KeysHeard
        <3>3. SecondDh' /\ WrongKey'
            BY <1>0, <2>1, <3>1 DEF SecondDh, WrongKey, Keeps
        <3> QED BY <1>0, <3>2, <3>3 DEF KeyInv
    <2> QED BY <2>2, <2>3
<1> QED BY <1>1, <1>2, <1>3, NextCases

(* Short of two faults of the network, two ends that are both through have   *)
(* the same secret, whatever 32 bytes the exchange accepts for a key          *)
(* (DHTransport::handshake).                                                 *)
THEOREM SecretIsShared == Spec => []SameSecret
<1>1. Spec => []KeyInv
    BY KeyInit, KeyNext, PTL DEF Spec
<1>2. KeyInv => SameSecret
    <2> SUFFICES ASSUME KeyInv, \A e \in Ends : done[e] = Last, transport = "udp" => faults < 2,
                        NEW e \in Ends
                 PROVE  secret[e] = Ends
        BY DEF SameSecret
    <2>1. TypeOK /\ Got(e) = 8
        BY LastFact, Counted DEF KeyInv, OrderInv, Inv
    <2>2. Orderly \/ OneFault
        BY <2>1, UpgradeAssumption DEF Orderly, OneFault, TypeOK
    <2>3. Other(e) \in secret[e]
        BY <2>1, <2>2 DEF KeyInv, KeysHeard, WrongKey, WrongKeyStops, Stuck
    <2>4. e \in secret[e] /\ secret[e] \subseteq Ends
        BY <2>1, <2>3 DEF TypeOK
    <2> QED BY <2>3, <2>4 DEF Other, Ends
<1> QED BY <1>1, <1>2, PTL
=============================================================================
