------------------------------ MODULE Upgrade ------------------------------
(***************************************************************************)
(* The upgrade of one raw connection (conn_handler of crates/swarm): the   *)
(* two ends agree on a security protocol, exchange keys, agree on identify, *)
(* tell each other who they are, agree on a muxer, and hand the connection *)
(* to it.  Every round is one message each way; nothing has a timeout, and *)
(* every error ends in an unwrap() of the task.                            *)
(*                                                                         *)
(* The connection is TCP (ordered, reliable, and each end hears when the   *)
(* other closes it) or UDP (datagrams are lost, duplicated and overtaken,  *)
(* and an end that closes says nothing).  SecureConn passes messages       *)
(* through as they are: its encryption is commented out.                   *)
(***************************************************************************)
EXTENDS Naturals, Sequences

CONSTANTS
    Nobody,
    MaxFaults,      \* bound: datagrams lost, duplicated or overtaken, links broken
    MaxFrames       \* bound: frames each muxer writes

ASSUME UpgradeAssumption == {MaxFaults, MaxFrames} \subseteq Nat

Ends == {"dialer", "listener"}
Other(e) == IF e = "dialer" THEN "listener" ELSE "dialer"

(* The rounds, in order: a protocol to agree on, or what is exchanged. *)
Script == <<"multiselect", "dh", "key", "multiselect", "identify", "info",
            "multiselect", "mplex">>
Rounds == DOMAIN Script
Selects == {r \in Rounds : Script[r] \notin {"key", "info"}}

VARIABLES
    transport,      \* "tcp" or "udp"
    odd,            \* the round the listener's build knows another protocol for, 0: none
    done,           \* end -> messages sent and received so far
    chan,           \* end -> messages on their way to it
    open,           \* end -> its raw connection still works
    task,           \* end -> "upgrade", "registered" or "dead"
    secret,         \* end -> whose keys its cipher is made of
    remote,         \* end -> the peer info it was told
    peer_store,     \* end -> the peer it has registered
    cut,            \* end -> its muxer has lost its place in the bytes it reads
    faults, frames  \* bounds

vars == <<transport, odd, done, chan, open, task, secret, remote, peer_store, cut,
          faults, frames>>

Last == 2 * Len(Script)
Protos == {"multiselect", "dh", "identify", "mplex", "another"}
Messages == [what : Protos \cup {"key", "info", "frame"}, from : Ends]

TypeOK ==
    /\ transport \in {"tcp", "udp"} /\ odd \in Selects \cup {0}
    /\ done \in [Ends -> 0..Last]
    /\ chan \in [Ends -> Seq(Messages)]
    /\ open \in [Ends -> BOOLEAN]
    /\ task \in [Ends -> {"upgrade", "registered", "dead"}]
    /\ secret \in [Ends -> SUBSET Ends] /\ \A e \in Ends : secret[e] # {} => e \in secret[e]
    /\ {remote, peer_store} \subseteq [Ends -> Ends \cup {Nobody}]
    /\ cut \in [Ends -> BOOLEAN]
    /\ faults \in 0..MaxFaults /\ frames \in [Ends -> 0..MaxFrames]

Init ==
    /\ transport \in {"tcp", "udp"}
    /\ odd \in Selects \cup {0}
    /\ done = [e \in Ends |-> 0]
    /\ chan = [e \in Ends |-> <<>>]
    /\ open = [e \in Ends |-> TRUE]
    /\ task = [e \in Ends |-> "upgrade"]
    /\ secret = [e \in Ends |-> {}]
    /\ remote = [e \in Ends |-> Nobody]
    /\ peer_store = [e \in Ends |-> Nobody]
    /\ cut = [e \in Ends |-> FALSE]
    /\ faults = 0
    /\ frames = [e \in Ends |-> 0]

-----------------------------------------------------------------------------
(* One end in one round. *)

Round(e) == done[e] \div 2 + 1
Upgrading(e) == task[e] = "upgrade" /\ done[e] < Last

(* The dialer speaks first, except to say who it is. *)
SpeaksFirstNever(e, r) == e = "dialer" /\ Script[r] # "info"
SpeaksFirst(e, r) == (e = "dialer") = (Script[r] # "info")
Speaks(e) == Upgrading(e) /\ SpeaksFirst(e, Round(e)) = (done[e] % 2 = 0)
Listens(e) == Upgrading(e) /\ ~Speaks(e)

Says(e, r) ==
    [what |-> IF e = "listener" /\ r = odd THEN "another" ELSE Script[r], from |-> e]

(* try_select: the peer must name the very protocol.  A listener that hears *)
(* another one says nothing, and dies.                                      *)
SelectedAny(e, r, m) == m.what \in Protos
Selected(e, r, m) == m.what = Says(e, r).what

(* The key exchange takes any 32 bytes, which the name of "dh" on the wire  *)
(* happens to be as well; a peer info does not decode from anything else.   *)
Fits(e, r, m) ==
    CASE Script[r] = "key"  -> m.what \in {"key", "dh"}
      [] Script[r] = "info" -> m.what = "info"
      [] OTHER              -> Selected(e, r, m)

(* The secret is made of the own key and of the one received. *)
CipherRemote(e, m) == {m.from}
Cipher(e, m) == {e} \cup {k \in {m.from} : m.what = "key"}

(* The task of e panics; it drops the connection, which only TCP tells. *)
Panics(e) ==
    /\ task' = [task EXCEPT ![e] = "dead"]
    /\ open' = [x \in Ends |-> open[x] /\ x # e /\ transport = "udp"]

Sends(e) ==
    /\ Speaks(e)
    /\ done' = [done EXCEPT ![e] = @ + 1]
    /\ chan' = [chan EXCEPT ![Other(e)] = Append(@, Says(e, Round(e)))]
    /\ UNCHANGED <<transport, odd, cut, open, task, secret, remote, peer_store, faults, frames>>

SendFails(e) ==
    /\ Speaks(e)
    /\ ~open[e]
    /\ Panics(e)
    /\ UNCHANGED <<transport, odd, cut, done, chan, secret, remote, peer_store, faults, frames>>

Receives(e) == LET m == Head(chan[e])
                   r == Round(e) IN
    /\ Listens(e)
    /\ chan[e] # <<>>
    /\ chan' = [chan EXCEPT ![e] = Tail(@)]
    /\ IF Fits(e, r, m)
       THEN /\ done' = [done EXCEPT ![e] = @ + 1]
            /\ secret' = IF Script[r] # "key" THEN secret
                         ELSE [secret EXCEPT ![e] = Cipher(e, m)]
            /\ remote' = IF Script[r] = "info" THEN [remote EXCEPT ![e] = m.from] ELSE remote
            /\ UNCHANGED <<task, open>>
       ELSE Panics(e) /\ UNCHANGED <<done, secret, remote>>
    /\ UNCHANGED <<transport, odd, cut, peer_store, faults, frames>>

ReceiveFails(e) ==
    /\ Listens(e)
    /\ chan[e] = <<>> /\ ~open[e]
    /\ Panics(e)
    /\ UNCHANGED <<transport, odd, cut, done, chan, secret, remote, peer_store, faults, frames>>

RegistersEarly(e) ==
    /\ task[e] = "upgrade" /\ done[e] >= Last - 1
    /\ task' = [task EXCEPT ![e] = "registered"]
    /\ peer_store' = [peer_store EXCEPT ![e] = remote[e]]
    /\ UNCHANGED <<transport, odd, cut, done, chan, open, secret, remote, faults, frames>>

(* update_peerstore, and a task for the muxed connection. *)
Registers(e) ==
    /\ task[e] = "upgrade" /\ done[e] = Last
    /\ task' = [task EXCEPT ![e] = "registered"]
    /\ peer_store' = [peer_store EXCEPT ![e] = remote[e]]
    /\ UNCHANGED <<transport, odd, cut, done, chan, open, secret, remote, faults, frames>>

(* The muxer waits, in one select!, for frames and for something to write.  *)
(* recv_msg of TCP takes a frame from the stream in several reads, and what *)
(* it has taken is gone when the write is served first.                     *)
ReadDropped(e) ==
    /\ transport = "tcp" /\ chan[e] # <<>>
    /\ cut' = [cut EXCEPT ![e] = TRUE]

(* The muxer opens streams at once. *)
MuxerWrites(e) ==
    /\ task[e] = "registered"
    /\ frames[e] < MaxFrames
    /\ frames' = [frames EXCEPT ![e] = @ + 1]
    /\ chan' = [chan EXCEPT ![Other(e)] = Append(@, [what |-> "frame", from |-> e])]
    /\ ReadDropped(e) \/ UNCHANGED cut
    /\ UNCHANGED <<transport, odd, done, open, task, secret, remote, peer_store, faults>>

(* It fails on what is not a frame.  Bytes that are taken for a length     *)
(* make it swallow what follows, or fail on that.                          *)
MuxerReads(e) ==
    /\ task[e] = "registered"
    /\ chan[e] # <<>>
    /\ chan' = [chan EXCEPT ![e] = Tail(@)]
    /\ \/ (cut[e] \/ Head(chan[e]).what = "frame") /\ UNCHANGED <<task, open>>
       \/ (cut[e] \/ Head(chan[e]).what # "frame") /\ Panics(e)
    /\ UNCHANGED <<transport, odd, cut, done, secret, remote, peer_store, faults, frames>>

-----------------------------------------------------------------------------
(* The network. *)

Faulty(kind) ==
    /\ transport = kind
    /\ faults < MaxFaults
    /\ faults' = faults + 1
    /\ UNCHANGED <<transport, odd, cut, done, task, secret, remote, peer_store, frames>>

Breaks ==
    /\ open = [e \in Ends |-> TRUE]
    /\ open' = [e \in Ends |-> FALSE]
    /\ Faulty("tcp")
    /\ UNCHANGED chan

Loses(e) ==
    /\ chan[e] # <<>>
    /\ chan' = [chan EXCEPT ![e] = Tail(@)]
    /\ Faulty("udp")
    /\ UNCHANGED open

(* The first datagram arrives a second time, after those now on their way,  *)
(* or only after them.                                                      *)
Duplicates(e) ==
    /\ chan[e] # <<>>
    /\ chan' = [chan EXCEPT ![e] = Append(@, Head(@))]
    /\ Faulty("udp")
    /\ UNCHANGED open

Overtakes(e) ==
    /\ Len(chan[e]) > 1
    /\ chan' = [chan EXCEPT ![e] = Append(Tail(@), Head(@))]
    /\ Faulty("udp")
    /\ UNCHANGED open

EndStep(e) == Sends(e) \/ SendFails(e) \/ Receives(e) \/ ReceiveFails(e) \/ Registers(e)

Next ==
    \/ \E e \in Ends : EndStep(e) \/ MuxerReads(e) \/ MuxerWrites(e)
    \/ \E e \in Ends : Loses(e) \/ Duplicates(e) \/ Overtakes(e)
    \/ Breaks

Spec == Init /\ [][Next]_vars

(* Each end goes on while it can; nobody has to open streams, and nothing   *)
(* has to go wrong.                                                         *)
Fairness == \A e \in Ends : WF_vars(EndStep(e))
FairSpec == Spec /\ Fairness

-----------------------------------------------------------------------------
(* Properties. *)

(* An end is through once it has said and heard everything: registering it *)
(* needs no one else.                                                      *)
Outcome(e) == IF done[e] = Last THEN "through"
              ELSE IF task[e] = "dead" THEN "dead" ELSE "busy"

Exchange == INSTANCE UpgradeExchange WITH
    Unknown <- Nobody,
    outcome <- [e \in Ends |-> Outcome(e)],
    known <- [e \in Ends |-> IF done[e] = Last THEN remote[e] ELSE Nobody]

(* Whatever the network does, the dialer is through only after the         *)
(* listener, and each then knows the other: what Swarm assumes of          *)
(* conn_handler.                                                           *)
ExchangeSpec == Exchange!Spec

(* Two ends that are both through have the same secret, although the key   *)
(* exchange takes any 32 bytes for a key (DHTransport::handshake): it takes *)
(* two faults, a duplicate for the key and the loss of the key, to differ. *)
SameSecret ==
    (\A e \in Ends : done[e] = Last) /\ (transport = "udp" => faults < 2) =>
        \A e \in Ends : secret[e] = Ends

(* In order, no frame of the muxer is ever taken for a message of the       *)
(* upgrade, nor the reverse, although an end that is through opens streams  *)
(* while the other may still wait for the last reply (conn_handler); and a  *)
(* muxer that fails on what it reads had dropped a read (conn_handler of    *)
(* the muxer, recv_msg of TCP), which no round of the upgrade does.         *)
CleanHandover ==
    transport = "tcp" \/ faults = 0 => \A e \in Ends :
        /\ chan[e] # <<>> => (Head(chan[e]).what = "frame") = (done[e] = Last)
        /\ task[e] = "dead" /\ peer_store[e] # Nobody => cut[e]

(* Over TCP every upgrade comes to an end at both ends, also when the other *)
(* end dies; over UDP unless a datagram was lost or the other end died: the *)
(* upgrade has no timeout.                                                  *)
Settles ==
    \A e \in Ends : Upgrading(e) ~>
        \/ ~Upgrading(e)
        \/ transport = "udp" /\ (faults > 0 \/ task[Other(e)] = "dead")
=============================================================================
