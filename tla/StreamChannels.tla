--------------------------- MODULE StreamChannels ---------------------------
(***************************************************************************)
(* What the streams of a connection promise the handlers at their ends:    *)
(* the end that is asked settles on a protocol, then the one that asked on *)
(* the same, and each reads what the other writes, in order and with       *)
(* nothing left out, until it ends.  Floodsub and Ping take streams to be  *)
(* this.                                                                   *)
(***************************************************************************)
EXTENDS Naturals, Sequences

CONSTANTS
    A, B,           \* the two ends of the connection
    Sessions,       \* its streams
    Opener,         \* the end that asks for each
    Protocols, NoProtocol,
    Messages

VARIABLES
    phase,          \* end -> stream -> "silent", "talking" or "ended"
    agreed,         \* end -> stream -> the protocol it settled on
    written,        \* end -> stream -> the messages its handler has written
    got             \* end -> stream -> the messages its handler has read

vars == <<phase, agreed, written, got>>

Sides == {A, B}
Other(x) == IF x = A THEN B ELSE A
PerStream(v) == [x \in Sides |-> [s \in Sessions |-> v]]

Init ==
    /\ phase = PerStream("silent") /\ agreed = PerStream(NoProtocol)
    /\ written = PerStream(<<>>) /\ got = PerStream(<<>>)

Settles(x, s, p) ==
    /\ phase[x][s] = "silent"
    /\ x = Opener[s] => agreed[Other(x)][s] = p
    /\ phase' = [phase EXCEPT ![x][s] = "talking"]
    /\ agreed' = [agreed EXCEPT ![x][s] = p]
    /\ UNCHANGED <<written, got>>

Writes(x, s, m) ==
    /\ phase[x][s] = "talking"
    /\ written' = [written EXCEPT ![x][s] = Append(@, m)]
    /\ UNCHANGED <<phase, agreed, got>>

Reads(x, s) == LET n == Len(got[x][s]) + 1 IN
    /\ phase[x][s] = "talking"
    /\ n =< Len(written[Other(x)][s])
    /\ got' = [got EXCEPT ![x][s] = Append(@, written[Other(x)][s][n])]
    /\ UNCHANGED <<phase, agreed, written>>

Ends(x, s) ==
    /\ phase[x][s] # "ended"
    /\ phase' = [phase EXCEPT ![x][s] = "ended"]
    /\ UNCHANGED <<agreed, written, got>>

Next == \E x \in Sides, s \in Sessions :
    \/ \E p \in Protocols : Settles(x, s, p)
    \/ \E m \in Messages : Writes(x, s, m)
    \/ Reads(x, s) \/ Ends(x, s)

Spec == Init /\ [][Next]_vars
=============================================================================
