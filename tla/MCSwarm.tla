------------------------------ MODULE MCSwarm ------------------------------
(***************************************************************************)
(* Instances of Swarm for TLC: two nodes, of which one dials and dials     *)
(* again, or each dials the other.                                         *)
(***************************************************************************)
EXTENDS Swarm, TLC

CONSTANTS alice, bob

MCNodes == {alice, bob}

Asks(n, op, m) == [node |-> n, op |-> op, peer |-> m]
\* only alice dials
MCOneWay == {Asks(alice, "connect", bob), Asks(alice, "stream", bob)}
\* each dials the other
MCEachOther == {Asks(alice, "connect", bob), Asks(bob, "connect", alice)}
=============================================================================
