------------------------------- MODULE MCUdp -------------------------------
(***************************************************************************)
(* An instance of Udp for TLC: two nodes, of which one dials, disconnects  *)
(* and, when the liveliness check is off, dials again.                     *)
(***************************************************************************)
EXTENDS Udp, TLC

CONSTANTS alice, bob

MCNodes == {alice, bob}
MCCalls == {[node |-> alice, op |-> "connect", peer |-> bob],
            [node |-> alice, op |-> "disconnect", peer |-> bob]}
MCMaxCalls == [check \in BOOLEAN |-> IF check THEN 2 ELSE 3]
MCMaxSends == [check \in BOOLEAN |-> IF check THEN 0 ELSE 1]
MCPingChecks == BOOLEAN
=============================================================================
