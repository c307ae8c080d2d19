------------------------------- MODULE MCPing -------------------------------
(***************************************************************************)
(* An instance of Ping for TLC: two plain pings over a TCP connection that *)
(* holds, and one ping, plain or coded, over TCP that may fail and over    *)
(* UDP that loses a frame.  Coded sets are of four frames for three chunks. *)
(***************************************************************************)
EXTENDS Ping, TLC

MCSettings ==
    [rlnc : {FALSE}, transport : {"tcp"}, faulty : {FALSE}, calls : {<<0, 1>>}] \cup
    [rlnc : BOOLEAN, transport : {"tcp", "udp"}, faulty : {TRUE}, calls : {<<0>>, <<2>>}]
=============================================================================
