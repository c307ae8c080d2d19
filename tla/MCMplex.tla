------------------------------ MODULE MCMplex ------------------------------
(***************************************************************************)
(* Instances of Mplex for TLC: two streams of two protocols, both asked    *)
(* for by one end, or one by each.                                         *)
(***************************************************************************)
EXTENDS Mplex, TLC

CONSTANTS first, second, ping, flood

MCSessions == {first, second}
MCProtocols == {ping, flood}
MCProtoOf == (first :> ping) @@ (second :> flood)
MCRegistry == [x \in {A, B} |-> MCProtocols]
\* the end that is asked has no handler for one of the protocols
MCRegistryPing == (A :> MCProtocols) @@ (B :> {ping})

\* how many messages each end writes to the first stream, and to the second
Writes(a1, a2, b1, b2) ==
    (A :> (first :> a1 @@ second :> a2)) @@ (B :> (first :> b1 @@ second :> b2))
MCWrites == Writes(2, 1, 1, 0)
MCWritesFirst == Writes(1, 0, 1, 0)

MCOneOpener == [s \in MCSessions |-> A]
MCTwoOpeners == (first :> A) @@ (second :> B)
=============================================================================
