----------------------------- MODULE RlncProofs -----------------------------
(***************************************************************************)
(* Proofs about Rlnc: the state's types, and that the number of arrivals   *)
(* alone decides when a set is rebuilt.                                    *)
(***************************************************************************)
EXTENDS Rlnc, TLAPS

(* Until the set is rebuilt, every packet that arrived is in the cache.     *)
Counted == IF used = <<>> THEN Len(cache) = arrived ELSE cache = <<>> /\ arrived >= Chunks

Inv == TypeOK /\ Counted

(* The packet of an arrival is one of the set's packets.                    *)
LEMMA EncodedIsPacket ==
    ASSUME TypeOK, NEW coeffs \in Vectors PROVE encode(payload, coeffs) \in Packets
BY DEF TypeOK, Packets

LEMMA InitInv == Init => Inv
BY RlncAssumption DEF Init, Inv, TypeOK, Counted

(* handle_incoming keeps a packet and counts it, or rebuilds.               *)
LEMMA ArrivesInv ==
    ASSUME Inv, NEW coeffs \in Vectors, Arrives(coeffs) PROVE Inv'
<1> USE RlncAssumption
<1> DEFINE p == encode(payload, coeffs)
<1>1. p \in Packets
    BY EncodedIsPacket DEF Inv
<1> HIDE DEF p
<1>2. /\ sent' = sent + 1 /\ arrived' = arrived + 1 /\ payload' = payload
      /\ sent < SetLen /\ handle_incoming(p)
    BY DEF Arrives, p
<1>3. /\ payload \in Payloads /\ sent \in Nat /\ arrived \in 0..sent
      /\ cache \in Seq(Packets) /\ used \in Seq(Packets) /\ Len(cache) < Chunks
    BY DEF Inv, TypeOK
<1>4. payload' \in Payloads /\ sent' \in 0..SetLen /\ arrived' \in 0..sent'
    BY <1>2, <1>3
<1>5. CASE used # <<>>
    <2>1. cache' = cache /\ used' = used
        BY <1>2, <1>5 DEF handle_incoming
    <2> QED BY <1>2, <1>3, <1>4, <1>5, <2>1 DEF Inv, TypeOK, Counted
<1>6. CASE used = <<>> /\ cache # <<>> /\ Len(cache) = Chunks - 1
    <2>1. used' = cache /\ cache' = <<>>
        BY <1>2, <1>6 DEF handle_incoming
    <2>2. arrived = Len(cache)
        BY <1>6 DEF Inv, Counted
    <2> QED BY <1>2, <1>3, <1>4, <1>6, <2>1, <2>2 DEF Inv, TypeOK, Counted
<1>7. CASE used = <<>> /\ ~(cache # <<>> /\ Len(cache) = Chunks - 1)
    <2>1. cache' = Append(cache, p) /\ used' = used
        BY <1>2, <1>7 DEF handle_incoming
    <2>2. arrived = Len(cache)
        BY <1>7 DEF Inv, Counted
    <2>3. Len(cache) < Chunks - 1
        BY <1>3, <1>7
    <2>4. cache' \in Seq(Packets) /\ Len(cache') = Len(cache) + 1
        BY <1>1, <1>3, <2>1
    <2> QED BY <1>2, <1>3, <1>4, <1>7, <2>1, <2>2, <2>3, <2>4 DEF Inv, TypeOK, Counted
<1> QED BY <1>5, <1>6, <1>7

(* The inductive step.                                                      *)
LEMMA NextInv == Inv /\ [Next]_vars => Inv'
<1> SUFFICES ASSUME Inv, [Next]_vars PROVE Inv'
    OBVIOUS
<1>1. CASE \E coeffs \in Vectors : Arrives(coeffs)
    BY <1>1, ArrivesInv
<1>2. CASE Lost
    BY <1>2, RlncAssumption DEF Inv, TypeOK, Counted, Lost
<1>3. CASE UNCHANGED vars
    BY <1>3 DEF Inv, TypeOK, Counted, vars, Packets
<1> QED BY <1>1, <1>2, <1>3 DEF Next

THEOREM Invariance == Spec => []Inv
BY InitInv, NextInv, PTL DEF Spec

(* The receiver's state keeps its types, and the cache never holds as many   *)
(* packets as the payload has chunks (engine.rs:39).                          *)
THEOREM TypeCorrect == Spec => []TypeOK
<1>1. Inv => TypeOK
    BY DEF Inv
<1> QED BY <1>1, Invariance, PTL

(* A set is rebuilt by its Chunks-th arrival and not before (engine.rs:29-57),*)
(* for every number of chunks and every pattern of losses.                    *)
THEOREM EnoughSufficeHolds == Spec => []EnoughSuffice
<1>1. Inv => EnoughSuffice
    BY RlncAssumption DEF Inv, TypeOK, Counted, EnoughSuffice
<1> QED BY <1>1, Invariance, PTL
=============================================================================
