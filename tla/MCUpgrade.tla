----------------------------- MODULE MCUpgrade -----------------------------
(***************************************************************************)
(* An instance of Upgrade for TLC: every transport, every disagreement,    *)
(* three faults, and two frames from each muxer.                           *)
(***************************************************************************)
EXTENDS Upgrade, TLC
=============================================================================
