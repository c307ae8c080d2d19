--------------------------- MODULE UpgradeExchange ---------------------------
(***************************************************************************)
(* What the upgrade of a connection promises the swarm: each end gets      *)
(* through it, knowing the other, or dies in it, and the dialer gets       *)
(* through only after the listener.  Swarm takes an upgrade to be this.    *)
(***************************************************************************)
CONSTANT Unknown

VARIABLES
    outcome,    \* end -> "busy", "through" or "dead"
    known       \* end -> who it takes the other end to be

vars == <<outcome, known>>

Init ==
    /\ outcome = [e \in {"dialer", "listener"} |-> "busy"]
    /\ known = [e \in {"dialer", "listener"} |-> Unknown]

Through(e, other) ==
    /\ outcome[e] = "busy"
    /\ outcome' = [outcome EXCEPT ![e] = "through"]
    /\ known' = [known EXCEPT ![e] = other]

Dies(e) ==
    /\ outcome[e] = "busy"
    /\ outcome' = [outcome EXCEPT ![e] = "dead"]
    /\ UNCHANGED known

Next ==
    \/ Through("listener", "dialer")
    \/ outcome["listener"] = "through" /\ Through("dialer", "listener")
    \/ \E e \in {"dialer", "listener"} : Dies(e)

Spec == Init /\ [][Next]_vars
=============================================================================
