------------------------------ MODULE MCHolder ------------------------------
(* Instances of Holder for TLC: two names, one of them added at run time.   *)
EXTENDS Holder, TLC

CONSTANTS a, b, n1, n2, b1, b2, s1, s2, none

Names == {a, b}
OneSpawn == {a}
\* Clients in order, that may boot a failed member again.
Retrying == {"retryError"}
\* Clients that overlap operations on a name but no two boots of it, and VMs
\* that outlive a stop.
Overlap == {"stopBooting", "earlyRejoin", "dupStop", "vmOutlives"}

\* One lapse each, and the pair that scopes a stop wrongly.
Overlapping == {"dupBoot"}
StoppingEarly == {"stopBooting"}
Rejoining == {"earlyRejoin"}
StoppingTwice == {"dupStop", "earlyRejoin"}
Outliving == {"vmOutlives"}

NetReqs1 == {n1}
NetReqs2 == {n1, n2}
BootReqs1 == {b1}
BootReqs2 == {b1, b2}
StopReqs1 == {s1}
StopReqs2 == {s1, s2}

Symmetry ==
    Permutations(BootReqs2) \cup Permutations(StopReqs2) \cup Permutations(NetReqs2)
=============================================================================
