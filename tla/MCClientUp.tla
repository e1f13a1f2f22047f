---------------------------- MODULE MCClientUp ----------------------------
(* Instances of ClientUp for TLC: a cluster of two names.                   *)
EXTENDS ClientUp, TLC

CONSTANTS w1, w2, web, c1, c2, old, none

Names == {w1, w2}
OneCreated == {w1}
OneCluster == [n \in Names |-> web]
Clients2 == {c1, c2}

AllFaults == Fault

Symmetry == Permutations(Clients2)
===========================================================================
