--------------------------- MODULE MCAddressing ---------------------------
(* Instances of Addressing for TLC: a cluster of three members beside the   *)
(* network of another one, and room for two of the three.                  *)
EXTENDS Addressing, TLC

CONSTANTS k, l, k1, k2, k3, none

TwoClusters == {k, l}
Names == {k1, k2, k3}
OfName == [n \in Names |-> k]
Backends == {"ch", "vz"}
Linux == {"ch"}
AllFaults == Fault
NoFault == {}
Symmetry == Permutations(Names)
===========================================================================
