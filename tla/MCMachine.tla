---------------------------- MODULE MCMachine ----------------------------
(* Instances of Machine for TLC.                                          *)
EXTENDS Machine

CONSTANTS s1, s2, boot

Stoppers == {s1, s2}
BothKinds == {"ch", "vz"}
AllFaults == Fault
==========================================================================
