-------------------------- MODULE MCBoundSession --------------------------
(* Instances of BoundSession for TLC: two attempts and one stray connection. *)
EXTENDS BoundSession

CONSTANTS a1, a2, s1, none

TwoAttempts == {a1, a2}
OneStray == {s1}
AllFaults == Fault
===========================================================================
