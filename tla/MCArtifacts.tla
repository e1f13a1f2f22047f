--------------------------- MODULE MCArtifacts ---------------------------
(* Instances of Artifacts for TLC.                                        *)
EXTENDS Artifacts, TLC

CONSTANTS p1, p2, p3, none

Procs2 == {p1, p2}
Procs3 == {p1, p2, p3}

\* Every failure, a crash at every point, and processes that meet.
AllFaults == Fault
\* Two that meet, and nothing fails.
AtOnce == {"overlap"}

\* Two processes may meet, and then the third does not begin.
TwoMeet == "overlap" \in lapse => \E p \in Proc : At(p, "idle")

Symmetry == Permutations(Procs3)
==========================================================================
