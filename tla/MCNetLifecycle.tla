--------------------------- MODULE MCNetLifecycle ---------------------------
(* Instances of NetLifecycle for TLC.                                       *)
EXTENDS NetLifecycle, TLC

CONSTANTS p1, p2, p3, s1, s2, none

Procs2 == {p1, p2}
Procs3 == {p1, p2, p3}
Slots1 == {s1}
Slots2 == {s1, s2}

\* Anything may fail to be added, and a process may crash.
Ordinary == {"crash", "addFails"}
NoMishap == {}
Crashing == {"crash"}

\* One mishap at a time, with the crash it needs.
LateCrash == {"crash", "crashMidSweep"}
Failing == {"addFails"}
Refusing == {"delFails"}
ClosingBusy == {"closeBusy"}
Creating == {"createDuringRestore"}

Symmetry == Permutations(Procs3) \cup Permutations(Slots2)
=============================================================================
