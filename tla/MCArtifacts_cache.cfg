CONSTANTS
    p1 = p1
    p2 = p2
    p3 = p3
    none = none
    Proc <- Procs3
    Source = "src"
    Pinned = TRUE
    Blocks = 2
    Faults <- AllFaults
    None <- none
SPECIFICATION Spec
SYMMETRY Symmetry
CONSTRAINT TwoMeet
INVARIANTS
    CachedWhole
    KeysMatch
    Recovers
