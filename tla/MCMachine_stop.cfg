CONSTANTS
    s1 = s1
    s2 = s2
    boot = boot
    Stopper <- Stoppers
    Booter <- boot
    Kinds <- BothKinds
    Faults <- AllFaults
SPECIFICATION FairSpec
INVARIANTS
    HeldWhileRunning
    NothingLeft
PROPERTIES
    KeepsContract
    CallsEnd
