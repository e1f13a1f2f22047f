CONSTANTS
    p1 = p1
    p2 = p2
    p3 = p3
    s1 = s1
    s2 = s2
    none = none
    Proc <- Procs2
    Slot <- Slots1
    Mishaps <- Crashing
    None <- none
SPECIFICATION FairSpec
INVARIANTS
    HostRestored
PROPERTIES
    Reclaimed
