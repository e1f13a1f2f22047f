CONSTANTS
    p1 = p1
    p2 = p2
    p3 = p3
    s1 = s1
    s2 = s2
    none = none
    Proc <- Procs3
    Slot <- Slots1
    Mishaps <- Ordinary
    None <- none
SPECIFICATION Spec
SYMMETRY Symmetry
INVARIANTS
    RecordCovers
    EgressForwarded
    FwdRecoverable
