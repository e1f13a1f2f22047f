CONSTANTS
    a1 = a1
    a2 = a2
    s1 = s1
    none = none
    Attempt <- TwoAttempts
    Stray <- OneStray
    Faults <- AllFaults
    None <- none
SPECIFICATION FairSpec
INVARIANTS
    NoSpuriousTeardown
    FallbackHasCause
PROPERTIES
    DeathReaped
    CloseEnds
