CONSTANTS
    top = top
    sub = sub
    leaf = leaf
    none = none
    Walk <- Walk3
    Parent <- Parent3
    Trees <- Grown
    Earlier <- OnHost
    Window = 1
    Faults <- AllFaults
    None <- none
SPECIFICATION FairSpec
INVARIANTS
    OkMeansCopied
    Blame
PROPERTIES
    CopyEnds
