CONSTANTS
    a = a
    b = b
    n1 = n1
    n2 = n2
    b1 = b1
    b2 = b2
    s1 = s1
    s2 = s2
    none = none
    Name <- Names
    SpawnName <- OneSpawn
    NetReq <- NetReqs2
    BootReq <- BootReqs2
    StopReq <- StopReqs2
    Lapses <- Retrying
    None <- none
SPECIFICATION Spec
SYMMETRY Symmetry
INVARIANTS
    NetworkOwned
    OneVMPerName
    StopMeansDown
    NetworkClosedLast
    CleanExit
PROPERTY RefusalMeansRunning
