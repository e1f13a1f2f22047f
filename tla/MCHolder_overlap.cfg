CONSTANTS
    a = a
    b = b
    n1 = n1
    n2 = n2
    b1 = b1
    b2 = b2
    s1 = s1
    s2 = s2
    none = none
    Name <- Names
    SpawnName <- OneSpawn
    NetReq <- NetReqs1
    BootReq <- BootReqs1
    StopReq <- StopReqs2
    Lapses <- Overlap
    None <- none
SPECIFICATION FairSpec
INVARIANTS
    CounterExact
    SocketServesMember
PROPERTIES
    DoneOnlyWhenEmpty
    HolderExits
