CONSTANTS
    w1 = w1
    w2 = w2
    web = web
    c1 = c1
    c2 = c2
    old = old
    none = none
    Name <- Names
    Created <- OneCreated
    Client <- Clients2
    ClusterOf <- OneCluster
    Faults <- AllFaults
    Old <- old
    None <- none
SPECIFICATION Spec
SYMMETRY Symmetry
INVARIANTS
    
    EntryComplete
    
PROPERTIES
    AllOrNothing
    UpKeepsDisks
