CONSTANTS
    k = k
    l = l
    k1 = k1
    k2 = k2
    k3 = k3
    none = none
    Kinds <- Linux
    Cluster <- TwoClusters
    Name <- Names
    Of <- OfName
    LastSubnet = 1
    LastHost = 4
    Faults <- NoFault
    None <- none
SPECIFICATION Spec
SYMMETRY Symmetry
PROPERTY
    KeepsAddress
