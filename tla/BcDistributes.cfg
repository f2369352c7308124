SPECIFICATION BroadcastSpec
CONSTANTS
    b1 = b1
    b2 = b2
    b3 = b3
    s1 = s1
    s2 = s2
    f1 = f1
    f2 = f2
    None = none
    Normals = {s1, s2}
    Foreigns = {f1, f2}
    BBMDs = {b1, b2}
    Subnet <- OnSubnets
    BDT <- AllListed
    Directed = {b1}
    Bare = {b1}
    BBMDOf <- BothAtOne
    Messages = {m1}
    MaxRaises = 0
CHECK_DEADLOCK FALSE
INVARIANTS
    DistributesToOthers
