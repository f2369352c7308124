SPECIFICATION BroadcastSpec
CONSTANTS
    b1 = b1
    b2 = b2
    b3 = b3
    s1 = s1
    s2 = s2
    f1 = f1
    f2 = f2
    None = none
    Normals = {s1, s2}
    Foreigns = {f1, f2}
    BBMDs = {b1, b2, b3}
    Subnet <- OnSubnets
    BDT <- AllListed
    Directed = {b1}
    Bare = {b3}
    BBMDOf <- OneAtEach
    Messages = {m1}
    MaxRaises = 1
CHECK_DEADLOCK FALSE
INVARIANTS
    GivenOnce
    ReachesAll
