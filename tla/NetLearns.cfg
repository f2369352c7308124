SPECIFICATION MCSpec
CONSTANTS
    n1 = n1
    n2 = n2
    d1 = d1
    r1 = r1
    r2 = r2
    m1 = m1
    m2 = m2
    Unknown = none
    Snets = {none, n1, n2}
    Dnets = {d1, n2}
    Routers = {r1, r2}
    Statuses = {available}
    Available = available
    Sends = {m1, m2}
    Destination <- OwnNetworks
    MaxAsks = 1
    MaxDatagrams = 4
CHECK_DEADLOCK FALSE
INVARIANTS
    HandlersKeepConsistent
    NothingLeftBehind
    HeardRouterIsUsed
PROPERTIES
    EverySendEnds
