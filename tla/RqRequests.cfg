SPECIFICATION FairSpec
CONSTANTS
    Requests = {r1, r2, r3}
    Destinations = {d1, d2}
    IdMod = 2
    GivenIDs = {0}
    Cancels = {r1}
    DccKinds = {"enable", "disable", "disableInitiation"}
    NoID = none
CHECK_DEADLOCK FALSE
INVARIANTS
    UniqueInvokeIDs
    ListedWhilePending
    SharedOnlyAfterwards
PROPERTIES
    EveryFutureDone
