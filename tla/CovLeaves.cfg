SPECIFICATION FairSpec
CONSTANTS
    N = 1
    Values = {0}
    Null = Null
    GivenSlots = {0, Null}
    Clients = {me}
    Increments = {1}
    Lifetimes = {60}
    MaxWrites = 0
    Contexts = {k1}
    me = me
    Lifetime = 60
PROPERTIES
    ExitCancels
CHECK_DEADLOCK FALSE
