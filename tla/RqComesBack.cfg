SPECIFICATION FairSpec
CONSTANTS
    Requests = {r1}
    Destinations = {d1}
    IdMod = 2
    GivenIDs = {}
    Cancels = {}
    DccKinds = {"enable", "disable"}
    NoID = none
CHECK_DEADLOCK FALSE
PROPERTIES
    CommunicationComesBack
