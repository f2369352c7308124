SPECIFICATION Spec
CONSTANTS
    NReq = 1
    IdMod = 1
    SeqMod = 4
    ReqSegs <- TwoSegments
    RespSegs = 2
    ClientWindow = 2
    ServerWindow = 2
    Retries = 1
    AckKinds = {"ComplexAck"}
    Devices <- Capable
    MaxExecs = 2
    MaxDups = 0
CHECK_DEADLOCK FALSE
INVARIANTS
    ForwardsWholeRequest
