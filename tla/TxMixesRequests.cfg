SPECIFICATION Spec
CONSTANTS
    NReq = 2
    IdMod = 1
    SeqMod = 4
    ReqSegs <- TwoSegments
    RespSegs = 1
    ClientWindow = 2
    ServerWindow = 2
    Retries = 0
    AckKinds = {"SimpleAck"}
    Devices <- Capable
    MaxExecs = 2
    MaxDups = 0
CHECK_DEADLOCK FALSE
INVARIANTS
    HandsOverOneRequest
