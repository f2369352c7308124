SPECIFICATION Spec
CONSTANTS
    NReq = 2
    IdMod = 1
    SeqMod = 4
    ReqSegs <- ThreeAndTwo
    RespSegs = 1
    ClientWindow = 2
    ServerWindow = 2
    Retries = 1
    AckKinds = {}
    Devices <- Capable
    MaxExecs = 1
    MaxDups = 1
CHECK_DEADLOCK FALSE
INVARIANTS
    RequestInOrder
