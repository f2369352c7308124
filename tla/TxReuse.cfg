SPECIFICATION Spec
CONSTANTS
    NReq = 2
    IdMod = 1
    SeqMod = 4
    ReqSegs <- Mixed
    RespSegs = 3
    ClientWindow = 2
    ServerWindow = 2
    Retries = 0
    AckKinds = {"ComplexAck", "Abort"}
    Devices <- CapableOrLacking
    MaxExecs = 3
    MaxDups = 1
CHECK_DEADLOCK FALSE
INVARIANTS
    ExecutionsBounded
    SegmentationRespected
