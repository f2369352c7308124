SPECIFICATION FairSpec
CONSTANTS
    NReq = 2
    IdMod = 2
    SeqMod = 4
    ReqSegs <- Unsegmented
    RespSegs = 1
    ClientWindow = 2
    ServerWindow = 2
    Retries = 1
    AckKinds = {"SimpleAck", "ComplexAck", "Error", "Reject", "Abort"}
    Devices <- Capable
    MaxExecs = 4
    MaxDups = 0
CHECK_DEADLOCK FALSE
PROPERTIES
    ProvidesService
