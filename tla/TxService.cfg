SPECIFICATION FairSpec
CONSTANTS
    NReq = 1
    IdMod = 1
    SeqMod = 4
    ReqSegs <- Unsegmented
    RespSegs = 3
    ClientWindow = 2
    ServerWindow = 2
    Retries = 1
    AckKinds = {"SimpleAck", "ComplexAck", "Error", "Reject", "Abort"}
    Devices <- Capable
    MaxExecs = 2
    MaxDups = 1
CHECK_DEADLOCK FALSE
INVARIANTS
    AnsweredOnce
    ResponseInOrder
PROPERTIES
    ProvidesService
    EveryRequestAnswered
    EveryTransactionEnds
