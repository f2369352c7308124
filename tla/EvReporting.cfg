SPECIFICATION FairSpec
CONSTANTS
    Monitored = {2, 7, 15, 18, 25, 35}
    lowLimit = 10
    highLimit = 20
    deadband = 4
    faultLowLimit = 4
    faultHighLimit = 30
    Given = {"noSensor"}
    Delays = {0, 1}
    MaxSettings = 2
    MaxReady = 3
    Unset = Unset
INVARIANTS
    StateFitsValue
    PendingIsDue
    FaultOfValue
PROPERTIES
    HighLimitReported
