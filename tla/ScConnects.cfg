SPECIFICATION FairSpec
CONSTANTS
    Sockets = {s1, s2, s3}
    None = None
    Swallows = TRUE
    MaxTroubles = 1
    MaxStarts = 2
INVARIANTS
    NothingLeft
    ConnectedTruly
PROPERTIES
    ReturnsToPrimary
    CloseEnds
CHECK_DEADLOCK FALSE
