SPECIFICATION FairSpec
CONSTANTS
    Sockets = {s1, s2, s3}
    None = None
    Swallows = TRUE
    MaxTroubles = 2
    MaxStarts = 1
PROPERTY
    CloseStops
CHECK_DEADLOCK FALSE
