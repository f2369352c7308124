SPECIFICATION ForeignSpec
CONSTANTS
    TTL = 4
    RetryAfter = 3
    Grace = 6
    BBMDGrace = 4
    MaxDelay = 1
    MaxLost = 0
    MaxRefused = 0
    MaxStrays = 0
    MaxCalls = 3
    MaxLoose = 1
INVARIANTS
    ListedAtOnce
