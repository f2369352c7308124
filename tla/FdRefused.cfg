SPECIFICATION FairForeignSpec
CONSTANTS
    TTL = 10
    RetryAfter = 5
    Grace = 30
    BBMDGrace = 5
    MaxDelay = 0
    MaxLost = 0
    MaxRefused = 1
    MaxStrays = 0
    MaxCalls = 1
    MaxLoose = 2
PROPERTIES
    RegistersWhatever
