SPECIFICATION FairForeignSpec
CONSTANTS
    TTL = 4
    RetryAfter = 3
    Grace = 6
    BBMDGrace = 4
    MaxDelay = 1
    MaxLost = 2
    MaxRefused = 1
    MaxStrays = 1
    MaxCalls = 3
    MaxLoose = 1
INVARIANTS
    OneRenewal
    RegisteredIsListed
    RenewalsGoOn
PROPERTIES
    RegistersAgain
