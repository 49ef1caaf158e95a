SPECIFICATION Spec
CONSTANTS
    MaxTokens = 3
    MaxCerts = 3
    MaxLate = 1
    MaxFaults = 0
    MaxCrashes = 0
    ClockSteps = FALSE
    KeepAlive = TRUE
INVARIANT MemoryPairWorks
