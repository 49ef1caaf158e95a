SPECIFICATION Spec
CONSTANTS
    MaxTokens = 3
    MaxCerts = 3
    MaxLate = 0
    MaxFaults = 0
    MaxCrashes = 1
    ClockSteps = FALSE
    KeepAlive = TRUE
INVARIANT MemoryPairWorks
INVARIANT BootPairWorks
INVARIANT UsedTokenSupersedes
