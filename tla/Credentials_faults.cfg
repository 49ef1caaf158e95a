SPECIFICATION Spec
CONSTANTS
    MaxTokens = 2
    MaxCerts = 3
    MaxLate = 0
    MaxFaults = 1
    MaxCrashes = 1
    ClockSteps = FALSE
    KeepAlive = TRUE
INVARIANT TokensNeverLost
INVARIANT UsedCertSupersedes
INVARIANT LivePairsStayBound
INVARIANT OnePending
