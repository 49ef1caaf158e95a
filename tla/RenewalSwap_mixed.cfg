SPECIFICATION Spec
CONSTANTS
  MaxPairs = 4
  MaxFaults = 1
  MaxCrashes = 2
INVARIANT LoadedPairMatches
CHECK_DEADLOCK FALSE
