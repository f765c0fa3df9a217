SPECIFICATION FairSpec
CONSTANTS
  Values <- OnlyTies
  MaxCandidates = 4
  MaxFaults = 1
  Faults <- Exhaustion
CHECK_DEADLOCK FALSE
PROPERTIES
  InstalledKeysConfirmed
