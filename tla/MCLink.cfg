SPECIFICATION FairSpec
CONSTANTS
  Confirm = 1
  MaxDelay = 0
  RxDepth = 1
  FarmWindow = 2
  MaxSequence = 2
  MaxClcws = 2
  MaxFaults = 2
  Faults <- EveryFault
  FirstFarms <- Farms
INVARIANTS TypeOK FailedNotReady
PROPERTIES NoFalseRestart Converges
