SPECIFICATION Spec
CONSTANTS
  Confirm = 1
  MaxDelay = 0
  RxDepth = 1
  FarmWindow = 2
  MaxSequence = 2
  MaxClcws = 3
  MaxFaults = 1
  Faults <- OnlyCapture
  FirstFarms <- Farms
PROPERTIES StaleIgnored
