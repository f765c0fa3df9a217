SPECIFICATION FairSpec
CONSTANTS
  ClcwsPerFsr = 3
  Reports <- BothReports
  NoReport = none
  LsbValues = 256
  MaxFrames = 4
  MaxOtars = 2
  MaxWire = 2
  MaxFaults = 1
  Faults <- LinkAndRestart
INVARIANTS
  TypeOK
  ClcwPrompt
  AcceptanceInsistent
PROPERTIES
  AcceptanceRetained
  AcceptanceArrives
