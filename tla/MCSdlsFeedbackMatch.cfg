SPECIFICATION Spec
CONSTANTS
  ClcwsPerFsr = 3
  Reports <- BothReports
  NoReport = none
  LsbValues = 256
  MaxFrames = 6
  MaxOtars = 3
  MaxWire = 2
  MaxFaults = 2
  Faults <- LinkAndOperator
INVARIANTS
  MatchMeansAccepted
