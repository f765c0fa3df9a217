SPECIFICATION Spec
CONSTANTS
  Values <- EitherWins
  MaxCandidates = 2
  MaxFaults = 1
  Faults <- EveryFault
CHECK_DEADLOCK FALSE
INVARIANTS
  TypeOK
  ElectionAgrees
  OtarKeepsElection
PROPERTIES
  KeysSentOnce
