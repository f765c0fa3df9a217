SPECIFICATION FairSpec
CONSTANTS
  Values <- EitherWins
  MaxCandidates = 5
  MaxFaults = 2
  Faults <- LateAnswer
CHECK_DEADLOCK FALSE
INVARIANTS
  TrafficUnderstood
  SoleOtarSender
PROPERTIES
  CommitFollowsInstall
  KeepsKeyPromise
  RotationCompletes
