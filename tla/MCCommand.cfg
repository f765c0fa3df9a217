SPECIFICATION FairSpec
CONSTANTS
  Capacity = 2
  MaxRequests = 3
  MaxCommands = 1
  MaxReplies = 2
  Faults <- AllFaults
INVARIANTS TypeOK NewIsNotDuplicate VerdictFinal
PROPERTIES CopyNotExecuted KeepsServicePromise FateLearned
