SPECIFICATION FairSpec
CONSTANTS
  User <- Two
  MaxLog = 2
  OrderedLaunch = TRUE
  MaxLines = 4
  MaxCrashes = 1
INVARIANTS TypeOK LockHeldByOne RingIntegrity BarrierHolds RemovedByLast
PROPERTIES EndTogether EveryoneStarts QuitEnds
CHECK_DEADLOCK FALSE
