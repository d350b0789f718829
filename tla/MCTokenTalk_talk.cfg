SPECIFICATION FairSpec
CONSTANTS
  N = 3
  QueueCap = 3
  MaxLines = 2
  MaxCrashes = 1
INVARIANTS TypeOK TokenUnique NothingLost BarrierHolds
PROPERTIES ImplementsBroadcast LineSent ReceiversEnd
CHECK_DEADLOCK FALSE
