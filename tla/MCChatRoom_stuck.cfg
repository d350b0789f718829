SPECIFICATION FairSpec
CONSTANTS
  u1 = u1
  u2 = u2
  u3 = u3
  u4 = u4
  User <- Two
  MaxUsers = 2
  QueueCap = 1
  SettledLaunch = TRUE
  MaxLines = 2
  MaxInts = 0
PROPERTIES LeavesAfterEnd
CHECK_DEADLOCK FALSE
