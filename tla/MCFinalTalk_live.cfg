SPECIFICATION FairSpec
CONSTANTS
  u1 = u1
  u2 = u2
  u3 = u3
  User <- TwoUsers
  MaxUsers = 2
  MaxMsgn = 9
  QueueCap = 2
  MaxLines = 3
  MaxCrashes = 0
PROPERTIES QuitLeaves
CHECK_DEADLOCK FALSE
