SPECIFICATION Spec
CONSTANTS
  u1 = u1
  u2 = u2
  u3 = u3
  User <- TwoUsers
  MaxUsers = 2
  MaxMsgn = 2
  QueueCap = 4
  MaxLines = 2
  MaxCrashes = 0
INVARIANTS WaitsForItsNumber
CHECK_DEADLOCK FALSE
