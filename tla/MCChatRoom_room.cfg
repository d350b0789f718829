SPECIFICATION Spec
CONSTANTS
  u1 = u1
  u2 = u2
  u3 = u3
  u4 = u4
  User <- Four
  MaxUsers = 3
  QueueCap = 1
  SettledLaunch = TRUE
  MaxLines = 2
  MaxInts = 1
SYMMETRY UserSymmetry
CONSTRAINT Explored
INVARIANTS TypeOK LockHeldByOne TableAgrees Delivery
CHECK_DEADLOCK FALSE
