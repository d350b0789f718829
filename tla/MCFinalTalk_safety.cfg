SPECIFICATION Spec
CONSTANTS
  u1 = u1
  u2 = u2
  u3 = u3
  User <- ThreeUsers
  MaxUsers = 2
  MaxMsgn = 4
  QueueCap = 3
  MaxLines = 3
  MaxCrashes = 1
SYMMETRY UserSymmetry
INVARIANTS TypeOK LockHeldByOne SlotsAgree NoStarve AgreedOrder OwnQuitOnly
PROPERTIES ImplementsTotalOrder
CHECK_DEADLOCK FALSE
