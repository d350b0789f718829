SPECIFICATION Spec
CONSTANTS
  User <- Two
  MaxLog = 4
  OrderedLaunch = TRUE
  MaxLines = 3
  MaxCrashes = 0
INVARIANTS SameOrder
CHECK_DEADLOCK FALSE
