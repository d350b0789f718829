SPECIFICATION FairSpec
CONSTANTS
  Coalesce = TRUE
  BindFails = TRUE
  CreateFails = TRUE
  MaxBlocks = 3
  MaxCommands = 3
  MaxSessions = 2
INVARIANTS TypeOK InStep WholeTransfer
PROPERTIES CommandEndsOrWaits
CHECK_DEADLOCK FALSE
