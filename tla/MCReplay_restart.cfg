SPECIFICATION FairSpec
CONSTANTS
  Value <- ZeroOne
  MemSize = 22
  MaxInts = 2
  MaxKills = 3
INVARIANTS TypeOK LogHolds ReplayFaithful 
PROPERTIES Supervised
CHECK_DEADLOCK FALSE
