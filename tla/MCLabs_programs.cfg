SPECIFICATION FairSpec
CONSTANTS
  Rounds = 2
  MaxLines = 9
INVARIANTS PrintsRight NothingLeft
PROPERTIES EveryoneEnds
CHECK_DEADLOCK FALSE
