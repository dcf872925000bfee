SPECIFICATION FairSpec
CONSTANTS
  Files <- MCFiles
  Setups <- MCSetups
  MaxClock = 12
INVARIANTS
  TypeOK BuildsOnMakefiles
PROPERTIES
  RemakingEnds
CHECK_DEADLOCK FALSE
