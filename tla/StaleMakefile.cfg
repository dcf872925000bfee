SPECIFICATION Spec
CONSTANTS
  Files <- MCFiles
  Setups <- CopiedSetups
  MaxClock = 12
INVARIANTS
  MakefilesFresh
CHECK_DEADLOCK FALSE
