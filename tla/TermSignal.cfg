SPECIFICATION Spec
CONSTANTS
  Makers = {1, 2}
  Longest = 2
  MaxRestarts = 2
  Given <- MCGiven
INVARIANTS MessageWhole TempRemoved
CHECK_DEADLOCK FALSE
