SPECIFICATION Spec
CONSTANTS
  Files <- MCFiles
  Dotted = {}
  Directories <- MCDirectories
  MaxChain = 32
  MaxDepth = 10
  Given <- MCGiven
INVARIANTS TypeOK  RunsOnce FreshAtEnd SecondBuildIdle
CHECK_DEADLOCK FALSE
