SPECIFICATION BuildSpec
CONSTANTS
  all = all
  a = a
  b = b
  c = c
  src = src
  Idle = Idle
  Exited = Exited
  Workers = {w1, w2}
  Files <- MCFiles
  Targets <- MCTargets
  Makefiles = {}
  Given <- MCGiven
  MaxDepth = 2
  LoadReadings = {FALSE}
INVARIANT
  MissingRuleReported
