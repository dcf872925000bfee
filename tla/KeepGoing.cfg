SPECIFICATION Spec
CONSTANTS
  all = all
  a = a
  b = b
  c = c
  d = d
  src = src
  Idle = Idle
  Exited = Exited
  Workers = {w1, w2}
  Targets <- MCTargets
  Makefiles <- IndependentMakefiles
  LoadReadings = {FALSE}
INVARIANT
  KeepGoingBuildsTheRest
