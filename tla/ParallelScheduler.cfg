\* The scheduler over the small makefiles, two workers, any failures, with
\* and without -k, with -l.
SPECIFICATION FairSpec
CONSTANTS
  all = all
  a = a
  b = b
  c = c
  d = d
  src = src
  Idle = Idle
  Exited = Exited
  Workers = {w1, w2}
  Targets <- MCTargets
  Makefiles <- MCMakefiles
  LoadReadings = {TRUE, FALSE}
INVARIANTS
  TypeOK
  PrereqsFirst
  Accounting
  NeverWaitsInVain
  WaitRespected
  BuildComplete
PROPERTY
  ImplementsContract
  Terminates
