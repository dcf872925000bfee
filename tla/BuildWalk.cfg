\* Every small makefile, any initial times, any failures, with and without -k and -B.
\* Fair, so that the walk is seen to end.
SPECIFICATION FairSpec
CONSTANTS
  all = all
  a = a
  b = b
  src = src
  Files <- MCFiles
  MaxDepth = 2
  Makefiles <- MCMakefiles
  InitialTimes = {0, 1, 2}
  Start = 2
CHECK_DEADLOCK FALSE
INVARIANTS
  TypeOK
  GroupRunsOnce
  DepthFirst
  NoneBuiltOnFailure
  CacheFresh
  UpToDateAtEnd
  NullBuild
  IntermediatesRemoved
PROPERTY
  Terminates
