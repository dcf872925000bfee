SPECIFICATION Spec
CONSTANTS
  x = x
  y = y
  z = z
  Commands <- MCCommands
  Nothing = Nothing
  Script = Script
  Jobs <- MCJobs
INVARIANTS
  TypeOK
  TargetAsLeft
  AskingFaithful
PROPERTY ImplementsContract
CHECK_DEADLOCK FALSE
