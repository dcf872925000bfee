SPECIFICATION Spec
CONSTANTS
  Names <- MCNames
  Dotted = {".c", ".o"}
  Lines <- MCLines
  Setups <- MCSetups
  BuiltinRules <- MCBuiltinRules
  DefaultGoal = "GOAL"
  environment_overrides = FALSE
  MaxLines = 4
  MaxDepth = 2
INVARIANTS
  ReaderTypeOK CommandLineHolds OneBranch ReadInOrder DefaultGoalIsFirst DatabaseAgrees
CHECK_DEADLOCK FALSE
