CONSTANTS
  None = None
  Nul = "0"
  Unnameable <- MCUnnameable
  ValueCap = 6
  Letter <- Letters
  Fold <- MCFold
  Byte = {"a", "b"}
  Tool <- MCTool
  Arg <- MCArg
  Files <- MCFiles
  Calls <- MCCalls
  Cwd <- MCCwd
SPECIFICATION GateSpec
INVARIANT NormalizationNeverWidens
CHECK_DEADLOCK FALSE
