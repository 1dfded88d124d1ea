CONSTANTS
  None = None
  Nul = "0"
  Unnameable <- MCUnnameable
  ValueCap = 6
  Letter <- Letters
  Fold <- MCFold
  Byte <- MCByte
  Tool <- AllTools
  Arg <- MCArg
  Files <- MCFiles
  Calls <- MCCalls
  Cwd <- MCCwd
  GrantSets <- MCGrantSets
  ToolCalls <- MCToolCalls
  Times <- MCTimes
SPECIFICATION AuthoritySpec
INVARIANTS
  AttenuatesRoot
  RootBoundsAuthority
  RootBoundsVisibility
  ListAgreesWithDecision
  TimeOnlyNarrows
  AdmitsWhatTheFileGrants
  TraceReplays
CHECK_DEADLOCK FALSE
