CONSTANTS
  Invocations <- MCInvocations
  Tool = {"read", "big"}
  Page <- MCPage
  Size <- MCSize
  Cursor = {c, d}
  None = None
  EventQueue = 2
  MaxPages = 3
  MaxTools = 2
  MaxBytes = 3
  MaxRuns = 3
  MaxEvents = 4
SPECIFICATION StartupSpec
INVARIANTS AllOrNothing TraceFileIsWhole
PROPERTY StartupReturns
CHECK_DEADLOCK FALSE
