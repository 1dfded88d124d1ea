CONSTANTS
  Id = {x}
  Caller = {k}
  Token = {t}
  None = None
  CommandCap = 1
  EventCap = 1
  MaxCalls = 2
  MaxMinted = 4

SPECIFICATION Spec

INVARIANT TokensAreInFlight
