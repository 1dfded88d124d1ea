CONSTANTS
  Id = {x, y}
  Caller = {k}
  Token = {t}
  None = None
  CommandCap = 1
  EventCap = 1
  MaxCalls = 2
  MaxMinted = 4

SPECIFICATION FairSpec

INVARIANTS IndexesAgree AnsweredOrWithdrawn ClaimsAreKnown CallersAreKnown TokensAreCounted
PROPERTIES CancelHitsItsCall ImplementsActorView CallersReturn
