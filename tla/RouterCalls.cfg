CONSTANTS
  None = None
  u1 = u1
  u2 = u2
  Byte <- MCByte
  Tool <- MCTool
  Arg <- MCArg
  Upstream <- OneUpstream
  Id = {7, 8}
  Request <- GateRequests
  Times <- MCTimes
  Envelope <- MCEnvelope
  Enforced = TRUE
  Offers <- FixedOffers
  FirstTable <- FixedTable
  CommandCap = 1
  EventCap = 2
  ClientCap = 1
  MaxCalls = 3
  MaxChanges = 0
  MaxNotices = 1
  SinkMayFail = TRUE
  ClientMayLeave = TRUE
SPECIFICATION Spec
INVARIANTS
  TypeOK
  OneStoryPerCall
  ForwardedOnlyIfAllowed
  OpenCallsAreInFlight
  AnsweredAsTraced
  AllowsAreAccountedFor
  NoCallIsStranded
PROPERTIES
  ImplementsCallLife
