CONSTANTS
  None = None
  u1 = u1
  u2 = u2
  Byte <- MCByte
  Tool <- MCTool
  Arg <- MCArg
  Upstream <- TwoUpstreams
  Id = {7}
  Request <- OneRequest
  Times = {1}
  Envelope <- MCEnvelope
  Enforced = TRUE
  Offers <- MovingOffers
  FirstTable <- MovingTable
  CommandCap = 1
  EventCap = 2
  ClientCap = 1
  MaxCalls = 2
  MaxChanges = 2
  MaxNotices = 0
  SinkMayFail = FALSE
  ClientMayLeave = FALSE
SPECIFICATION Spec
INVARIANTS
  GrantedToolsNeverMove
  NoChangeIsLost
  ClientIsTold
PROPERTIES
  ActorsAreViews
