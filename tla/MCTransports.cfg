CONSTANTS
  Newline = Newline
  Oversized = Oversized
  Nothing = Nothing
  None = None
  NoType = NoType
  Output <- MCOutput
  MaxFrame = 2
  Chunk = 2
  OutboundQueue = 1
  StdinRoom = 1
  StdoutRoom = 3
  MaxSends = 2
  Request = {r}
  Note = {n}
  Session = {s}
  InboundQueue = 1
  ReconnectMin = 2
  ReconnectMax = 3
  Hint = {9}
  MaxItems = 1
  Chunks <- MCChunks
  MaxEvent = 3
  MaxChunks = 3
SPECIFICATION Spec
INVARIANTS TypeOK StdinIsWhatWasSent ShortLinesArrive FinishedPostsAnswer LifecycleInOrder SseItemsAreTheText
PROPERTY NeverHangs
CHECK_DEADLOCK FALSE
