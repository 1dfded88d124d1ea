CONSTANTS
  Newline = Newline
  Oversized = Oversized
  Nothing = Nothing
  Output <- MCOutput
  MaxFrame = 2
  Chunk = 2
  OutboundQueue = 2
  StdinRoom = 1
  StdoutRoom = 3
  MaxSends = 3
SPECIFICATION StdioSpec
INVARIANT Resynchronized
CHECK_DEADLOCK FALSE
