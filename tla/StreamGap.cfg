SPECIFICATION Safety
CONSTANTS
  Packets = 3
  Size <- MCSize
  BufferLength = 2
  PendingLimit = 3
CHECK_DEADLOCK FALSE
INVARIANT NoGap
