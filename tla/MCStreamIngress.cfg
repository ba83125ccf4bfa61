SPECIFICATION Spec
CONSTANTS
  Packets = 4
  Size <- MCSize
  BufferLength = 2
  PendingLimit = 3
CHECK_DEADLOCK FALSE
INVARIANTS TypeOK InOrder BufferOnce BacklogBound
PROPERTIES ClosedIsReported TeardownCloses CreditReturns
