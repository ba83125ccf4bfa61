SPECIFICATION FloodSpec
CONSTANTS
  c1 = c1
  c2 = c2
  ip = ip
  dst = dst
  Missing = Missing
  Conns <- MCConns
  Source <- MCSource
  Dest = dst
  Limit <- MCLimit
  Length <- MCLength
  MaxDelay = 3
  CloseAfter = 1
  Window = 1
  MinSamples = 2
  Ratio = 60
SYMMETRY Symmetry
INVARIANTS RateBound DetectorsForgotten
PROPERTIES NoFalseThrottle

