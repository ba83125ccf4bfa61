SPECIFICATION Spec
CONSTANTS
  c1 = c1
  c2 = c2
  c3 = c3
  d1 = d1
  d2 = d2
  d3 = d3
  Conns <- ConnSet
  Dials <- DialSet
  MaxConns = 2
  MaxSyns = 2
SYMMETRY Symmetry
INVARIANTS CountExact
PROPERTIES ConnectionsAreSlots SynsAreSlots
