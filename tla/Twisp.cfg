SPECIFICATION Spec
CONSTANTS
  Terms = {t1, t2}
  Ids = {i1, i2}
  None = None
INVARIANTS TerminalRegistered LateOutput
PROPERTIES ExitReported TeardownKills
CHECK_DEADLOCK FALSE
