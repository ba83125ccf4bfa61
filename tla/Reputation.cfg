SPECIFICATION Spec
CONSTANTS
  Sources = {s1}
  Dests = {d1}
  Weight = 1
  Escalation = 1
  Top = 2
  Low = 1
  Rate = 1
  Hour = 2
  SaveEvery = 1
  EvictAfter = 1
  Maintained = TRUE
  None = None
  Torn = Torn
INVARIANTS StoreWhole
PROPERTIES Saved Forgiven
