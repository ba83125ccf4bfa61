SPECIFICATION Spec
CONSTANTS
  i1 = i1
  i2 = i2
  i3 = i3
  k1 = k1
  k2 = k2
  s1 = s1
  s2 = s2
  s3 = s3
  Ids <- MCIds
  Slots <- MCSlots
  SlotOf <- MCSlotOf
  Streams <- MCStreams
  MaxStreams = 2
  Nil = Nil
CHECK_DEADLOCK FALSE
INVARIANTS OpenIsRegistered RoutedRight CountSettles NothingLeftOpen StreamLimit
