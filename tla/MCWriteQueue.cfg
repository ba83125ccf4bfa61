SPECIFICATION Spec
CONSTANTS
  g1 = g1
  g2 = g2
  g3 = g3
  r1 = r1
  r2 = r2
  r3 = r3
  Goroutines <- MCGoroutines
  Reqs <- MCReqs
  Pooled <- MCPooled
  None = None
CHECK_DEADLOCK FALSE
INVARIANTS SingleWriter NoStrandedFrame PutOnce NoForgottenBuffer
PROPERTIES ImplementsChannel CloseCompletes FramesLeave
