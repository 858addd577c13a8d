CONSTANTS
  c1 = c1
  Window = 1
  QueueMax = 1
  Policies = {"BLOCK"}
  SndHwm = 8
  Callers <- NoCaller
  BadReplies = {}
  MaxFrames = 3
  MaxCrashes = 0
SPECIFICATION Spec
INVARIANTS Conserved
CHECK_DEADLOCK FALSE
