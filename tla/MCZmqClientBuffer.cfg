CONSTANTS
  c1 = c1
  Window = 1
  QueueMax = 1
  Policies = {"DROP_OLDEST"}
  SndHwm = 3
  Callers <- NoCaller
  BadReplies = {}
  MaxFrames = 5
  MaxCrashes = 1
SPECIFICATION Spec
INVARIANTS SendNeverBlocks
CHECK_DEADLOCK FALSE
