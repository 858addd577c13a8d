CONSTANTS
  c1 = c1
  Window = 2
  QueueMax = 1
  Policies = {"DROP_OLDEST"}
  SndHwm = 8
  Callers <- NoCaller
  BadReplies = {}
  MaxFrames = 2
  MaxCrashes = 0
SPECIFICATION Spec
INVARIANTS DrainedMeansDone ConservedAlways
CHECK_DEADLOCK FALSE
