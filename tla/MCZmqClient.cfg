CONSTANTS
  c1 = c1
  Window = 2
  QueueMax = 1
  Policies = {"DROP_OLDEST", "REJECT"}
  SndHwm = 8
  Callers <- NoCaller
  BadReplies = {"garbage", "skewed"}
  MaxFrames = 3
  MaxCrashes = 1
SPECIFICATION Spec
CHECK_DEADLOCK FALSE
INVARIANTS OneResponse Conserved
