CONSTANTS
  c1 = c1
  Window = 1
  QueueMax = 1
  Policies = {"DROP_OLDEST"}
  SndHwm = 8
  Callers <- NoCaller
  BadReplies = {"skewed"}
  MaxFrames = 1
  MaxCrashes = 0
SPECIFICATION FairSpec
PROPERTIES EveryRequestAnswered
CHECK_DEADLOCK FALSE
