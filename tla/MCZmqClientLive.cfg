CONSTANTS
  c1 = c1
  Window = 1
  QueueMax = 1
  Policies = {"BLOCK"}
  SndHwm = 1
  Callers <- OneCaller
  BadReplies = {}
  MaxFrames = 2
  MaxCrashes = 0
SPECIFICATION FairSpec
PROPERTIES ShutdownEnds EveryRequestAnswered
CHECK_DEADLOCK FALSE
