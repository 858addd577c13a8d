CONSTANTS
  NSlots = 4
  Window = 2
  QueueMax = 2
  MaxRestarts = 2
  CamCrashes = 1
  SrvCrashes = 3
SPECIFICATION FairSpec
CHECK_DEADLOCK FALSE
INVARIANTS SlotsAccounted
PROPERTIES FramesFlow
