CONSTANTS
  NSlots = 3
  Window = 2
  QueueMax = 3
  MaxRestarts = 2
  CamCrashes = 0
  SrvCrashes = 1
SPECIFICATION FairSpec
PROPERTIES FramesFlowAgain
CHECK_DEADLOCK FALSE
