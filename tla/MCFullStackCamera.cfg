CONSTANTS
  NSlots = 3
  Window = 2
  QueueMax = 3
  MaxRestarts = 2
  CamCrashes = 1
  SrvCrashes = 0
SPECIFICATION FairSpec
PROPERTIES CameraRecovers
CHECK_DEADLOCK FALSE
