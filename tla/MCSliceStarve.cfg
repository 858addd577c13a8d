CONSTANTS
  Apps <- DeadCamera
  Threshold <- IouThreshold
  LogCap = 2
  MaxCount = 3
SPECIFICATION FairSpec
PROPERTIES LastPipelineReached
CHECK_DEADLOCK FALSE
