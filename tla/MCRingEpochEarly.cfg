CONSTANTS
  r1 = r1
  r2 = r2
  PoolSize = 2
  NSlots = 1
  Readers <- OneReader
  MaxEpoch = 3
  MaxFrames = 2
  MaxRestarts = 0
SPECIFICATION Spec
INVARIANT RefAfterPublish
CHECK_DEADLOCK FALSE
