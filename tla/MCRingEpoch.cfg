CONSTANTS
  r1 = r1
  r2 = r2
  PoolSize = 2
  NSlots = 1
  Readers <- OneReader
  MaxEpoch = 4
  MaxFrames = 2
  MaxRestarts = 1
SPECIFICATION Spec
CHECK_DEADLOCK FALSE
INVARIANTS StaleAfterSwitchover FrameOfRef WriteOfEpoch SwitchoverSound
