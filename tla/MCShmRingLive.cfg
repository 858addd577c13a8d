CONSTANTS
  r1 = r1
  r2 = r2
  Writer = w
  NoProc = none
  NSlots = 3
  MaxReaders = 1
  MaxGen = 4
  Readers <- OneReader
  Mortal <- Reader1
SPECIFICATION FairSpec
INVARIANTS DegradedRingAsksRebuild
PROPERTIES CallsReturn PoisonedReadQuarantined DegradedRingRebuilt ImplementsChannel
CHECK_DEADLOCK FALSE
