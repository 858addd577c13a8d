CONSTANTS
  r1 = r1
  r2 = r2
  Writer = w
  NoProc = none
  NSlots = 1
  MaxReaders = 2
  MaxGen = 2
  Readers <- OneReader
  Mortal <- Reader1
SPECIFICATION BusySpec

PROPERTY DeadReaderReaped
CHECK_DEADLOCK FALSE
