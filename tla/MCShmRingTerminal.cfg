CONSTANTS
  r1 = r1
  r2 = r2
  Writer = w
  NoProc = none
  NSlots = 1
  MaxReaders = 2
  MaxGen = 1
  Readers <- AllReaders
  Mortal <- Everybody
SPECIFICATION Spec

PROPERTY QuarantineIsTerminal
CHECK_DEADLOCK FALSE
