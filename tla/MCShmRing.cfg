CONSTANTS
  r1 = r1
  r2 = r2
  Writer = w
  NoProc = none
  NSlots = 1
  MaxReaders = 2
  MaxGen = 3
  Readers <- AllReaders
  Mortal <- Everybody
SPECIFICATION Spec
SYMMETRY Symmetry
CHECK_DEADLOCK FALSE
INVARIANTS IInv NoTornFrame LivePinKept NoSilentOverwrite
