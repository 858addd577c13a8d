CONSTANTS
  d1 = d1
  d2 = d2
  Detectors = {d1, d2}
  MinHits = 2
  MaxMisses = 1
  CandidateLease = 1
  DisplayLease = 2
  OffFrame = TRUE
  IdlePoll = 2
  MaxWait = 3
  Transports = {"sse", "poll", "none"}
  Late = 1
  MaxBoxes = 1
  MaxVersion = 3
  MaxEpoch = 2
  MaxProcess = 2
  PipeSize = 1
  MaxNow = 4
SPECIFICATION Spec
SYMMETRY Symmetric
CONSTRAINT Small
CHECK_DEADLOCK FALSE
INVARIANTS LeaseKept CaughtUp BrowserLease NeverAhead
PROPERTIES NewestResult
