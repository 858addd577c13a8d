CONSTANTS
  N = 3
  Cooperative = {1, 2}
  Beating = {2}
  MaxRestarts = 1
  Backoff = {3}
  DieLocked = FALSE
SPECIFICATION FairSpec
CHECK_DEADLOCK FALSE
INVARIANTS OneProcess
PROPERTIES ShutdownOrderly FailureHandled StopHonoured
