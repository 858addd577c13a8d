CONSTANTS
  N = 2
  Cooperative = {1, 2}
  Beating = {2}
  MaxRestarts = 1
  Backoff = {}
  DieLocked = TRUE
SPECIFICATION FairSpec
PROPERTIES StopHonoured
CHECK_DEADLOCK FALSE
