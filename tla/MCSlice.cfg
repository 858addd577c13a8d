CONSTANTS
  Apps <- AllApps
  Threshold <- IouThreshold
  LogCap = 2
  MaxCount = 3
SPECIFICATION FairSpec
INVARIANTS TornDown CrossingsReported AccountsTrue
PROPERTIES StableAssociation AppEnds
CHECK_DEADLOCK FALSE
