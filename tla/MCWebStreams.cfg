SPECIFICATION FairSpec
CONSTANTS
    Viewers = {v1, v2}
    Plain = {v2}
    Threads = 3
    Reserve = 1
    MaxStreamConns = 0
    HasCamera = TRUE
    Disturbances = 5
    Wrap = 2
    v1 = v1
    v2 = v2
CHECK_DEADLOCK FALSE
INVARIANTS BulkheadSound
PROPERTIES FeedComesBack VideoComesBack PlacesReturn
