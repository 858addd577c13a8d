SPECIFICATION FairLoops
CONSTANTS
    Starts <- AllStarts
    Scenes = {0, 1}
    FramePeriod = 1
    DetectTime = 1
    Stale <- StaleAfter
    Faults = 2
    Top = 1
CHECK_DEADLOCK FALSE
PROPERTIES DetectionsSpaced ChangeSeen ErrorStands
