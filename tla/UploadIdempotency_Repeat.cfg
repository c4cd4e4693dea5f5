SPECIFICATION FairSpec
CONSTANTS
    Requests = {r1, r2}
    Keys = {k1}
    MaxFaults = 0
PROPERTY
    RepeatGetsResult
CHECK_DEADLOCK FALSE
