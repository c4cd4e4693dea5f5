SPECIFICATION FairSpec
CONSTANTS
    Requests = {r1, r2, r3}
    Keys = {k1, k2}
    MaxFaults = 2
INVARIANTS
    TypeOK
    IngestedAtMostOnce
CHECK_DEADLOCK FALSE
