SPECIFICATION FairSpec
CONSTANTS
    Files = {f1}
    Uploaders = {u1}
    Approvers = {a1, a2}
    Workers = {w1, w2}
    ProcessRetries = 1
    ExportRetries = 0
    ReviewStates = {"reviewed"}
    MaxReviews = 1
    MaxFaults = 1
PROPERTY
    Drains
CHECK_DEADLOCK FALSE
