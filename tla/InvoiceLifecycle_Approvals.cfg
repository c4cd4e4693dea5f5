SPECIFICATION Spec
CONSTANTS
    Files = {f1}
    Uploaders = {u1}
    Approvers = {a1, a2}
    Workers = {w1}
    ProcessRetries = 0
    ExportRetries = 0
    ReviewStates = {"reviewed"}
    MaxReviews = 1
    MaxFaults = 0
INVARIANT
    ApprovedOncePerReady
CHECK_DEADLOCK FALSE
