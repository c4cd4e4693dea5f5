SPECIFICATION Spec
CONSTANTS
    Files = {f1}
    Uploaders = {u1, u2}
    Approvers = {a1, a2}
    Workers = {w1, w2}
    ProcessRetries = 1
    ExportRetries = 1
    ReviewStates = {"reviewed", "processing", "approved"}
    MaxReviews = 1
    MaxFaults = 1
INVARIANTS
    TypeOK
    OneFirstTask
    AttemptsBounded
    NoAttemptIsLost
    ExportsAreApproved
    AnnouncedWorkIsBacked
SYMMETRY Symmetry
CHECK_DEADLOCK FALSE
