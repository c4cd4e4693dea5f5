SPECIFICATION Spec
CONSTANTS
    NumEntries = 2
    Redrivers = {r1, r2}
    MaxRetries <- MCMaxRetries
    BatchSize = 2
    FailureThreshold = 1
    MaxApiCalls = 0
    MaxCrashes = 0
INVARIANT
    NoEntryStranded
CHECK_DEADLOCK FALSE
