SPECIFICATION FairSpec
CONSTANTS
    native = native
    n8n = n8n
    Providers <- MCProviders
    Local <- MCLocal
    Priority <- MCPriority
    FallbackEnabled = TRUE
    Requests = {r1, r2, r3}
    Checkers = {c1}
    Threshold = 2
    MaxUpdates = 1
    MaxProbes = 2
INVARIANTS
    TypeOK
    BreakerCountsFailures
    ExecutionsAreCounted
    NoProviderLeftUntried
    AskedOnce
PROPERTIES
    RequestsAnswered
CHECK_DEADLOCK FALSE
