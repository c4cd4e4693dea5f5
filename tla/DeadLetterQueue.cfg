SPECIFICATION FairSpec
CONSTANTS
    NumEntries = 2
    Redrivers = {r1, r2}
    MaxRetries <- MCMaxRetries
    BatchSize = 2
    FailureThreshold = 1
    MaxApiCalls = 1
    MaxCrashes = 1
INVARIANTS
    TypeOK
    SentAtMostOnceUnlessRaced
    CompletedWasSent
    PermanentFailureIsExhausted
PROPERTIES
    CompletedIsFinal
    FollowsProtocol
    PendingIsTaken
CHECK_DEADLOCK FALSE
