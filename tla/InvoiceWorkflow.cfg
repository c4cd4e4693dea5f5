SPECIFICATION Spec
CONSTANTS
    Scores = {0, 75, 88, 95}
    Threshold = 85
    MaxErrors = 4
    MaxAttempts = 2
INVARIANTS
    TypeOK
    ReadyIsChecked
    OthersAreHeld
    FailuresAreNamed
    ResultIsSaved
CHECK_DEADLOCK FALSE
