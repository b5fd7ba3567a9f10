SPECIFICATION FairSpec
CONSTANTS
    Runs = {r1, r2}
    r1 = r1
    r2 = r2
    MaxAttempts <- OneRetry
    MaxRevoked = 2
CHECK_DEADLOCK FALSE
INVARIANTS
    LoginsAreNeeded
    RetryUsesNewerToken
    OneRevocationIsHarmless
    ArtifactsAreFresh
PROPERTIES
    LockIsPassedOn
