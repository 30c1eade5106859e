SPECIFICATION StackSpec
CONSTANTS
    Clients = {c1, c2}
    FailureThreshold = 2
    SuccessThreshold = 1
    OpenDuration = 2
    MaxAttempts = 3
    InitialDelay = 1
    Multiplier <- MCMultiplier
    MaxDelay = 2
    Deadlines = {1}
INVARIANTS
    ExhaustedMeansAllFailed
    BackoffMatchesReference
PROPERTIES
    OpenWindowRunsOut
    EveryRetryReturns
