SPECIFICATION PipelineSpec
CONSTANTS
    Requests = {r1, r2}
    Keys = {"k1"}
    NoKey = NoKey
    Ttl = 1
    MaxTime = 2
    MaxRuns = 2
    Kinds <- MCKinds
    NoRequest = NoRequest
    AllowedOrigins = {"site"}
    MaxBytes = 1
    MaxTokens = 2
    RefillRate = 1
SYMMETRY Threads
INVARIANTS
    ContextOfOwnRequest
    CorsOnEveryAnswer
    HandlersWithinBudget
    ServedIsFresh
    SequentialRequestsRunOnce
