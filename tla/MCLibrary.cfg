SPECIFICATION LibrarySpec
CONSTANTS
    MaxTokens = 5
    RefillRate = 2
    Costs = {0, 1, 3, 6}
    MaxTime = 6
    Nodes = {n1, n2}
    Versions = {1, 256, 16777216}
    Keys = {k1, k2}
    Texts = {"t1", "t2"}
    ShortKey = short
    MaxBlobs = 1
    MaxCents = 7
    Currencies = {"USD", "EUR"}
    Wide = 16
    Sizes = {1, 2, 3, 5, 15}
    MaxSteps = 4
    MaxEdits = 2
    Bytes = {0, 105, 201, 255}
    Secrets = {"s1", "s2"}
    MaxBytes = 5
    Iat = 105
    Checks = {"db", "queue"}
    Accepts <- MCAccepts
    Supported <- MCSupported
    Stacks <- MCStacks
    Names = {"HOST", "PORT"}
    SettingTexts <- MCSettingTexts
    MaxInt = 131071
    MaxLong = 134217727
    MaxReads = 2
INVARIANTS
    GrantedWithinBudget
    OldCiphertextsStayReadable
    ArithmeticExact
    EveryItemOnce
    CompensatedInReverse
    TextsMatchReference
    TokensRoundTrip
    AnswersLabelled
    StartedOnItsSettings
