SPECIFICATION ConcurrencySpec
CONSTANTS
    Calls = {c1, c2, c3, c4}
    FailureThreshold = 3
    SuccessThreshold = 2
    OpenDuration = 2
    Callers = {t1, t2, t3}
    Limit = 2
    MaxConcurrent = 2
    HedgeDelay = 3
    Flushers = {f1, f2}
    Types = {e1}
    MaxStores = 2
    MaxHandlers = 2
INVARIANTS
    SlotsAccounted
    ExecutionsBounded
    FirstValueReturned
    ExceptionOnlyWithoutValue
    EachEventInOnePlace
    InOrderPerFlusher
    DeliveredMeansHandled
    NoCallbackAfterStop
    NothingLeftBehind
PROPERTIES
    TripsOnlyAfterFailures
    ClosesOnlyAfterSuccesses
    ImplementsProtocol
    OpenIsProbed
    SlotsComeBack
    HedgedCallReturns
    EveryEventHandled
    StopReturns
    InPlaceChangeReported
