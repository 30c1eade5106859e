SPECIFICATION HedgeSpec
CONSTANTS
    HedgeDelay = 1
INVARIANTS
    FirstExceptionRethrown
CHECK_DEADLOCK FALSE
