SPECIFICATION SagaSpec
CONSTANTS
    MaxSteps = 2
INVARIANTS
    CompensatedOnException
