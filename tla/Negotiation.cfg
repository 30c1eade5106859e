SPECIFICATION ResponsesSpec
CONSTANTS
    Checks = {"db"}
    Accepts <- MCAccepts
    Supported <- MCSupported
    Stacks <- MCStacks
INVARIANTS
    LabelledAsNegotiated
