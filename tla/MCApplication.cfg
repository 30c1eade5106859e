SPECIFICATION StackSpec
CONSTANTS
    Threads = {w1, w2, monitor}
    Monitor = monitor
    Bounds = {1, 5}
    Durations = {3}
    Commands = {"command"}
    Queries = {"query"}
    Chains <- MCChains
    Types = {"int", "string"}
    Tasks <- MCTasks
    NoContext = ""
    IdSpace = 256
    MaxTasks = 2
    MaxObservations = 1
SYMMETRY Pool
INVARIANTS
    SpansAccounted
    MetricsAccounted
    PageIsConsistent
    LinesOfOwnTask
