SPECIFICATION OutboxSpec
CONSTANTS
    Flushers = {f1}
    Types = {t1}
    MaxStores = 2
INVARIANTS
    AtLeastOnce
