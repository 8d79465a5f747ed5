CONSTANTS
    c1 = c1
    c2 = c2
    w1 = w1
    w2 = w2
    Creators = {c1, c2}
    Writers = {w1, w2}
    Conns = 3
    MaxVersion = 2
    MaxDamage = 1
SPECIFICATION FairStoreSpec
INVARIANTS
    HistoryIsLinear
    OneCreation
PROPERTIES
    AtomicStore
    CallsReturn
CHECK_DEADLOCK FALSE
