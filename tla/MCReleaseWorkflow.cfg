CONSTANTS
    N = 3
    Deps <- MCDeps
    Verified = {1, 2}
    AutoRollback = {1}
    MaxSignals = 4
SPECIFICATION FairSpec
INVARIANTS
    Authorised
    DependencyOrder
    StoredIsTrue
    CancelStops
PROPERTIES
    FinalStays
    EndsUnlessPaused
    CancelEnds
CHECK_DEADLOCK FALSE
