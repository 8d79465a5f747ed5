CONSTANTS
    c1 = c1
    c2 = c2
    c3 = c3
    p1 = p1
    p2 = p2
    Calls = {c1, c2, c3}
    RequestID <- MCRequestID
    Processes = {p1, p2}
    Home <- MCHome
    Limit = 1
    MaxCrashes = 1
SPECIFICATION FairSpec
INVARIANTS
    OneOfEach
PROPERTY
    EveryRunStarts
CHECK_DEADLOCK FALSE
