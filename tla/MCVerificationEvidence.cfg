CONSTANTS
    Comparators = {"lte", "gte"}
    Modes = {"last", "avg", "max"}
    Minimums = {1, 2}
    Ages = {1, 3}
    Threshold = 0
    From = 2
    To = 4
    Times <- MCTimes
    Values <- MCValues
    MaxPoints = 3
    Lifetimes = {1, 3}
    MaxTime = 3
SPECIFICATION EvidenceSpec
INVARIANTS
    VerdictIsEarned
CHECK_DEADLOCK FALSE
