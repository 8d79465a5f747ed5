CONSTANTS
    N = 2
    Deps <- MCDeps
    Decision <- MCDecision
    AutoRollback = {1}
    MaxCalls = 3
SPECIFICATION EngineSpec
CHECK_DEADLOCK FALSE
INVARIANT
    SuccessIsComplete
