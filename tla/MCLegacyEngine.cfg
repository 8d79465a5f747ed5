CONSTANTS
    N = 2
    Deps <- MCDeps
    Decision <- MCDecision
    AutoRollback = {1}
    MaxCalls = 5
SPECIFICATION EngineSpec
INVARIANTS
    Authorised
    SucceededIsVerified
PROPERTY
    DecisionsStay
CHECK_DEADLOCK FALSE
