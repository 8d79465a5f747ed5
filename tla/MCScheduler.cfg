CONSTANTS
    web1 = web1
    web2 = web2
    api = api
    stage = stage
    Dispatches = {web1, web2, api, stage}
    StepOf <- MCStepOf
    LimitOf <- MCLimitOf
    MinimumSamples = 2
    WindowSize = 2
    RateNum = 1
    RateDen = 2
    OneProcess = TRUE
    Freezable <- MCFreezable
    MaxLate = 1
    MaxRestarts = 1
SPECIFICATION Spec
INVARIANTS
    BudgetIsExact
    ReleasedAtEnd
    TripsInTime
    FreezeHolds
PROPERTY
    OpenStopsProduction
CHECK_DEADLOCK FALSE
