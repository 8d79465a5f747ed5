CONSTANTS
    Services = {1, 2, 3}
    MaxTimes <- MCMaxTimes
    MaxPhase = 2
    Keys <- MCKeys
    Uses <- MCUses
    LimitOf <- MCLimitOf
SPECIFICATION FairSpec
INVARIANTS
    PhasesAreLeast
    OrderSurvivesSelection
    WavesFollowOrder
PROPERTIES
    PlanEndsWell
CHECK_DEADLOCK FALSE
