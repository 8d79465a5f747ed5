CONSTANTS
    Ops = {deploy}
    MaxAttempts = 3
SPECIFICATION FairSpec
INVARIANTS
    AtMostOneCall
    SuccessIsRecorded
PROPERTIES
    EventuallyDecided
    ImplementsJournal
CHECK_DEADLOCK FALSE
