CONSTANTS
    deploy = deploy
    Keys = {deploy}
    Files <- MCFiles
    FileOf <- MCFileOf
    Conclusions = {"success", "failure"}
    PageSize = 2
    Skew = 1
    MaxMinutes = 2
    MaxOthers = 2
SPECIFICATION FairDispatchSpec
INVARIANTS
    TerminalIsHarmless
    ConfirmedIsOwn
PROPERTIES
    SuccessIsResolved
CHECK_DEADLOCK FALSE
