CONSTANTS
    Bundles = {"base", "layered"}
    Standard = {"layered"}
    Users <- MCUsers
    Requester <- MCRequester
    MaxRestarts = 2
SPECIFICATION Spec
INVARIANTS
    WrittenIsAgreed
    ClearedIsAccepted
CHECK_DEADLOCK FALSE
