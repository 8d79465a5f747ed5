CONSTANTS
    g1 = g1
    g2 = g2
    g3 = g3
    d1 = d1
    d2 = d2
    Grants = {g1, g2, g3}
    NonceOf <- MCNonceOf
    KeyOf <- MCKeyOf
    Deliveries = {d1, d2}
    Limit = 2
SPECIFICATION FairSpec
INVARIANTS
    AtMostOneWrite
    SuccessIsOwn
    CutDeliveriesStop
PROPERTIES
    ImplementsJournal
    OneCallConfirms
CHECK_DEADLOCK FALSE
