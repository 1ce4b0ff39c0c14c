\* Every fault together with the administrator's actions.
SPECIFICATION Spec
CONSTANTS
    Messages = {m1}
    Tokens = {t1, t2, t3}
    Consumers = {c1, c2}
    Drainers = {d1}
    Rows = {i1, i2}
    Admins = {a1}
    MaxRetries = 1
    MaxFaults = 1
    MaxRepublished = 1
    PublishMayFail = TRUE
    StoreMayFail = TRUE
    BrokerMayRestart = TRUE
SYMMETRY FaultSymmetry
INVARIANTS
    FatesAccounted
    RunsBounded
    NoMessageLost
PROPERTIES
    LedgerSpec
CHECK_DEADLOCK FALSE
