\* Two racing transactions over three requests, each commit reported up to twice, denied requests included; no renewal.
SPECIFICATION Spec
CONSTANTS
    Requests = {r1, r2, r3}
    LiveKeys = {live}
    TestKeys = {test}
    Servers = {s1, s2}
    Renewers = {}
    Costs = {2}
    Limit = 2
    CommitDenied = TRUE
    MaxDeliveries = 2
    MaxOpen = 2
    MaxPeriod = 0
    MaxEvents = 0
SYMMETRY Symmetry
INVARIANTS
    TypeOK
    LedgerAgrees
    DebitsBounded
    OneAnswer
    OvershootBounded
PROPERTIES
    LedgerSpec
CHECK_DEADLOCK FALSE
