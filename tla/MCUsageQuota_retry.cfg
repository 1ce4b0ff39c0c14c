\* The same success report processed twice.
SPECIFICATION Spec
CONSTANTS
    Requests = {r1}
    LiveKeys = {live}
    TestKeys = {}
    Servers = {s1}
    Renewers = {}
    Costs = {1}
    Limit = 3
    CommitDenied = FALSE
    MaxDeliveries = 2
    MaxOpen = 1
    MaxPeriod = 0
    MaxEvents = 0
INVARIANTS
    DebitedOnce
CHECK_DEADLOCK FALSE
