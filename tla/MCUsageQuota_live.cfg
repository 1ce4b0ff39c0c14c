\* Fair transactions, expiry and renewal, a commit reported twice; no symmetry because two
\* properties are temporal.
SPECIFICATION FairSpec
CONSTANTS
    Requests = {r1}
    LiveKeys = {live}
    TestKeys = {test}
    Servers = {s1, s2}
    Renewers = {w1}
    Costs = {1}
    Limit = 2
    CommitDenied = TRUE
    MaxDeliveries = 2
    MaxOpen = 1
    MaxPeriod = 2
    MaxEvents = 2
INVARIANTS
    CounterIsPeriodTotal
PROPERTIES
    PendingResolved
    TransactionsEnd
CHECK_DEADLOCK FALSE
