\* One subscription, two handlers and a request of the user; a change, and a failed run.
SPECIFICATION Spec
CONSTANTS
    Subs = {s1}
    Rows = {free, r1, r2}
    FreeRow = free
    None = none
    Handlers = {h1, h2}
    Requests = {q1}
    MaxRank = 2
    MaxChanges = 1
    MaxFaults = 1
INVARIANTS
    TypeOK
    PlanFollowsStripe
PROPERTIES
    NoEarlyDowngrade
SYMMETRY Symmetry
CHECK_DEADLOCK FALSE
