\* One subscription, two handlers, an owner; a change, a repeated event and a failed run.
SPECIFICATION FairSpec
CONSTANTS
    Subs = {s1}
    Free = free
    None = none
    Handlers = {h1, h2}
    Owners = {o1}
    MaxChanges = 1
    MaxDuplicates = 1
    MaxFaults = 1
INVARIANTS
    TypeOK
    LinkedFollowsStripe
PROPERTIES
    EventsProcessed
CHECK_DEADLOCK FALSE
