\* Two subscriptions, two handlers; one change of payment state, one repeated event.
SPECIFICATION Spec
CONSTANTS
    Subs = {s1, s2}
    Free = free
    None = none
    Handlers = {h1, h2}
    Owners = {}
    MaxChanges = 1
    MaxDuplicates = 1
    MaxFaults = 0
INVARIANTS
    WorkspaceFollows
PROPERTIES
    LinkedAtCreation
SYMMETRY Symmetry
CHECK_DEADLOCK FALSE
