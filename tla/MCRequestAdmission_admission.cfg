\* Two requests, a revocation, an edit; no symmetry because one property is temporal.
SPECIFICATION FairSpec
CONSTANTS
    Requests = {r1, r2}
    None = none
    Limit = 1
    MaxEdits = 1
INVARIANTS
    StaleFillsBounded
    SettingsFollowRule
PROPERTIES
    RevokedIsRefused
    LimitLifts
CHECK_DEADLOCK FALSE
