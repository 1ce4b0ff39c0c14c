\* Two requests open at a time, two codes, two sessions, one change of password.
SPECIFICATION Spec
CONSTANTS
    Codes = {c1, c2}
    Tokens = {k1, k2}
    Transactions = {t1, t2}
    None = none
    MaxPasswords = 2
    MaxWorkspaces = 2
SYMMETRY Symmetry
INVARIANTS
    TypeOK
    CodeUsesBounded
    OpenCodesBounded
    SessionsFollowPassword
    ProductsBounded
CHECK_DEADLOCK FALSE
