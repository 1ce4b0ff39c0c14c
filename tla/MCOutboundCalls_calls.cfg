\* Two checkouts at a time, in all two of each kind; an e-mail; two attempts and one retry.
SPECIFICATION FairSpec
CONSTANTS
    Requests = {q1, q2}
    Keys = {k1}
    NoKey = nokey
    Mails = {m1}
    MaxAttempts = 2
    MaxRetries = 1
    MaxRequests = 2
INVARIANTS
    OneSessionPerKey
    CallsAccounted
    KeysUsable
PROPERTIES
    CallsEnd
CHECK_DEADLOCK FALSE
