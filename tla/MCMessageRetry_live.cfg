\* Fair broker and consumers and one crash or connection loss; no symmetry because one property is temporal.
SPECIFICATION FairSpec
CONSTANTS
    Messages = {m1}
    Tokens = {t1, t2, t3}
    Consumers = {c1, c2}
    Drainers = {d1}
    Rows = {i1, i2}
    Admins = {}
    MaxRetries = 1
    MaxFaults = 1
    MaxRepublished = 0
    PublishMayFail = FALSE
    StoreMayFail = FALSE
    BrokerMayRestart = FALSE
PROPERTIES
    EventuallySettled
CHECK_DEADLOCK FALSE
