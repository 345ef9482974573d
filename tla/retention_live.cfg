SPECIFICATION FairSpec
CONSTANTS
    Null = Null
    MaxAttempts = 2
    Cleaners = {c1}
    Txs = {t1}
    Events = {e1, e2}
    Subs = {s1}
    AttemptBodyRetention = 0
    EventRetention = 0
    BatchSize = 1
    MaxNow = 1
    MaxFailures = 1
    MaxReplays = 1
    MaxHandouts = 1
PROPERTIES
    EventuallyRemoved
    EventuallyRedacted
CHECK_DEADLOCK FALSE
