SPECIFICATION Spec
CONSTANTS
    Null = Null
    MaxAttempts = 2
    Cleaners = {c1}
    Txs = {t1, t2}
    Events = {e1}
    Subs = {s1, s2}
    AttemptBodyRetention = 0
    EventRetention = 1
    BatchSize = 1
    MaxNow = 2
    MaxFailures = 0
    MaxReplays = 1
    MaxHandouts = 1
INVARIANTS
    TypeOK
    NoOrphan
    StopWaits
PROPERTIES
    ActiveSurvives
    YoungSurvives
CHECK_DEADLOCK FALSE
