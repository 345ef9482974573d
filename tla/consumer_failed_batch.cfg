SPECIFICATION Spec
CONSTANTS
    Partitions = {t1}
    Members = {m1}
    Kinds = {"event"}
    GroupIsNew = FALSE
    MaxMessages = 3
    BatchErrors = TRUE
    MaxRestarts = 0
INVARIANT CommittedIsDurable
CHECK_DEADLOCK FALSE
