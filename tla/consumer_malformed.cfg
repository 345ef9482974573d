SPECIFICATION FairSpec
CONSTANTS
    Partitions = {t1}
    Members = {m1}
    Kinds = {"event", "malformed"}
    GroupIsNew = FALSE
    MaxMessages = 3
    BatchErrors = FALSE
    MaxRestarts = 1
PROPERTY EventuallyDurable
CHECK_DEADLOCK FALSE
