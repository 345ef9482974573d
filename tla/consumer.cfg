SPECIFICATION FairSpec
CONSTANTS
    Partitions = {t1}
    Members = {m1, m2}
    Kinds = {"event", "malformed"}
    GroupIsNew = TRUE
    MaxMessages = 3
    BatchErrors = TRUE
    MaxRestarts = 2
INVARIANTS
    TypeOK
    LostOnlyIfSkipped
    HandedOutIsHeld
PROPERTY EventuallyDurableOrSkipped
CHECK_DEADLOCK FALSE
