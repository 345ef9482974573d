SPECIFICATION FairServiceSpec
CONSTANTS
    RedisURL = TRUE
    MaxConcurrentBatches = 2
    BatchSize = 1
    MaxDue = 2
    MaxArrivals = 1
    MaxClaimErrors = 1
INVARIANTS
    ServiceTypeOK
    SlotsAccounted
    SendNeverBlocks
    StoppedIsQuiet
    PoolOutlivesParts
    NothingLeftOpen
PROPERTIES
    StopTerminates
    BacklogDrains
    ExitsUnlessRequestHangs
    
CHECK_DEADLOCK FALSE
