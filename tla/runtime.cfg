SPECIFICATION FairSpec
CONSTANTS
    Null = Null
    i1 = i1
    i2 = i2
    Instances = {i1}
    Events = {e1}
    Subs = {s1}
    TypeOf <- MCTypeOf
    EventTypes <- MCEventTypes
    Consumers = {c1}
    Pollers = {p1}
    InstanceOf <- MCSharedInstance
    Requests = {q1}
    MaxAttempts = 2
    LeaseDuration = 1
    BatchSize = 1
    RetryDelays = {1}
    StatusCodes = {200, 404, 503}
    MaxNow = 3
    MaxGeneration = 2
INVARIANTS
    TypeOK
    LeaseInv
    LeaseExclusion
    LeaseProtects
    FencedOutcome
    
    AttemptBudget
    DeliveredWasAccepted
    SettledProjection
PROPERTIES
    TerminalIsFinal
    ImplementsLifecycle
    EventuallyTerminal
CHECK_DEADLOCK FALSE
