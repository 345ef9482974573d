SPECIFICATION Spec
CONSTANTS
    Null = Null
    i1 = i1
    i2 = i2
    Instances = {i1}
    Events = {e1}
    Subs = {s1, s2}
    TypeOf <- MCTypeOf
    EventTypes <- MCEventTypes
    Consumers = {c1}
    Pollers = {p1}
    InstanceOf <- MCSharedInstance
    Requests = {q1}
    MaxAttempts = 2
    LeaseDuration = 1
    BatchSize = 1
    RetryDelays = {1}
    StatusCodes = {200, 404, 503}
    MaxNow = 1
    MaxGeneration = 2
PROPERTY FrozenDeliverySet
CHECK_DEADLOCK FALSE
