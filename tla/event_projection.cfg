SPECIFICATION ProjectionSpec
CONSTANTS
    Null = Null
    MaxAttempts = 2
    Times = {1, 2}
    Now = 3
    MaxRows = 3
INVARIANTS
    StatusIsPrecedence
    NextIsSoonest
    DeliveredAtIsLast
CHECK_DEADLOCK FALSE
