SPECIFICATION Spec
CONSTANTS
    Null = Null
    Values = {"params"}
    Uses <- SomeUses
    MaxRequests = 3
    HighWater = 3
CHECK_DEADLOCK FALSE
INVARIANTS
    TypeOK
    ListenersExact
    NothingVanishes
    StatusTold
PROPERTIES
    CallsImplemented
    Settled
