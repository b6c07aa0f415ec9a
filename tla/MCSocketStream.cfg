SPECIFICATION StreamSpec
CONSTANTS
    Clients = {c1, c2}
    None = None
    Cmds = {get}
    Failing = {get}
    MaxRequests = 2
    MaxOps = 4
CHECK_DEADLOCK FALSE
INVARIANTS
    StreamTypeOK
    WorkRemains
    InOrder
PROPERTY
    Recovers
