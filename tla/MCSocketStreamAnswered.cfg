SPECIFICATION StreamSpec
CONSTANTS
    Clients = {c1, c2}
    None = None
    Cmds = {get}
    Failing = {get}
    MaxRequests = 1
    MaxOps = 3
CHECK_DEADLOCK FALSE
INVARIANT
    AllAnswered
