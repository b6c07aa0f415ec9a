SPECIFICATION Spec
CONSTANTS
    Clients = {c1, c2}
    None = None
    Cmds = {"continue", "get"}
    Failing = {"get"}
    MaxRequests = 1
    MaxOps = 3
    LuaStates = {L1}
    Wait = FALSE
CHECK_DEADLOCK FALSE
PROPERTIES
    GoneClientLetsGo
    StreamImplemented
    SessionImplemented
