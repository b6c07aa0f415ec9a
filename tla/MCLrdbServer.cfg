SPECIFICATION Spec
CONSTANTS
    Clients = {c1, c2}
    None = None
    Cmds = {"step", "eval"}
    Failing = {"eval"}
    MaxRequests = 1
    MaxOps = 3
    LuaStates = {L1, L2}
    Wait = TRUE
CHECK_DEADLOCK FALSE
SYMMETRY Symmetry
INVARIANTS
    TypeOK
    ViewInSync
    HookWhereAttached
    FirstDebuggerAwaited
PROPERTY SessionKept
