SPECIFICATION Spec
CONSTANTS
    Clients = {c1}
    None = None
    Cmds = {"step", "step_in", "step_out", "continue", "pause", "add_breakpoint", "clear_breakpoints", "eval", "get"}
    Failing = {"add_breakpoint", "clear_breakpoints", "eval", "get"}
    MaxRequests = 2
    MaxOps = 4
    LuaStates = {L1}
    Wait = FALSE
CHECK_DEADLOCK FALSE
INVARIANTS
    PauseHasClient
    NothingLeaks
    NoExceptionReason
