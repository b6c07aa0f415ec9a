SPECIFICATION Spec
CONSTANTS
    Main = main
    Others = {}
    Sources = {s}
    Lines = {1}
    BreakFiles = {f}
    SamePath <- Nowhere
    Inside <- Parts
    HitConditions <- EveryOperator
    Cmds = {"step", "step_in", "continue", "pause", "add_breakpoint", "clear_breakpoints"}
    MaxDepth = 1
    MaxBreakpoints = 2
    MaxVisits = 3
    None = None
INVARIANTS TypeOK HitsHonoured
PROPERTY ControlImplemented
