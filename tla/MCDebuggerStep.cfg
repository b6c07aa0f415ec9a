SPECIFICATION Spec
CONSTANTS
    Main = main
    Others = {co}
    Sources = {s}
    Lines = {1}
    BreakFiles = {f}
    SamePath <- Nowhere
    Inside <- Parts
    HitConditions <- Unconditional
    Cmds = {"step", "step_in", "step_out", "continue", "pause", "eval"}
    MaxDepth = 3
    MaxBreakpoints = 0
    MaxVisits = 0
    None = None
INVARIANTS StepBase
PROPERTIES StepExact
