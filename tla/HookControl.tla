---------------------------- MODULE HookControl -----------------------------
(***************************************************************************)
(* What the hook promises to those who ask it to stop the game, without    *)
(* call stacks, breakpoints, sockets or Lua states: the game stops only    *)
(* for a reason, never runs past a line it was told to stop at, and a stop *)
(* is ended only by a request or the loss of the client.  An error in Lua  *)
(* code or a request may break the hook off at any time; then nothing that *)
(* was asked for is forgotten, and a game that was to wait is stopped by   *)
(* its next hook.                                                          *)
(***************************************************************************)
VARIABLES
    phase,   \* "run": Lua runs; "tick", "loop": in the hook, "loop" after its decision
    line,    \* the hook has been called for a line
    pause,   \* the game is to wait
    step,    \* what was asked for last
    armed    \* there are breakpoints

controlVars == <<phase, line, pause, step, armed>>

NextLine == {"STEP_IN", "STEP_PAUSE"}   \* to stop at the next line
SomeLine == {"STEP_OVER", "STEP_OUT"}   \* to stop at a line of some frame
LineSteps == NextLine \cup SomeLine

(* The first hook of all stops the game.                                   *)
ControlInit ==
    /\ phase = "run" /\ line \in BOOLEAN
    /\ pause = TRUE /\ step = "STEP_ENTRY"
    /\ armed = FALSE

Enter ==
    /\ phase = "run" /\ phase' = "tick"
    /\ line' \in BOOLEAN
    /\ UNCHANGED <<pause, step, armed>>

LetGo == pause' = FALSE /\ step' = "STEP_NONE"

(* Requests are served in the tick and while the game waits.               *)
Ask ==
    /\ phase = "tick" \/ (phase = "loop" /\ pause)
    /\ \/ LetGo
       \/ pause' = FALSE /\ step' \in LineSteps \ {"STEP_PAUSE"}
       \/ UNCHANGED pause /\ step' \in {step, "STEP_PAUSE"}
    /\ armed' \in BOOLEAN
    /\ UNCHANGED <<phase, line>>

(* Lua code of a running game asks for a pause, or its state is let go.    *)
AskRunning ==
    /\ phase = "run"
    /\ LetGo \/ (UNCHANGED pause /\ step' = "STEP_PAUSE")
    /\ UNCHANGED <<phase, line, armed>>

(* The client may be lost when it is told.                                 *)
Stop ==
    /\ phase = "tick" /\ phase' = "loop"
    /\ pause \/ (line /\ (step \in LineSteps \/ armed))
    /\ LetGo \/ (pause' = TRUE /\ UNCHANGED step)
    /\ UNCHANGED <<line, armed>>

Pass ==
    /\ phase = "tick" /\ phase' = "run"
    /\ ~pause /\ ~(line /\ step \in NextLine)
    /\ UNCHANGED <<line, pause, step, armed>>

Resume ==
    /\ phase = "loop" /\ ~pause /\ phase' = "run"
    /\ LetGo \/ UNCHANGED <<pause, step>>
    /\ UNCHANGED <<line, armed>>

(* The step may have been found to stop here before the error came.        *)
Break ==
    /\ phase = "tick" \/ (phase = "loop" /\ pause)
    /\ phase' = "run"
    /\ \/ UNCHANGED pause /\ step' \in {step, "STEP_PAUSE"}
       \/ /\ phase = "tick" /\ line /\ armed /\ step \in LineSteps
          /\ pause' = TRUE /\ UNCHANGED step
    /\ UNCHANGED <<line, armed>>

ControlNext == Enter \/ Ask \/ AskRunning \/ Stop \/ Pass \/ Resume \/ Break
ControlSpec == ControlInit /\ [][ControlNext]_controlVars
=============================================================================
