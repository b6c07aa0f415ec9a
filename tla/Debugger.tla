------------------------------ MODULE Debugger ------------------------------
(***************************************************************************)
(* lrdb::debugger: the Lua hook, stepping over call stacks and coroutines, *)
(* and line breakpoints with conditions and hit counts (debugger.hpp).     *)
(*                                                                         *)
(* Lua code is a choice of calls, returns, lines and coroutine switches.   *)
(* Each of the first three runs the hook.  The hook first serves requests  *)
(* (the tick), then decides whether to pause, and serves requests again    *)
(* while paused.  What a condition evaluates to is a choice.  An error in  *)
(* a request or a condition leaves the hook at once and unwinds the stack. *)
(***************************************************************************)
EXTENDS Naturals, Sequences, FiniteSets

CONSTANTS
    Main, Others,   \* the main coroutine, and the others
    Sources,        \* the source files of Lua code
    Lines,          \* line numbers
    BreakFiles,     \* files named in breakpoints
    SamePath,       \* pairs of files and sources that are the same path
    Inside,         \* pairs of names: the first is part of the second, in any case
    HitConditions,  \* hit conditions clients use
    Cmds,           \* the requests clients send
    MaxDepth,       \* bound: the depth of a call stack
    MaxBreakpoints, \* bound: breakpoints set at a time
    MaxVisits,      \* bound: visits of a breakpoint's line
    None

Coroutines == {Main} \cup Others
Requests == {"step", "step_in", "step_out", "continue", "pause",
             "add_breakpoint", "clear_breakpoints", "eval"}
Operators == {"none", "<", "<=", "==", ">=", ">", "%"}

ASSUME DebuggerAssumption ==
    /\ None \notin Coroutines /\ Main \notin Others
    /\ Lines \subseteq Nat
    /\ SamePath \subseteq BreakFiles \X Sources
    /\ Inside \subseteq (BreakFiles \cup Sources) \X (BreakFiles \cup Sources)
    /\ HitConditions \subseteq [op : Operators, n : Nat \ {0}]
    /\ Cmds \subseteq Requests
    /\ MaxDepth \in Nat /\ MaxBreakpoints \in Nat /\ MaxVisits \in Nat

VARIABLES
    depth,   \* the size of the call stack of each coroutine
    chain,   \* the coroutines that have resumed one another; the last one runs
    pc,      \* "run": Lua runs; "tick", "loop": in the hook
    event,   \* the hook's event
    dbg,     \* pause_, step_type_ and step_callstack_size_
    bps,     \* line_breakpoints_
    cur,     \* current_breakpoint_, an index into bps or 0
    origin,  \* where the last step was asked for (history)
    causes   \* why the game is paused, or how the hook was left (history)

luaVars == <<depth, chain>>
vars == <<luaVars, pc, event, dbg, bps, cur, origin, causes>>

Steps == {"STEP_NONE", "STEP_OVER", "STEP_IN", "STEP_OUT", "STEP_PAUSE", "STEP_ENTRY"}
Place == [source : Sources, line : Lines]
Event == [type : {"line", "call", "ret"}, place : Place]

(* visits and stops are history: how often the line was reached since the  *)
(* breakpoint was added, and how often the breakpoint asked for a pause.   *)
Breakpoint == [file : BreakFiles, line : Lines, condition : BOOLEAN,
               hit : HitConditions, hit_count : Nat, visits : Nat, stops : Nat]

running == chain[Len(chain)]
StackSize == depth[running]

-----------------------------------------------------------------------------
Init ==
    /\ depth = [c \in Coroutines |-> 0]
    /\ chain = <<Main>>
    /\ pc = "run"
    /\ event \in Event
    /\ dbg \in [pause : {TRUE}, step : {"STEP_ENTRY"}, size : 0..MaxDepth]  \* size is not initialised
    /\ bps = <<>> /\ cur = 0
    /\ origin = [step |-> "STEP_ENTRY", co |-> None, depth |-> 0]
    /\ causes = {}

-----------------------------------------------------------------------------
(* Lua.                                                                    *)

(* Mutant of EnterHook: the breakpoint of the line before is kept.         *)
EnterHookKeepsBreakpoint(e) ==
    /\ event' = e
    /\ pc' = "tick"
    /\ UNCHANGED <<cur, dbg, bps, origin, causes>>

EnterHook(e) ==
    /\ event' = e
    /\ cur' = 0
    /\ pc' = "tick"
    /\ UNCHANGED <<dbg, bps, origin, causes>>

(* The handler of paths that the game host sets, and the comparison it is  *)
(* an alternative to.                                                      *)
PathHandler(file, source) == <<file, source>> \in Inside \/ <<source, file>> \in Inside
PathMatch(file, source) == <<file, source>> \in SamePath \/ PathHandler(file, source)

At(b, place) == b.line = place.line /\ PathMatch(b.file, place.source)

Call(place) ==
    /\ pc = "run" /\ StackSize < MaxDepth
    /\ depth' = [depth EXCEPT ![running] = @ + 1]
    /\ UNCHANGED chain
    /\ EnterHook([type |-> "call", place |-> place])

(* The hook of a return runs while the frame is still there; Leave below   *)
(* removes it.                                                             *)
Return(place) ==
    /\ pc = "run" /\ StackSize > 0
    /\ UNCHANGED luaVars
    /\ EnterHook([type |-> "ret", place |-> place])

NewLine(place) ==
    /\ pc = "run" /\ StackSize > 0
    /\ \A i \in 1..Len(bps) : At(bps[i], place) => bps[i].visits < MaxVisits
    /\ UNCHANGED luaVars
    /\ EnterHook([type |-> "line", place |-> place])

(* coroutine.resume, of a coroutine that is not active, and the yield that *)
(* gives control back.                                                     *)
ResumeCoroutine(c) ==
    /\ pc = "run" /\ StackSize > 0
    /\ \A i \in 1..Len(chain) : chain[i] # c
    /\ chain' = Append(chain, c)
    /\ UNCHANGED <<depth, pc, event, dbg, bps, cur, origin, causes>>

Yield ==
    /\ pc = "run" /\ Len(chain) > 1 /\ StackSize > 0
    /\ chain' = SubSeq(chain, 1, Len(chain) - 1)
    /\ UNCHANGED <<depth, pc, event, dbg, bps, cur, origin, causes>>

-----------------------------------------------------------------------------
(* Requests, in the tick or while paused.                                  *)

Serving == pc = "tick" \/ (pc = "loop" /\ dbg.pause)

(* Mutant of Step: the stack size of the step before is kept.              *)
StepKeepsSize(type) ==
    /\ dbg' = [dbg EXCEPT !.pause = FALSE, !.step = type]
    /\ origin' = [step |-> type, co |-> running, depth |-> StackSize]
    /\ UNCHANGED <<bps, cur>>

Step(type) ==
    /\ dbg' = [pause |-> FALSE, step |-> type, size |-> StackSize]
    /\ origin' = [step |-> type, co |-> running, depth |-> StackSize]
    /\ UNCHANGED <<bps, cur>>

Unpause ==
    /\ dbg' = [dbg EXCEPT !.pause = FALSE, !.step = "STEP_NONE"]
    /\ UNCHANGED <<origin, bps, cur>>

Pause ==
    /\ dbg' = [dbg EXCEPT !.step = "STEP_PAUSE"]
    /\ UNCHANGED <<origin, bps, cur>>

AddBreakpoint(file, line, condition, hit) ==
    /\ Len(bps) < MaxBreakpoints
    /\ bps' = Append(bps, [file |-> file, line |-> line, condition |-> condition,
                           hit |-> hit, hit_count |-> 0, visits |-> 0, stops |-> 0])
    /\ UNCHANGED <<dbg, origin, cur>>

(* The ways to list the indices in keep in their order: there is just one. *)
InOrder(keep) ==
    {f \in [1..Cardinality(keep) -> keep] :
        /\ \A k \in keep : \E i \in DOMAIN f : f[i] = k
        /\ \A i, j \in DOMAIN f : i < j => f[i] < f[j]}

(* All breakpoints, those of a file, or those of a line of a file, go; the *)
(* others close up (std::remove_if).                                       *)
ClearBreakpoints(files, lines) ==
    /\ LET keep == {i \in 1..Len(bps) : ~(bps[i].file \in files /\ bps[i].line \in lines)}
       IN  \E f \in InOrder(keep) : bps' = [i \in 1..Cardinality(keep) |-> bps[f[i]]]
    /\ UNCHANGED <<dbg, origin, cur>>

Request ==
    /\ Serving
    /\ \/ "step" \in Cmds /\ Step("STEP_OVER")
       \/ "step_in" \in Cmds /\ Step("STEP_IN")
       \/ "step_out" \in Cmds /\ Step("STEP_OUT")
       \/ Unpause                      \* continue, or the client is lost
       \/ {"pause", "eval"} \cap Cmds # {} /\ Pause   \* Lua code evaluated may pause
       \/ /\ "add_breakpoint" \in Cmds
          /\ \E file \in BreakFiles, line \in Lines, condition \in BOOLEAN,
                hit \in HitConditions : AddBreakpoint(file, line, condition, hit)
       \/ /\ "clear_breakpoints" \in Cmds
          /\ \/ ClearBreakpoints(BreakFiles, Lines)
             \/ \E file \in BreakFiles : \/ ClearBreakpoints({file}, Lines)
                                         \/ \E line \in Lines : ClearBreakpoints({file}, {line})
    /\ UNCHANGED <<luaVars, pc, event, causes>>

-----------------------------------------------------------------------------
(* Errors.                                                                 *)

(* Some pcall or coroutine.resume further out takes the error: frames and  *)
(* whole coroutines inside it are gone.                                    *)
Unwind ==
    \E k \in 1..Len(chain) : \E d \in 0..depth[chain[k]] :
        /\ k = Len(chain) => d < StackSize
        /\ k > 1 => d > 0
        /\ chain' = SubSeq(chain, 1, k)
        /\ depth' = [c \in Coroutines |->
                       IF c = chain[k] THEN d
                       ELSE IF \E i \in k + 1..Len(chain) : chain[i] = c THEN 0 ELSE depth[c]]

(* The hook is left there and then, with pause_ as it stands.              *)
LeftByError ==
    /\ pc' = "run" /\ causes' = {"error"}
    /\ Unwind
    /\ UNCHANGED <<event, origin>>

(* A request that needs parameters has none, or Lua code run to convert a  *)
(* value for it raises an error.                                           *)
RequestFails ==
    /\ Serving
    /\ \/ {"add_breakpoint", "clear_breakpoints"} \cap Cmds # {} /\ UNCHANGED dbg
       \/ "eval" \in Cmds /\ dbg' \in {dbg, [dbg EXCEPT !.step = "STEP_PAUSE"]}
    /\ UNCHANGED <<bps, cur>>
    /\ LeftByError

-----------------------------------------------------------------------------
(* The rest of the hook.                                                   *)

(* Mutant of StepStops: an outer frame does not end a step over.           *)
StepStopsSameFrame ==
    \/ dbg.step = "STEP_OVER" /\ dbg.size = StackSize
    \/ dbg.step = "STEP_OUT" /\ dbg.size > StackSize
    \/ dbg.step \in {"STEP_IN", "STEP_PAUSE"}

(* check_code_step_pause().                                                *)
StepStops ==
    \/ dbg.step = "STEP_OVER" /\ dbg.size >= StackSize
    \/ dbg.step = "STEP_OUT" /\ dbg.size > StackSize
    \/ dbg.step \in {"STEP_IN", "STEP_PAUSE"}

(* search_breakpoints(): the first that matches, 0 if none does.           *)
Found(place) ==
    LET hits == {i \in 1..Len(bps) : At(bps[i], place)}
    IN  IF hits = {} THEN 0 ELSE CHOOSE i \in hits : \A j \in hits : i <= j

(* breakpoint_hit_cond(): hit_count put before the hit condition and       *)
(* evaluated; a number is true unless it is 0.                             *)
HitHolds(hit, count) ==
    CASE hit.op = "none" -> TRUE
      [] hit.op = "<"    -> count < hit.n
      [] hit.op = "<="   -> count <= hit.n
      [] hit.op = "=="   -> count = hit.n
      [] hit.op = ">="   -> count >= hit.n
      [] hit.op = ">"    -> count > hit.n
      [] hit.op = "%"    -> count % hit.n # 0

(* Mutant of Count: the hit condition is evaluated before the increment.   *)
CountAfter(b, holds) ==
    [b EXCEPT !.hit_count = IF holds THEN @ + 1 ELSE @,
              !.stops = IF holds /\ HitHolds(b.hit, b.hit_count) THEN @ + 1 ELSE @]

(* hookline(), for the breakpoint found: holds is its condition's value.   *)
Count(b, holds) ==
    [b EXCEPT !.hit_count = IF holds THEN @ + 1 ELSE @,
              !.stops = IF holds /\ HitHolds(b.hit, b.hit_count + 1) THEN @ + 1 ELSE @]

Visited(b, place) == IF At(b, place) THEN [b EXCEPT !.visits = @ + 1] ELSE b

(* The return is done: the frame goes, and a coroutine that has no frame   *)
(* left gives control back.                                                *)
Leave ==
    IF event.type = "ret"
      THEN /\ depth' = [depth EXCEPT ![running] = @ - 1]
           /\ chain' = IF StackSize = 1 /\ Len(chain) > 1
                         THEN SubSeq(chain, 1, Len(chain) - 1) ELSE chain
      ELSE UNCHANGED luaVars

LinePart(holds, byBreakpoint) ==
    IF event.type = "line"
      THEN LET i == Found(event.place)
               now == [j \in 1..Len(bps) |->
                         LET b == Visited(bps[j], event.place)
                         IN  IF j = i THEN Count(b, holds) ELSE b]
           IN  /\ i # 0 /\ ~bps[i].condition => holds
               /\ bps' = now /\ cur' = i
               /\ byBreakpoint = (i # 0 /\ now[i].stops > bps[i].stops)
      ELSE byBreakpoint = FALSE /\ UNCHANGED <<bps, cur>>

(* hook() after the tick.                                                  *)
AfterTick ==
    /\ pc = "tick"
    /\ \E holds, byBreakpoint \in BOOLEAN :
         LET byStep == ~dbg.pause /\ event.type = "line" /\ StepStops
         IN  /\ LinePart(holds, byBreakpoint)
             /\ IF dbg.pause \/ byStep \/ byBreakpoint
                  THEN /\ dbg' = [dbg EXCEPT !.pause = TRUE, !.size = 0]
                       /\ pc' = "loop"
                       /\ causes' = {c \in {"standing"} : dbg.pause} \cup {c \in {"step"} : byStep}
                                      \cup {c \in {"breakpoint"} : byBreakpoint}
                       /\ UNCHANGED luaVars
                  ELSE pc' = "run" /\ causes' = {} /\ UNCHANGED dbg /\ Leave
    /\ UNCHANGED <<event, origin>>

(* The condition of the breakpoint found raises an error when its result   *)
(* is converted: the step has been checked, the hit is not counted.        *)
ConditionFails ==
    /\ pc = "tick" /\ event.type = "line"
    /\ Found(event.place) # 0 /\ bps[Found(event.place)].condition
    /\ cur' = Found(event.place)
    /\ bps' = [j \in 1..Len(bps) |-> Visited(bps[j], event.place)]
    /\ dbg' = [dbg EXCEPT !.pause = @ \/ StepStops]
    /\ LeftByError

(* Mutant of AfterPause: the wait is left with the first request served.   *)
AfterPauseAtOnce ==
    /\ pc = "loop"
    /\ pc' = "run" /\ causes' = {}
    /\ dbg' = [dbg EXCEPT !.pause = FALSE]
    /\ Leave
    /\ UNCHANGED <<event, bps, cur, origin>>

(* The pause handler returns: the end of hook().                           *)
AfterPause ==
    /\ pc = "loop" /\ ~dbg.pause
    /\ pc' = "run" /\ causes' = {}
    /\ Leave
    /\ UNCHANGED <<event, dbg, bps, cur, origin>>

Lua ==
    \/ \E place \in Place : Call(place) \/ Return(place) \/ NewLine(place)
    \/ Yield
    \/ \E c \in Coroutines : ResumeCoroutine(c)

Next == Lua \/ Request \/ AfterTick \/ AfterPause \/ RequestFails \/ ConditionFails
Spec == Init /\ [][Next]_vars

-----------------------------------------------------------------------------
(* Properties.                                                             *)

(* Every part of the state has its type, and the hook runs in a frame.     *)
(* current_breakpoint_ points at nothing while the requests of the tick    *)
(* may free what it pointed at; pause_reason() looks at it after them.     *)
TypeOK ==
    /\ depth \in [Coroutines -> 0..MaxDepth]
    /\ chain \in Seq(Coroutines) /\ chain # <<>>
    /\ pc \in {"run", "tick", "loop"}
    /\ pc # "run" => StackSize > 0
    /\ event \in Event
    /\ dbg \in [pause : BOOLEAN, step : Steps, size : 0..MaxDepth]
    /\ bps \in Seq(Breakpoint)
    /\ cur \in Nat
    /\ pc = "tick" => cur = 0
    /\ origin \in [step : Steps, co : Coroutines \cup {None}, depth : 0..MaxDepth]
    /\ causes \subseteq {"standing", "step", "breakpoint", "error"}

(* While pause_ is not set, a step over or out in progress is measured     *)
(* from where it was asked for: no pause, lost client, error or other step *)
(* in between leaves a stack size of another step behind.                  *)
StepBase ==
    ~dbg.pause /\ dbg.step \in {"STEP_OVER", "STEP_OUT"} =>
        /\ origin.step = dbg.step
        /\ dbg.size = origin.depth /\ dbg.size > 0

(* A step ends where it should, as far as its own coroutine goes.  A step  *)
(* over runs past no line of its frame or an outer one and stops at none   *)
(* of an inner one; a step out runs past no line of an outer frame and     *)
(* stops at no other; step in and pause stop at the next line anywhere.    *)
(* A line whose hook an error left is not run past, it ends the function.  *)
StepExact ==
    [][pc = "tick" /\ event.type = "line" /\ pc' # pc =>
         LET back == running = origin.co
         IN  /\ pc' = "run" /\ causes' = {} =>
                  /\ dbg.step \notin {"STEP_IN", "STEP_PAUSE"}
                  /\ back /\ dbg.step = "STEP_OVER" => StackSize > origin.depth
                  /\ back /\ dbg.step = "STEP_OUT" => StackSize >= origin.depth
             /\ causes' = {"step"} =>
                  /\ back /\ dbg.step = "STEP_OVER" => StackSize <= origin.depth
                  /\ back /\ dbg.step = "STEP_OUT" => StackSize < origin.depth]_vars

(* What a hit condition promises of k hits (add_breakpoint's comment):     *)
(* "break always after 5 hits", "break on the first 4 hits only".          *)
Promised(hit, k) ==
    CASE hit.op = "none" -> k
      [] hit.op = ">"    -> IF k > hit.n THEN k - hit.n ELSE 0
      [] hit.op = ">="   -> IF k >= hit.n THEN k + 1 - hit.n ELSE 0
      [] hit.op = "<"    -> IF k < hit.n THEN k ELSE hit.n - 1
      [] hit.op = "<="   -> IF k <= hit.n THEN k ELSE hit.n
      [] hit.op = "=="   -> IF k >= hit.n THEN 1 ELSE 0
      [] hit.op = "%"    -> k - k \div hit.n

(* Each breakpoint asks for as many pauses as its hit condition promises   *)
(* of its hits, and hits are visits, over any adding and clearing of       *)
(* others and any steps in between.                                        *)
HitsHonoured ==
    \A i \in 1..Len(bps) :
        /\ bps[i].stops = Promised(bps[i].hit, bps[i].hit_count)
        /\ bps[i].hit_count <= bps[i].visits

(* The promise of HookControl: whatever call stacks, coroutines, steps and *)
(* hit conditions do, the game stops only for a reason, does not run past  *)
(* a line it is to stop at, and goes on only when it was let go, or when   *)
(* an error breaks the hook off: then what stood stands for the next hook. *)
Control == INSTANCE HookControl
             WITH phase <- pc, line <- event.type = "line", pause <- dbg.pause,
                  step <- dbg.step, armed <- bps # <<>>
ControlImplemented == Control!ControlSpec
=============================================================================
