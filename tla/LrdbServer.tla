----------------------------- MODULE LrdbServer -----------------------------
(***************************************************************************)
(* The debug server inside the game: lrdb::basic_server on top of the TCP  *)
(* stream, the pause and step state of lrdb::debugger, and the hooks of    *)
(* main.cpp that attach the server to the Lua states of the game.          *)
(*                                                                         *)
(* There is one thread, the game's.  It runs Lua; the Lua hook polls the   *)
(* stream, decides whether to pause and, while paused, serves requests.    *)
(* Clients and kernel act at any time.  Which line has a breakpoint and    *)
(* how deep the call stack is are choices here.                            *)
(***************************************************************************)
EXTENDS SocketStream

CONSTANTS
    LuaStates,   \* addresses of main Lua states, used again after a close
    Wait         \* --wait-for-lua-debugger

Requests == {"step", "step_in", "step_out", "continue", "pause",
             "add_breakpoint", "clear_breakpoints", "eval", "get"}

ASSUME ServerAssumption ==
    /\ None \notin LuaStates
    /\ Wait \in BOOLEAN
    /\ Cmds \subseteq Requests
    /\ Failing \subseteq {"add_breakpoint", "clear_breakpoints", "eval", "get"}

VARIABLES
    dbg,       \* pause_ and step_type_ of the debugger
    armed,     \* some breakpoint is set
    wait,      \* wait_for_connect_
    state_,    \* the attached Lua state, None if there is none
    hooked,    \* the Lua states with the debugger's hook
    alive,     \* the Lua states of the game
    pc,        \* where the game thread is
    event,     \* the kind of hook event being handled
    view,      \* what the connected client was last told (history)
    reason,    \* the reason sent with the last "paused" (history)
    debuggee   \* what the attached Lua state has met with (history)

luaVars == <<state_, hooked, alive>>
history == <<view, reason, debuggee>>
serverVars == <<dbg, armed, wait, luaVars, pc, event, history>>
vars == <<streamVars, serverVars>>

Steps == {"STEP_NONE", "STEP_OVER", "STEP_IN", "STEP_OUT", "STEP_PAUSE", "STEP_ENTRY"}

-----------------------------------------------------------------------------
(* The debugger's operations on pause_ and step_type_.                     *)

(* Mutant of Unpause: pause_ is forgotten.                                 *)
UnpauseHalf(d) == [d EXCEPT !.step = "STEP_NONE"]

Unpause(d) == [pause |-> FALSE, step |-> "STEP_NONE"]
Pause(d) == [d EXCEPT !.step = "STEP_PAUSE"]
StepBy(d, type) == [pause |-> FALSE, step |-> type]

(* execute_request(): what a request leaves in the debugger.  Lua code run *)
(* for it, the chunk or a metamethod, may call __lrdb_pause.               *)
Execute(d, cmd) ==
    CASE cmd = "step"     -> {StepBy(d, "STEP_OVER")}
      [] cmd = "step_in"  -> {StepBy(d, "STEP_IN")}
      [] cmd = "step_out" -> {StepBy(d, "STEP_OUT")}
      [] cmd = "continue" -> {Unpause(d)}
      [] cmd = "pause"    -> {Pause(d)}
      [] cmd \in {"eval", "get"} -> {d, Pause(d)}
      [] OTHER            -> {d}

Breakpoints(cmd) ==
    CASE cmd = "add_breakpoint"    -> {TRUE}
      [] cmd = "clear_breakpoints" -> {FALSE, armed}   \* all, or those of a file
      [] OTHER                     -> {armed}

(* Mutant of OnClose: the callback is missing.                             *)
OnCloseMissing(d, closed) == d

(* on_close, called by close() before anything else happens.               *)
OnClose(d, closed) == IF closed THEN Unpause(d) ELSE d

(* check_code_step_pause(): far tells whether the stack is too deep (step  *)
(* over), or not yet shallow enough (step out), to stop at this line.      *)
StepStops(step, far) ==
    \/ step \in {"STEP_IN", "STEP_PAUSE"}
    \/ step \in {"STEP_OVER", "STEP_OUT"} /\ ~far

(* pause_reason().                                                         *)
Reason(step, atBreakpoint) ==
    IF atBreakpoint THEN "breakpoint"
    ELSE CASE step = "STEP_OVER"  -> "step"
           [] step = "STEP_IN"    -> "step_in"
           [] step = "STEP_OUT"   -> "step_out"
           [] step = "STEP_PAUSE" -> "pause"
           [] step = "STEP_ENTRY" -> "entry"
           [] OTHER               -> "exception"

-----------------------------------------------------------------------------
Init ==
    /\ StreamInit
    /\ dbg = [pause |-> TRUE, step |-> "STEP_ENTRY"]
    /\ armed = FALSE
    /\ wait = Wait
    /\ state_ = None /\ hooked = {} /\ alive = {}
    /\ pc = "game" /\ event = "call"
    /\ view = "none" /\ reason = "none" /\ debuggee = "none"

View(closed, told) == IF closed THEN "none" ELSE told

(* The bound on operations outstanding, checked when Lua is about to do    *)
(* something that may add to them.                                         *)
Within == Ops(stream) < MaxOps

(* Mutants of Detach: no unpause; the socket replaced, its reads not ended. *)
DetachStepping ==
    /\ HostExit
    /\ dbg' = [dbg EXCEPT !.pause = FALSE]
    /\ view' = "none"
DetachDropsSocket ==
    /\ stream' = [stream EXCEPT !.conn = None]
    /\ UNCHANGED <<netVars, past>>
    /\ dbg' = Unpause(dbg)
    /\ view' = "none"

(* debugger_.reset(0) and exit(), of the Lua state that is attached.       *)
Detach ==
    /\ HostExit
    /\ dbg' = Unpause(dbg)
    /\ view' = "none"

(* sethook() and unsethook(): the hook, and the debugger in the registry.  *)
SetHook(states, L) == IF L = None THEN states ELSE states \cup {L}

(* Mutant of UnsetHook: the state attached before keeps its hook.          *)
UnsetHookNot(states) == states

UnsetHook(states) == states \ {state_}

(* reset() of the debugger.                                                *)
Reset(L) ==
    /\ state_' = L
    /\ hooked' = IF L = state_ THEN hooked ELSE SetHook(UnsetHook(hooked), L)

(* The game has built a main Lua state with its libraries.                 *)
NewState(L) ==
    /\ pc = "game" /\ Within
    /\ L \notin alive
    /\ alive' = alive \cup {L}
    /\ IF state_ # None THEN Detach ELSE UNCHANGED <<streamVars, dbg, view>>
    /\ debuggee' = "new"
    /\ Reset(L)
    /\ UNCHANGED <<armed, wait, pc, event, reason>>

(* The game closes a Lua state; the debugger lets go of it first.          *)
CloseState(L) ==
    /\ pc = "game" /\ Within
    /\ L \in alive
    /\ IF L = state_
         THEN Detach /\ Reset(None)
         ELSE UNCHANGED <<streamVars, dbg, view, state_, hooked>>
    /\ alive' = alive \ {L}
    /\ UNCHANGED <<armed, wait, pc, event, reason, debuggee>>

(* Lua code, of any state the server was ever set up in, calls the global  *)
(* function __lrdb_pause.                                                  *)
LuaPause(L) ==
    /\ pc = "game"
    /\ L \in alive
    /\ dbg' = Pause(dbg)
    /\ UNCHANGED <<streamVars, armed, wait, luaVars, pc, event, history>>

(* Mutant of HookEnter: wait_for_connect_ is not looked at.                *)
HookEnterAtOnce(ev) ==
    /\ pc = "game" /\ Within
    /\ hooked # {}
    /\ event' = ev
    /\ pc' = "poll"
    /\ UNCHANGED <<streamVars, dbg, armed, wait, luaVars, history>>

(* Lua calls the hook: a new line, or a call or return.                    *)
HookEnter(ev) ==
    /\ pc = "game" /\ Within
    /\ hooked # {}
    /\ event' = ev
    /\ pc' = IF wait THEN "wait" ELSE "poll"
    /\ UNCHANGED <<streamVars, dbg, armed, wait, luaVars, history>>

(* wait_for_connection() returns once the socket is open.                  *)
WaitDone ==
    /\ pc = "wait" /\ stream.conn # None
    /\ pc' = "poll"
    /\ UNCHANGED <<streamVars, dbg, armed, wait, luaVars, event, history>>

Waiting == pc = "wait" /\ stream.conn = None
Paused == pc = "loop" /\ dbg.pause /\ stream.conn # None

(* The attached Lua state has got past a hook.                             *)
Passed == IF debuggee = "new" THEN "alone" ELSE debuggee

(* One handler, run by wait_for_connection, poll or the pause handler.  An *)
(* error leaves them all and the hook: no "running", pause_ as it stands.  *)
Dispatch ==
    /\ pc = "poll" \/ Waiting \/ Paused
    /\ \E o \in DispatchOutcomes(stream) :
         /\ stream' = o.s /\ Hears(o)
         /\ IF o.req = None
              THEN dbg' = OnClose(dbg, o.closed) /\ armed' = armed
              ELSE /\ armed' \in IF o.threw THEN {armed} ELSE Breakpoints(o.req.cmd)
                   /\ \E d \in Execute(dbg, o.req.cmd) : dbg' = OnClose(d, o.closed)
         /\ pc' = IF o.threw THEN "game" ELSE pc
         /\ wait' = (wait /\ ~o.opened)
         /\ view' = View(o.closed, IF o.opened THEN "connected" ELSE view)
         /\ debuggee' = IF o.threw THEN Passed
                        ELSE IF o.opened /\ debuggee = "new" THEN "met" ELSE debuggee
    /\ UNCHANGED <<netVars, luaVars, event, reason>>

(* The poll has found nothing more: the rest of hook(), up to the "paused" *)
(* notification if the game is to pause.  found: some breakpoint is on     *)
(* this line; holds: its condition and hit count say stop.                 *)
AfterPoll(far, found, holds) ==
    LET line == event = "line"
        pause == \/ dbg.pause
                 \/ line /\ StepStops(dbg.step, far)
                 \/ line /\ found /\ holds
    IN  /\ pc = "poll" /\ DispatchOutcomes(stream) = {}
        /\ found => armed
        /\ IF pause
             THEN /\ \E o \in SendOutcomes(stream) :
                       /\ stream' = o.s /\ Hears(o)
                       /\ dbg' = OnClose([dbg EXCEPT !.pause = TRUE], o.closed)
                       /\ view' = View(o.closed, "paused")
                  /\ reason' = Reason(dbg.step, line /\ found)
                  /\ pc' = "loop"
             ELSE pc' = "game" /\ UNCHANGED <<stream, past, dbg, view, reason>>
        /\ debuggee' = Passed
        /\ UNCHANGED <<netVars, armed, wait, luaVars, event>>

(* The condition of a breakpoint on this line raises an error, when its    *)
(* result is converted: the hook is left after the check of the step.      *)
ConditionFails(far) ==
    /\ pc = "poll" /\ DispatchOutcomes(stream) = {}
    /\ event = "line" /\ armed
    /\ dbg' = [dbg EXCEPT !.pause = @ \/ StepStops(dbg.step, far)]
    /\ pc' = "game"
    /\ debuggee' = Passed
    /\ UNCHANGED <<streamVars, armed, wait, luaVars, event, view, reason>>

(* Mutant of Resume: no "running" notification.                            *)
ResumeSilently ==
    /\ pc = "loop" /\ ~Paused
    /\ dbg' = [dbg EXCEPT !.pause = @ /\ dbg.step # "STEP_NONE"]
    /\ pc' = "game"
    /\ UNCHANGED <<streamVars, armed, wait, luaVars, event, history>>

(* The pause loop ends: the "running" notification and the end of hook().  *)
Resume ==
    /\ pc = "loop" /\ ~Paused
    /\ \E o \in SendOutcomes(stream) :
         LET d == OnClose(dbg, o.closed)
         IN  /\ stream' = o.s /\ Hears(o)
             /\ dbg' = [d EXCEPT !.pause = @ /\ d.step # "STEP_NONE"]
             /\ view' = View(o.closed, "running")
    /\ pc' = "game"
    /\ UNCHANGED <<netVars, armed, wait, luaVars, event, reason, debuggee>>

Hook ==
    \/ WaitDone \/ Dispatch \/ Resume
    \/ \E far, found, holds \in BOOLEAN : AfterPoll(far, found, holds)
    \/ \E far \in BOOLEAN : ConditionFails(far)

Lua ==
    \/ \E L \in LuaStates : NewState(L) \/ CloseState(L) \/ LuaPause(L)
    \/ \E ev \in {"line", "call"} : HookEnter(ev)

Env == (Peers \/ Kernel) /\ UNCHANGED serverVars

Next == Lua \/ Hook \/ Env

(* The game thread does not stop inside the hook, and the kernel completes *)
(* what it can.  Nothing is assumed of the clients or of the Lua code.     *)
Fairness == WF_vars(Hook) /\ WF_vars(Kernel /\ UNCHANGED serverVars)

Spec == Init /\ [][Next]_vars /\ Fairness

-----------------------------------------------------------------------------
(* Properties.                                                             *)

(* Every part of the state has its type.                                   *)
TypeOK ==
    /\ StreamTypeOK
    /\ dbg \in [pause : BOOLEAN, step : Steps]
    /\ armed \in BOOLEAN /\ wait \in BOOLEAN
    /\ state_ \in LuaStates \cup {None}
    /\ hooked \subseteq LuaStates /\ alive \subseteq LuaStates
    /\ pc \in {"game", "wait", "poll", "loop"}
    /\ event \in {"line", "call"}
    /\ view \in {"none", "connected", "paused", "running"}
    /\ reason \in {"none", "breakpoint", "step", "step_in", "step_out",
                  "pause", "entry", "exception"}
    /\ debuggee \in {"none", "new", "met", "alone"}

(* What the connected client was told is what the game does: it has been   *)
(* told "paused" exactly while the game is in the pause loop, whichever    *)
(* send failed and whoever connected in between.  Only a client that is    *)
(* not heard any more, since an error left a handler, may still believe in *)
(* a pause; the next pause is told to it as well.                          *)
ViewInSync ==
    /\ stream.conn # None /\ ~deaf => (view = "paused") = (pc = "loop")
    /\ stream.conn # None /\ pc = "loop" => view = "paused"
    /\ (stream.conn = None) = (view = "none")

(* The game is never held by a pause nobody can have asked to end: while   *)
(* pause_ is set in the pause loop there is a client, and without a client *)
(* it is set only before the first pause at the entry or by __lrdb_pause.  *)
(* Outside the loop pause_ stands with nothing left to explain it only     *)
(* when an error has left the pause handler.                               *)
PauseHasClient ==
    /\ pc = "loop" /\ dbg.pause => stream.conn # None
    /\ dbg.pause /\ stream.conn = None => dbg.step \in {"STEP_ENTRY", "STEP_PAUSE"}
    /\ dbg.pause /\ pc # "loop" => dbg.step # "STEP_NONE" \/ deaf

(* The hook is in the attached Lua state and nowhere else, and that state  *)
(* has not been closed, over any order of level loads.                     *)
HookWhereAttached ==
    /\ hooked = {state_} \ {None}
    /\ hooked \subseteq alive

(* A step or pause in progress does not leak into the next Lua state, over *)
(* a gap without one or at once: until the next state meets its first hook *)
(* only __lrdb_pause can have set step_type_ again.  The first state of    *)
(* all is to pause at its entry.                                           *)
NothingLeaks ==
    state_ = None \/ (debuggee = "new" /\ pc = "game") =>
        \/ dbg = Unpause(dbg)
        \/ dbg.step = "STEP_PAUSE"
        \/ dbg.step = "STEP_ENTRY" /\ view = "none" /\ reason = "none"

(* pause_reason() falls through to "exception" only where an error has     *)
(* left the pause handler and pause_ still stands: any other pause without *)
(* a breakpoint is one that step_type_ still explains when it is reported, *)
(* though requests and lost clients reset it at any time.                  *)
NoExceptionReason ==
    pc = "loop" /\ stream.conn # None /\ reason = "exception" => deaf

(* With --wait-for-lua-debugger no Lua line gets past its hook before the  *)
(* first debugger of the game's run has connected, over level loads too.   *)
FirstDebuggerAwaited == wait => debuggee # "alone"

(* A client that is gone does not hold the game: the pause loop sees the   *)
(* end of its connection behind all it had still asked for, unless an      *)
(* error had ended the reading of its session before this pause.           *)
GoneClientLetsGo ==
    \A c \in Clients :
        (pc = "loop" /\ stream.conn = c /\ c \in gone /\ ~deaf) ~> (pc = "game")

(* The socket part of the server behaves as its own specification allows.  *)
StreamImplemented == StreamSafety

(* The promise of DebugSession, without and with its fairness: one session *)
(* at a time, held only by its client, never handed over, over level loads *)
(* and leftover operations; and a client that is gone is let go, as long   *)
(* as it is heard.                                                         *)
Session == INSTANCE DebugSession
             WITH session <- stream.conn, held <- (pc = "loop" /\ dbg.pause), left <- gone,
                  unheard <- (deaf /\ stream.conn # None)
SessionKept == Session!SessionSafety
SessionImplemented == Session!SessionSpec

(* The promise of HookControl, by the server's own account of the hook:    *)
(* clients that come and go, failing sends, errors and level loads neither *)
(* stop the game without a reason nor let it go unasked.                   *)
Phase == IF pc = "game" THEN "run" ELSE IF pc = "loop" THEN "loop" ELSE "tick"
Control == INSTANCE HookControl
             WITH phase <- Phase, line <- event = "line", pause <- dbg.pause, step <- dbg.step
ControlImplemented == Control!ControlSpec
=============================================================================
