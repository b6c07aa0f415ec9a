-------------------------- MODULE LrdbServer_proofs --------------------------
(***************************************************************************)
(* Theorems about LrdbServer, for any clients, requests and Lua states.    *)
(*                                                                         *)
(* Every step of the server is a step of the stream, so the stream's       *)
(* theorems hold of the server.  The server's own invariants hold together *)
(* (ServerInv): what a client was told, who may be holding the game and    *)
(* where the hook is are each needed to keep the others.  From ServerInv   *)
(* each step is one of DebugSession or a stutter (SessionMove).            *)
(***************************************************************************)
EXTENDS LrdbServer, SocketStream_proofs

-----------------------------------------------------------------------------
(* The server implements the stream.                                       *)

LEMMA ServerStepIsStreamStep == ASSUME [Next]_vars PROVE [StreamStep]_streamVars
<1>1. CASE Lua
  <2>1. ASSUME NEW L \in LuaStates, NewState(L) PROVE [StreamStep]_streamVars
    BY <2>1 DEF NewState, Detach, StreamStep, Host
  <2>2. ASSUME NEW L \in LuaStates, CloseState(L) PROVE [StreamStep]_streamVars
    BY <2>2 DEF CloseState, Detach, StreamStep, Host
  <2>3. ASSUME NEW L \in LuaStates, LuaPause(L) PROVE [StreamStep]_streamVars
    BY <2>3 DEF LuaPause
  <2>4. ASSUME NEW ev, HookEnter(ev) PROVE [StreamStep]_streamVars
    BY <2>4 DEF HookEnter
  <2>5. QED
    BY <1>1, <2>1, <2>2, <2>3, <2>4 DEF Lua
<1>2. CASE WaitDone
  BY <1>2 DEF WaitDone
<1>3. CASE Dispatch
  <2>1. RunOne
    BY <1>3 DEF Dispatch, RunOne
  <2>2. QED
    BY <2>1 DEF StreamStep
<1>4. CASE Resume
  <2>1. HostSend
    BY <1>4 DEF Resume, HostSend
  <2>2. QED
    BY <2>1 DEF StreamStep, Host
<1>5. ASSUME NEW far, NEW found, NEW holds, AfterPoll(far, found, holds)
      PROVE  [StreamStep]_streamVars
  <2>1. HostSend \/ UNCHANGED streamVars
    BY <1>5 DEF AfterPoll, HostSend, streamVars, netVars
  <2>2. QED
    BY <2>1 DEF StreamStep, Host
<1>6. ASSUME NEW far, ConditionFails(far) PROVE [StreamStep]_streamVars
  BY <1>6 DEF ConditionFails
<1>7. CASE Env
  BY <1>7 DEF Env, StreamStep
<1>8. CASE UNCHANGED vars
  BY <1>8 DEF vars
<1>9. QED
  BY <1>1, <1>2, <1>3, <1>4, <1>5, <1>6, <1>7, <1>8 DEF Next, Hook

(* The server uses the stream only in the ways the stream allows.          *)
THEOREM ServerImplementsStream == Spec => StreamImplemented
<1>1. Init => StreamInit
  BY DEF Init
<1>2. [Next]_vars => [StreamStep]_streamVars
  BY ServerStepIsStreamStep
<1>3. QED
  BY <1>1, <1>2, PTL DEF Spec, StreamImplemented, StreamSafety

(* So a debugger can always come back, whatever the game does, until an    *)
(* error leaves a handler.                                                 *)
THEOREM ServerWorkRemains == Spec => []WorkRemains
BY ServerImplementsStream, WorkAlwaysRemains, PTL DEF StreamImplemented

-----------------------------------------------------------------------------
(* What an outcome tells of the connection.                                *)

(* Closing leaves the chunks received from the client.                     *)
LEMMA CloseKeepsChunks ==
    ASSUME NEW s \in StreamType
    PROVE  Close(s).recvd = s.recvd /\ Reconnect(s).recvd = s.recvd
<1>1. Close(s) \in StreamType /\ Close(s).recvd = s.recvd
  BY ReconnectWorks DEF Close, StreamType
<1>2. AsyncAccept(Close(s)).recvd = Close(s).recvd
  BY <1>1 DEF AsyncAccept, StreamType
<1>3. QED
  BY <1>1, <1>2 DEF Reconnect

LEMMA SendConnection ==
    ASSUME NEW s \in StreamType, NEW o \in SendOutcomes(s)
    PROVE  /\ o.closed \in BOOLEAN /\ o.opened = FALSE /\ o.threw = FALSE
           /\ o.closed => o.s.conn = None
           /\ ~o.closed => o.s = s /\ s.conn # None
           /\ o.s.recvd = s.recvd
<1>1. \/ o = Sent(s) /\ s.conn # None
      \/ o = Lost(s)
  BY DEF SendOutcomes
<1>2. Sent(s).s = s /\ Sent(s).closed = FALSE
  BY DEF Sent
<1>3. Lost(s).s = Reconnect(s) /\ Lost(s).closed = TRUE
  BY DEF Lost, Sent
<1>4. o.opened = FALSE /\ o.threw = FALSE
  BY SendWorks DEF OutcomeType
<1>5. QED
  BY <1>1, <1>2, <1>3, <1>4, ReconnectWorks, CloseKeepsChunks

LEMMA StartReceiveConnection ==
    ASSUME NEW s \in StreamType
    PROVE  StartReceive(s).conn = s.conn /\ ReadSome(s).conn = s.conn
BY DEF StreamType, StartReceive, ReadSome

(* A session is opened only on a closed socket and then greeted, is closed *)
(* when a call fails, and changes in no other way.  Only bytes received    *)
(* lead to an error, and that leaves the connection as it is.              *)
ConnectionOf(s, o) ==
    /\ o.closed => o.s.conn = None
    /\ o.opened => s.conn = None /\ o.req = None /\ ~o.threw
    /\ o.opened /\ ~o.closed => o.s.conn # None
    /\ ~o.opened /\ ~o.closed => o.s.conn = s.conn
    /\ o.req # None => o.closed \/ o.threw \/ s.conn # None
    /\ o.threw => s.recvd # <<>> /\ ~o.closed /\ o.req # None /\ o.req.cmd \in Failing
    /\ s.recvd = <<>> /\ ~o.opened => o.s.recvd = <<>>

LEMMA ExecuteConnection ==
    ASSUME NEW s \in StreamType, NEW b \in Bytes, NEW q \in ExecuteOutcomes(s, Line(b))
    PROVE  /\ q \in OutcomeType /\ q.opened = FALSE
           /\ q.closed => q.s.conn = None
           /\ ~q.closed => q.s = s
           /\ q.req # None => q.closed \/ q.threw \/ s.conn # None
           /\ q.threw => ~q.closed /\ q.req # None /\ q.req.cmd \in Failing
<1>1. q \in OutcomeType
  BY ExecuteFacts
<1>2. PICK r \in Parsed(Line(b)) : q \in IF r = None THEN {Sent(s)} ELSE RequestOutcomes(s, r)
  BY DEF ExecuteOutcomes
<1>3. CASE r = None
  BY <1>1, <1>2, <1>3, SentLostWorks
<1>4. CASE r # None
  <2>1. r \in Request /\ r # None
    BY <1>4, LineType
  <2>2. \/ \E o \in SendOutcomes(s) : q = [o EXCEPT !.req = r]
        \/ q = [Sent(s) EXCEPT !.req = r, !.threw = TRUE] /\ r.cmd \in Failing
    BY <1>2, <1>4 DEF RequestOutcomes
  <2>3. CASE \E o \in SendOutcomes(s) : q = [o EXCEPT !.req = r]
    <3>1. PICK o \in SendOutcomes(s) : q = [o EXCEPT !.req = r]
      BY <2>3
    <3>2. o \in OutcomeType
      BY SendWorks
    <3>3. /\ q.s = o.s /\ q.req = r /\ q.closed = o.closed
          /\ q.opened = o.opened /\ q.threw = o.threw
      BY <3>1, <3>2 DEF OutcomeType
    <3>4. QED
      BY <1>1, <3>3, SendConnection
  <2>4. CASE q = [Sent(s) EXCEPT !.req = r, !.threw = TRUE] /\ r.cmd \in Failing
    <3>1. Sent(s) \in OutcomeType /\ Sent(s).s = s /\ ~Sent(s).closed /\ Sent(s).opened = FALSE
      BY SentLostWorks
    <3>2. q.s = s /\ q.req = r /\ ~q.closed /\ q.opened = FALSE
      BY <2>4, <3>1 DEF OutcomeType
    <3>3. QED
      BY <1>1, <2>1, <2>4, <3>2
  <2>5. QED
    BY <2>2, <2>3, <2>4
<1>5. QED
  BY <1>3, <1>4

LEMMA DispatchConnection ==
    ASSUME NEW s \in StreamType, NEW o \in DispatchOutcomes(s)
    PROVE  ConnectionOf(s, o)
<1>1. \/ \E c \in s.accepted : o \in AcceptOutcomes(s, c)
      \/ s.recvd # <<>> /\ o \in ReadOutcomes(s)
      \/ s.failed > 0 /\ o \in FailOutcomes(s)
  BY DEF DispatchOutcomes
<1>2. ASSUME NEW t \in StreamType, o = Lost(t), t.recvd = s.recvd
      PROVE  ConnectionOf(s, o)
  <2>1. /\ o.closed /\ o.opened = FALSE /\ ~o.threw /\ o.req = None
        /\ o.s = Reconnect(t) /\ o.s.recvd = t.recvd
    BY <1>2, SentLostWorks, CloseKeepsChunks
  <2>2. QED
    BY <1>2, <2>1, ReconnectWorks DEF ConnectionOf
<1>3. CASE \E c \in s.accepted : o \in AcceptOutcomes(s, c)
  <2>1. PICK c \in s.accepted : o \in AcceptOutcomes(s, c)
    BY <1>3
  <2> DEFINE t == [s EXCEPT !.accepted = s.accepted \ {c}]
             u == [t EXCEPT !.conn = c]
  <2>2. c \in Clients /\ s.accepted \ {c} \in SUBSET Clients
    BY DEF StreamType
  <2>3. t \in StreamType /\ t.recvd = s.recvd
    BY <2>2, FieldUpdate DEF StreamType
  <2>4. u \in StreamType
    BY <2>2, <2>3, FieldUpdate
  <2> HIDE DEF t, u
  <2>5. CASE s.conn # None
    <3>1. o = Lost(t)
      BY <2>1, <2>5 DEF AcceptOutcomes, t
    <3>2. QED
      BY <1>2, <2>3, <3>1
  <2>6. CASE s.conn = None
    <3>1. PICK q \in SendOutcomes(u) :
            o = [q EXCEPT !.s = StartReceive(q.s), !.opened = TRUE]
      BY <2>1, <2>6 DEF AcceptOutcomes, ConnectedDone, t, u
    <3>2. q \in OutcomeType /\ q.req = None /\ ~q.threw
      BY <2>4, SendWorks
    <3>3. /\ o.s = StartReceive(q.s) /\ o.opened = TRUE /\ ~o.threw
          /\ o.closed = q.closed /\ o.req = None /\ q.s \in StreamType
      BY <3>1, <3>2 DEF OutcomeType
    <3>4. StartReceive(q.s).conn = q.s.conn
      BY <3>3, StartReceiveConnection
    <3>5. (q.closed => q.s.conn = None) /\ (~q.closed => q.s.conn # None)
      BY <2>4, <3>1, SendConnection
    <3>6. QED
      BY <2>6, <3>3, <3>4, <3>5 DEF ConnectionOf
  <2>7. QED
    BY <2>5, <2>6
<1>4. CASE s.recvd # <<>> /\ o \in ReadOutcomes(s)
  <2> DEFINE t == [s EXCEPT !.recvd = Tail(s.recvd), !.buf = s.buf \o Head(s.recvd)]
             u == [t EXCEPT !.buf = AfterLine(t.buf)]
  <2>1. t \in StreamType /\ u \in StreamType /\ t.conn = s.conn /\ u.conn = s.conn
        /\ t.buf \in Bytes
    <3>1. /\ Tail(s.recvd) \in Seq(Bytes) /\ s.buf \o Head(s.recvd) \in Bytes
      <4>1. s.recvd \in Seq(Bytes) /\ s.buf \in Seq(Piece)
        BY DEF StreamType, Bytes
      <4>2. Tail(s.recvd) \in Seq(Bytes) /\ Head(s.recvd) \in Bytes
        BY <1>4, <4>1, HeadTailProperties
      <4>3. QED
        BY <4>1, <4>2, ConcatProperties DEF Bytes
    <3>2. t \in StreamType
      BY <3>1, FieldUpdate
    <3>3. t.conn = s.conn /\ t.buf \in Bytes
      BY <3>1, <3>2 DEF StreamType
    <3>4. u \in StreamType
      BY <3>2, <3>3, LineType, FieldUpdate
    <3>5. u.conn = t.conn
      BY <3>2 DEF StreamType
    <3>6. QED
      BY <3>2, <3>3, <3>4, <3>5
  <2> HIDE DEF t, u
  <2>2. CASE o = Sent(ReadSome(t))
    <3>1. o.s = ReadSome(t) /\ ~o.closed /\ o.opened = FALSE /\ ~o.threw /\ o.req = None
      BY <2>1, <2>2, StartReceiveWorks, SentLostWorks
    <3>2. QED
      BY <1>4, <2>1, <3>1, StartReceiveConnection DEF ConnectionOf
  <2>3. CASE \E q \in ExecuteOutcomes(u, Line(t.buf)) :
               o = [q EXCEPT !.s = IF q.threw THEN q.s ELSE StartReceive(q.s)]
    <3>1. PICK q \in ExecuteOutcomes(u, Line(t.buf)) :
            o = [q EXCEPT !.s = IF q.threw THEN q.s ELSE StartReceive(q.s)]
      BY <2>3
    <3>2. /\ q \in OutcomeType /\ q.opened = FALSE
          /\ q.closed => q.s.conn = None
          /\ ~q.closed => q.s = u
          /\ q.req # None => q.closed \/ q.threw \/ u.conn # None
          /\ q.threw => ~q.closed /\ q.req # None /\ q.req.cmd \in Failing
      BY <2>1, ExecuteConnection
    <3>3. /\ o.opened = FALSE /\ o.closed = q.closed /\ o.req = q.req /\ o.threw = q.threw
          /\ o.s \in {q.s, StartReceive(q.s)} /\ q.s \in StreamType
      BY <3>1, <3>2 DEF OutcomeType
    <3>4. o.s.conn = q.s.conn
      BY <3>3, StartReceiveConnection
    <3>5. QED
      BY <1>4, <2>1, <3>2, <3>3, <3>4 DEF ConnectionOf
  <2>4. QED
    BY <1>4, <2>2, <2>3 DEF ReadOutcomes, t, u
<1>5. CASE s.failed > 0 /\ o \in FailOutcomes(s)
  <2>1. s.failed - 1 \in Nat
    BY <1>5 DEF StreamType
  <2>2. /\ [s EXCEPT !.failed = s.failed - 1] \in StreamType
        /\ [s EXCEPT !.failed = s.failed - 1].recvd = s.recvd
    BY <2>1, FieldUpdate DEF StreamType
  <2>3. o = Lost([s EXCEPT !.failed = s.failed - 1])
    BY <1>5 DEF FailOutcomes
  <2>4. QED
    BY <1>2, <2>2, <2>3
<1>6. QED
  BY <1>1, <1>3, <1>4, <1>5

-----------------------------------------------------------------------------
(* The server's inductive invariant.                                       *)

DbgType == [pause : BOOLEAN, step : Steps]

ServerTypes ==
    /\ dbg \in DbgType
    /\ armed \in BOOLEAN /\ wait \in BOOLEAN
    /\ state_ \in LuaStates \cup {None}
    /\ hooked \subseteq LuaStates /\ alive \subseteq LuaStates
    /\ pc \in {"game", "wait", "poll", "loop"}
    /\ event \in {"line", "call"}
    /\ view \in {"none", "connected", "paused", "running"}
    /\ reason \in {"none", "breakpoint", "step", "step_in", "step_out",
                  "pause", "entry", "exception"}
    /\ debuggee \in {"none", "new", "met", "alone"}

(* What the listed invariants need between the steps of one hook event:    *)
(* only an attached state runs the hook, a step in progress has a client   *)
(* that asked for it, the first client to connect ends the waiting, before *)
(* which nothing was received, and a state that pauses has been met or is  *)
(* past its first hook.                                                    *)
HookInv ==
    /\ pc # "game" => state_ # None
    /\ dbg.step \in {"STEP_OVER", "STEP_IN", "STEP_OUT"} => stream.conn # None
    /\ wait => stream.conn = None /\ stream.recvd = <<>>
    /\ pc \in {"poll", "loop"} => ~wait
    /\ pc = "loop" => debuggee # "new"

ServerInv ==
    /\ StreamInv /\ ServerTypes /\ HookInv
    /\ ViewInSync /\ PauseHasClient /\ HookWhereAttached
    /\ NothingLeaks /\ NoExceptionReason /\ FirstDebuggerAwaited

LEMMA ServerInitInv == Init => ServerInv
<1> SUFFICES ASSUME Init PROVE ServerInv
  OBVIOUS
<1>1. StreamInv /\ stream.conn = None /\ stream.recvd = <<>>
  BY StreamInitInv DEF Init, StreamInit
<1>2. ServerTypes
  BY ServerAssumption DEF Init, ServerTypes, DbgType, Steps
<1>3. HookInv /\ ViewInSync /\ PauseHasClient
  BY <1>1 DEF Init, HookInv, ViewInSync, PauseHasClient
<1>4. HookWhereAttached /\ NothingLeaks /\ NoExceptionReason /\ FirstDebuggerAwaited
  BY DEF Init, HookWhereAttached, NothingLeaks, NoExceptionReason, FirstDebuggerAwaited
<1>5. QED
  BY <1>1, <1>2, <1>3, <1>4 DEF ServerInv

(* The parts of the invariant that concern the debugger, kept apart from   *)
(* the stream, whose next state satisfies StreamInv by its own theorems.   *)
Rest ==
    /\ ServerTypes /\ HookInv
    /\ ViewInSync /\ PauseHasClient /\ HookWhereAttached
    /\ NothingLeaks /\ NoExceptionReason /\ FirstDebuggerAwaited

LEMMA UnpauseType ==
    ASSUME NEW d \in DbgType
    PROVE  /\ Unpause(d) \in DbgType
           /\ Unpause(d).pause = FALSE /\ Unpause(d).step = "STEP_NONE"
           /\ Pause(d) \in DbgType
           /\ Pause(d).pause = d.pause /\ Pause(d).step = "STEP_PAUSE"
BY DEF DbgType, Unpause, Pause, Steps

(* A request can only end a pause, or have the game pause again later.     *)
LEMMA CommandFacts ==
    ASSUME NEW d \in DbgType, NEW cmd \in Requests, NEW e \in Execute(d, cmd)
    PROVE  /\ e \in DbgType
           /\ e.pause => d.pause /\ e.step \in {d.step, "STEP_PAUSE"}
           /\ cmd \in Failing => e.pause = d.pause /\ e.step \in {d.step, "STEP_PAUSE"}
<1>1. ASSUME NEW type \in Steps
      PROVE  StepBy(d, type) \in DbgType /\ StepBy(d, type).pause = FALSE
  BY <1>1 DEF StepBy, DbgType
<1>2. e \in {StepBy(d, "STEP_OVER"), StepBy(d, "STEP_IN"), StepBy(d, "STEP_OUT"),
            Unpause(d), Pause(d), d}
  BY DEF Execute, Requests
<1>3. cmd \in Failing => e \in {d, Pause(d)}
  BY ServerAssumption DEF Execute
<1>4. CASE e \in {d, Pause(d)}
  BY <1>4, UnpauseType
<1>5. CASE e = Unpause(d)
  BY <1>3, <1>5, UnpauseType
<1>6. CASE \E type \in Steps : e = StepBy(d, type)
  BY <1>1, <1>3, <1>4, <1>6
<1>7. QED
  BY <1>2, <1>4, <1>5, <1>6 DEF Steps

LEMMA OnCloseFacts ==
    ASSUME NEW d \in DbgType, NEW closed \in BOOLEAN
    PROVE  /\ OnClose(d, closed) \in DbgType
           /\ closed => OnClose(d, closed) = Unpause(d)
           /\ ~closed => OnClose(d, closed) = d
BY UnpauseType DEF OnClose

-----------------------------------------------------------------------------
(* One lemma per action.                                                   *)

(* Letting a Lua state go closes the session, clears pause and step.       *)
LEMMA DetachFacts ==
    ASSUME ServerInv, Detach
    PROVE  /\ stream'.conn = None /\ view' = "none"
           /\ stream'.recvd = stream.recvd
           /\ dbg' = Unpause(dbg) /\ dbg' \in DbgType
           /\ dbg'.pause = FALSE /\ dbg'.step = "STEP_NONE"
<1>1. PICK o \in SendOutcomes(stream) : stream' = Close(o.s)
  BY DEF Detach, HostExit
<1>2. o.s \in StreamType /\ o.s.recvd = stream.recvd
  BY SendWorks, SendConnection, OutcomeUpdate DEF ServerInv, StreamInv, StreamTypeOK
<1>3. stream'.recvd = stream.recvd
  BY <1>1, <1>2, CloseKeepsChunks
<1>4. QED
  BY <1>1, <1>2, <1>3, ReconnectWorks, UnpauseType DEF Detach, ServerInv, ServerTypes

LEMMA NewStateInv ==
    ASSUME ServerInv, NEW L \in LuaStates, NewState(L)
    PROVE  Rest'
<1>1. pc = "game" /\ UNCHANGED <<armed, wait, pc, event, reason>>
  BY DEF NewState
<1>2. \/ Detach
      \/ UNCHANGED <<stream, deaf, dbg, view>> /\ state_ = None
  BY DEF NewState, streamVars, past
<1>3. /\ stream'.conn = None \/ UNCHANGED <<stream, view>>
      /\ view' = "none" \/ UNCHANGED <<stream, view>>
      /\ dbg' \in DbgType
      /\ dbg'.pause => dbg' = dbg
  BY <1>2, DetachFacts DEF streamVars, ServerInv, ServerTypes
<1>4. /\ state_' = L /\ hooked' = (hooked \ {state_}) \cup {L}
      /\ alive' = alive \cup {L} /\ debuggee' = "new"
  <2>1. L # None /\ L # state_
    BY ServerAssumption DEF NewState, ServerInv, HookWhereAttached
  <2>2. QED
    BY <2>1 DEF NewState, Reset, SetHook, UnsetHook
<1>5. state_' # None
  BY <1>4, ServerAssumption
<1>6. HookWhereAttached'
  BY <1>4, <1>5 DEF ServerInv, HookWhereAttached
<1>7. ServerTypes'
  BY <1>1, <1>2, <1>3, <1>4, DetachFacts DEF ServerInv, ServerTypes
<1>8. ViewInSync' /\ PauseHasClient' /\ HookInv'
  <2>1. CASE Detach
    BY <1>1, <1>5, <2>1, DetachFacts DEF ServerInv, ViewInSync, PauseHasClient, HookInv
  <2>2. CASE UNCHANGED <<stream, deaf, dbg, view>>
    BY <1>1, <1>5, <2>2 DEF ServerInv, ViewInSync, PauseHasClient, HookInv
  <2>3. QED
    BY <1>2, <2>1, <2>2
<1>9. NothingLeaks'
  <2>1. CASE Detach
    <3>1. dbg' = Unpause(dbg')
      BY <2>1, DetachFacts DEF Unpause
    <3>2. QED
      BY <3>1 DEF NothingLeaks
  <2>2. CASE UNCHANGED <<stream, deaf, dbg, view>> /\ state_ = None
    BY <1>1, <2>2 DEF ServerInv, NothingLeaks, Unpause
  <2>3. QED
    BY <1>2, <2>1, <2>2
<1>10. NoExceptionReason' /\ FirstDebuggerAwaited'
  BY <1>1, <1>4 DEF NoExceptionReason, FirstDebuggerAwaited
<1>11. QED
  BY <1>6, <1>7, <1>8, <1>9, <1>10 DEF Rest

LEMMA CloseStateInv ==
    ASSUME ServerInv, NEW L \in LuaStates, CloseState(L)
    PROVE  Rest'
<1>1. pc = "game" /\ UNCHANGED <<armed, wait, pc, event, reason, debuggee>>
  BY DEF CloseState
<1>2. CASE L = state_
  <2>1. Detach /\ state_' = None /\ hooked' = hooked \ {L} /\ alive' = alive \ {L}
    <3>1. L # None
      BY ServerAssumption
    <3>2. QED
      BY <1>2, <3>1 DEF CloseState, Reset, SetHook, UnsetHook
  <2>2. HookWhereAttached'
    BY <1>2, <2>1 DEF ServerInv, HookWhereAttached
  <2>3. ServerTypes'
    BY <1>1, <2>1, DetachFacts DEF ServerInv, ServerTypes
  <2>4. ViewInSync' /\ PauseHasClient' /\ HookInv'
    BY <1>1, <2>1, DetachFacts DEF ServerInv, ViewInSync, PauseHasClient, HookInv
  <2>5. dbg' = Unpause(dbg')
    BY <2>1, DetachFacts DEF Unpause
  <2>6. NothingLeaks' /\ NoExceptionReason' /\ FirstDebuggerAwaited'
    BY <1>1, <2>5 DEF ServerInv, NothingLeaks, NoExceptionReason, FirstDebuggerAwaited
  <2>7. QED
    BY <2>2, <2>3, <2>4, <2>6 DEF Rest
<1>3. CASE L # state_
  <2>1. UNCHANGED <<streamVars, dbg, view, state_, hooked>> /\ alive' = alive \ {L}
    BY <1>3 DEF CloseState
  <2>2. HookWhereAttached'
    BY <1>3, <2>1 DEF ServerInv, HookWhereAttached
  <2>3. ServerTypes'
    BY <1>1, <2>1 DEF ServerInv, ServerTypes
  <2>4. ViewInSync' /\ PauseHasClient' /\ HookInv'
    BY <1>1, <2>1 DEF ServerInv, ViewInSync, PauseHasClient, HookInv, streamVars, past
  <2>5. NothingLeaks' /\ NoExceptionReason' /\ FirstDebuggerAwaited'
    BY <1>1, <2>1 DEF ServerInv, NothingLeaks, NoExceptionReason, FirstDebuggerAwaited, Unpause
  <2>6. QED
    BY <2>2, <2>3, <2>4, <2>5 DEF Rest
<1>4. QED
  BY <1>2, <1>3

LEMMA LuaPauseInv ==
    ASSUME ServerInv, NEW L \in LuaStates, LuaPause(L)
    PROVE  Rest'
<1>1. /\ pc = "game" /\ dbg' = Pause(dbg)
      /\ UNCHANGED <<streamVars, armed, wait, luaVars, pc, event, history>>
  BY DEF LuaPause
<1>2. dbg' \in DbgType /\ dbg'.step = "STEP_PAUSE"
  BY <1>1, UnpauseType DEF ServerInv, ServerTypes
<1>3. ServerTypes'
  BY <1>1, <1>2 DEF ServerInv, ServerTypes, luaVars, history
<1>4. QED
  BY <1>1, <1>2, <1>3 DEF Rest, ServerInv, ViewInSync, PauseHasClient, HookInv,
     HookWhereAttached, NothingLeaks, NoExceptionReason, FirstDebuggerAwaited,
     luaVars, history, streamVars, past

LEMMA HookEnterInv ==
    ASSUME ServerInv, NEW ev \in {"line", "call"}, HookEnter(ev)
    PROVE  Rest'
<1>1. /\ pc = "game" /\ hooked # {} /\ event' = ev
      /\ pc' = IF wait THEN "wait" ELSE "poll"
      /\ UNCHANGED <<streamVars, dbg, armed, wait, luaVars, history>>
  BY DEF HookEnter
<1>2. state_ # None
  BY <1>1 DEF ServerInv, HookWhereAttached
<1>3. ServerTypes'
  BY <1>1 DEF ServerInv, ServerTypes, luaVars, history
<1>4. HookInv' /\ ViewInSync' /\ PauseHasClient'
  BY <1>1, <1>2 DEF ServerInv, ServerTypes, HookInv, ViewInSync, PauseHasClient,
     luaVars, history, streamVars, past
<1>5. NothingLeaks'
  BY <1>1, <1>2 DEF NothingLeaks, luaVars
<1>6. QED
  BY <1>1, <1>3, <1>4, <1>5 DEF Rest, ServerInv, ServerTypes, HookWhereAttached,
     NoExceptionReason, FirstDebuggerAwaited, luaVars, history

LEMMA WaitDoneInv ==
    ASSUME ServerInv, WaitDone
    PROVE  Rest'
<1>1. /\ pc = "wait" /\ pc' = "poll" /\ stream.conn # None
      /\ UNCHANGED <<streamVars, dbg, armed, wait, luaVars, event, history>>
  BY DEF WaitDone
<1>2. ServerTypes'
  BY <1>1 DEF ServerInv, ServerTypes, luaVars, history
<1>3. HookInv' /\ ViewInSync' /\ PauseHasClient'
  BY <1>1 DEF ServerInv, ServerTypes, HookInv, ViewInSync, PauseHasClient,
     luaVars, history, streamVars, past
<1>4. NothingLeaks'
  BY <1>1 DEF ServerInv, HookInv, NothingLeaks, luaVars
<1>5. QED
  BY <1>1, <1>2, <1>3, <1>4 DEF Rest, ServerInv, HookWhereAttached,
     NoExceptionReason, FirstDebuggerAwaited, luaVars, history

(* What a handler does to the debugger.  An error leaves pause_ as it is.  *)
LEMMA DispatchDbg ==
    ASSUME ServerInv, NEW o \in DispatchOutcomes(stream),
           IF o.req = None
             THEN dbg' = OnClose(dbg, o.closed)
             ELSE \E d \in Execute(dbg, o.req.cmd) : dbg' = OnClose(d, o.closed)
    PROVE  /\ dbg' \in DbgType
           /\ o.closed => dbg'.pause = FALSE /\ dbg'.step = "STEP_NONE"
           /\ dbg'.pause => ~o.closed /\ dbg.pause /\ dbg'.step \in {dbg.step, "STEP_PAUSE"}
           /\ o.req = None => o.closed \/ dbg' = dbg
           /\ o.threw => dbg'.pause = dbg.pause /\ dbg'.step \in {dbg.step, "STEP_PAUSE"}
<1>1. o \in OutcomeType /\ ConnectionOf(stream, o)
  BY DispatchWorks, DispatchConnection DEF ServerInv, StreamInv, StreamTypeOK
<1>2. /\ o.closed \in BOOLEAN /\ o.req \in Request \cup {None}
      /\ o.threw => ~o.closed /\ o.req # None /\ o.req.cmd \in Failing
  BY <1>1 DEF OutcomeType, ConnectionOf
<1>3. PICK d \in DbgType :
        /\ dbg' = OnClose(d, o.closed)
        /\ d.pause => dbg.pause /\ d.step \in {dbg.step, "STEP_PAUSE"}
        /\ o.req = None => d = dbg
        /\ o.threw => d.pause = dbg.pause /\ d.step \in {dbg.step, "STEP_PAUSE"}
  <2>1. CASE o.req = None
    BY <1>2, <2>1 DEF ServerInv, ServerTypes
  <2>2. CASE o.req # None
    <3>1. o.req.cmd \in Requests
      BY <1>2, <2>2, ServerAssumption DEF Request
    <3>2. PICK d \in Execute(dbg, o.req.cmd) : dbg' = OnClose(d, o.closed)
      BY <2>2
    <3>3. QED
      BY <1>2, <2>2, <3>1, <3>2, CommandFacts DEF ServerInv, ServerTypes
  <2>3. QED
    BY <2>1, <2>2
<1>4. CASE o.closed
  <2>1. dbg' = Unpause(d)
    BY <1>2, <1>3, <1>4, OnCloseFacts
  <2>2. dbg' \in DbgType /\ dbg'.pause = FALSE /\ dbg'.step = "STEP_NONE"
    BY <2>1, UnpauseType
  <2>3. QED
    BY <1>2, <1>4, <2>2
<1>5. CASE ~o.closed
  <2>1. dbg' = d
    BY <1>2, <1>3, <1>5, OnCloseFacts
  <2>2. QED
    BY <1>3, <1>5, <2>1
<1>6. QED
  BY <1>2, <1>4, <1>5

LEMMA DispatchInv ==
    ASSUME ServerInv, Dispatch
    PROVE  Rest'
<1>1. PICK o \in DispatchOutcomes(stream) :
        /\ stream' = o.s /\ Hears(o)
        /\ IF o.req = None
             THEN dbg' = OnClose(dbg, o.closed) /\ armed' = armed
             ELSE /\ armed' \in IF o.threw THEN {armed} ELSE Breakpoints(o.req.cmd)
                  /\ \E d \in Execute(dbg, o.req.cmd) : dbg' = OnClose(d, o.closed)
        /\ pc' = IF o.threw THEN "game" ELSE pc
        /\ wait' = (wait /\ ~o.opened)
        /\ view' = View(o.closed, IF o.opened THEN "connected" ELSE view)
        /\ debuggee' = IF o.threw THEN Passed
                       ELSE IF o.opened /\ debuggee = "new" THEN "met" ELSE debuggee
  BY DEF Dispatch
<1>2. /\ pc = "poll" \/ Waiting \/ Paused
      /\ UNCHANGED <<luaVars, event, reason>>
  BY DEF Dispatch
<1>3. ConnectionOf(stream, o)
  BY DispatchConnection DEF ServerInv, StreamInv, StreamTypeOK
<1>4. /\ o.closed \in BOOLEAN /\ o.opened \in BOOLEAN /\ o.threw \in BOOLEAN
      /\ o.req \in Request \cup {None}
  BY DispatchWorks DEF OutcomeType, ServerInv, StreamInv, StreamTypeOK
<1>5. /\ dbg' \in DbgType
      /\ o.closed => dbg'.pause = FALSE /\ dbg'.step = "STEP_NONE"
      /\ dbg'.pause => ~o.closed /\ dbg.pause /\ dbg'.step \in {dbg.step, "STEP_PAUSE"}
      /\ o.req = None => o.closed \/ dbg' = dbg
      /\ o.threw => dbg'.pause = dbg.pause /\ dbg'.step \in {dbg.step, "STEP_PAUSE"}
  BY <1>1, DispatchDbg
<1>6. deaf' = (o.threw \/ (deaf /\ ~o.closed /\ ~o.opened))
  BY <1>1 DEF Hears
<1>7. armed' \in BOOLEAN
  BY <1>1 DEF Breakpoints, ServerInv, ServerTypes
<1>8. ServerTypes'
  BY <1>1, <1>2, <1>4, <1>5, <1>7 DEF ServerInv, ServerTypes, luaVars, View, Passed
<1>9. state_ # None /\ state_' = state_
  BY <1>2 DEF ServerInv, HookInv, Waiting, Paused, luaVars
<1>10. HookInv'
  <2>1. wait' => stream'.conn = None /\ stream'.recvd = <<>>
    BY <1>1, <1>3 DEF ServerInv, HookInv, ConnectionOf
  <2>2. dbg'.step \in {"STEP_OVER", "STEP_IN", "STEP_OUT"} => stream'.conn # None
    <3>1. CASE o.closed
      BY <1>5, <3>1
    <3>2. CASE o.threw
      BY <1>1, <1>3, <1>5, <3>2 DEF ServerInv, HookInv, ConnectionOf
    <3>3. CASE ~o.closed /\ ~o.threw
      BY <1>1, <1>3, <1>5, <3>3 DEF ServerInv, HookInv, ConnectionOf
    <3>4. QED
      BY <3>1, <3>2, <3>3
  <2>3. (pc' # "game" => state_' # None) /\ (pc' \in {"poll", "loop"} => ~wait')
    BY <1>1, <1>9 DEF ServerInv, HookInv
  <2>4. pc' = "loop" => debuggee' # "new"
    BY <1>1 DEF ServerInv, HookInv
  <2>5. QED
    BY <2>1, <2>2, <2>3, <2>4 DEF HookInv
<1>11. ViewInSync'
  <2>1. CASE o.closed
    BY <1>1, <1>3, <2>1 DEF ViewInSync, ConnectionOf, View
  <2>2. CASE o.opened /\ ~o.closed
    BY <1>1, <1>2, <1>3, <2>2 DEF ServerInv, ViewInSync, ConnectionOf, View, Waiting, Paused
  <2>3. CASE ~o.opened /\ ~o.closed
    BY <1>1, <1>3, <1>6, <2>3 DEF ServerInv, ViewInSync, ConnectionOf, View
  <2>4. QED
    BY <2>1, <2>2, <2>3
<1>12. PauseHasClient'
  <2>1. CASE o.closed
    BY <1>5, <2>1 DEF PauseHasClient
  <2>2. CASE o.opened /\ ~o.closed
    BY <1>1, <1>2, <1>3, <1>5, <2>2 DEF ServerInv, PauseHasClient, ConnectionOf, Waiting, Paused
  <2>3. CASE ~o.opened /\ ~o.closed
    BY <1>1, <1>3, <1>5, <1>6, <2>3 DEF ServerInv, PauseHasClient, ConnectionOf
  <2>4. QED
    BY <2>1, <2>2, <2>3
<1>13. NothingLeaks' /\ HookWhereAttached'
  <2>1. NothingLeaks'
    BY <1>1, <1>2, <1>9 DEF NothingLeaks, Passed, Waiting, Paused
  <2>2. QED
    BY <1>2, <2>1 DEF ServerInv, HookWhereAttached, luaVars
<1>14. NoExceptionReason'
  BY <1>1, <1>2, <1>3, <1>6 DEF ServerInv, NoExceptionReason, ConnectionOf, Waiting, Paused
<1>15. FirstDebuggerAwaited'
  BY <1>1, <1>3 DEF ServerInv, HookInv, FirstDebuggerAwaited, ConnectionOf
<1>16. QED
  BY <1>8, <1>10, <1>11, <1>12, <1>13, <1>14, <1>15 DEF Rest

LEMMA AfterPollInv ==
    ASSUME ServerInv, NEW far \in BOOLEAN, NEW found \in BOOLEAN, NEW holds \in BOOLEAN,
           AfterPoll(far, found, holds)
    PROVE  Rest'
<1> DEFINE line == event = "line"
           pause == dbg.pause \/ (line /\ StepStops(dbg.step, far)) \/ (line /\ found /\ holds)
           paused == [dbg EXCEPT !.pause = TRUE]
<1>1. /\ pc = "poll"
      /\ UNCHANGED <<armed, wait, luaVars, event>>
      /\ debuggee' = Passed
  BY DEF AfterPoll
<1>2. ~wait /\ state_ # None /\ debuggee' # "new"
  BY <1>1 DEF ServerInv, HookInv, Passed
<1>3. HookWhereAttached' /\ NothingLeaks' /\ FirstDebuggerAwaited'
  BY <1>1, <1>2 DEF ServerInv, HookWhereAttached, NothingLeaks, FirstDebuggerAwaited, luaVars
<1>4. CASE pause
  <2>1. PICK o \in SendOutcomes(stream) :
          /\ stream' = o.s /\ Hears(o)
          /\ dbg' = OnClose(paused, o.closed)
          /\ view' = View(o.closed, "paused")
    BY <1>4 DEF AfterPoll
  <2>2. pc' = "loop" /\ reason' = Reason(dbg.step, line /\ found)
    BY <1>4 DEF AfterPoll
  <2>3. /\ o.closed \in BOOLEAN
        /\ o.closed => o.s.conn = None
        /\ ~o.closed => o.s = stream /\ stream.conn # None
        /\ ~o.closed => deaf' = deaf
    BY <2>1, SendConnection DEF ServerInv, StreamInv, StreamTypeOK, Hears
  <2>4. paused \in DbgType /\ paused.step = dbg.step
    BY DEF ServerInv, ServerTypes, DbgType
  <2>5. /\ dbg' \in DbgType
        /\ o.closed => dbg'.pause = FALSE /\ dbg'.step = "STEP_NONE"
        /\ ~o.closed => dbg'.step = dbg.step
    <3> HIDE DEF paused
    <3>1. CASE o.closed
      <4>1. dbg' = Unpause(paused)
        BY <2>1, <2>3, <2>4, <3>1, OnCloseFacts
      <4>2. QED
        BY <2>4, <3>1, <4>1, UnpauseType
    <3>2. CASE ~o.closed
      <4>1. dbg' = paused
        BY <2>1, <2>3, <2>4, <3>2, OnCloseFacts
      <4>2. QED
        BY <2>4, <3>2, <4>1
    <3>3. QED
      BY <2>3, <3>1, <3>2
  <2>6. /\ reason' \in {"breakpoint", "step", "step_in", "step_out", "pause", "entry", "exception"}
        /\ reason' = "exception" => deaf
    <3>1. (line /\ found) \/ dbg.step # "STEP_NONE" \/ deaf
      BY <1>1, <1>4 DEF ServerInv, PauseHasClient, StepStops
    <3>2. dbg.step \in Steps
      BY DEF ServerInv, ServerTypes, DbgType
    <3>3. QED
      BY <2>2, <3>1, <3>2 DEF Reason, Steps
  <2>7. ServerTypes'
    BY <1>1, <2>1, <2>2, <2>5, <2>6 DEF ServerInv, ServerTypes, luaVars, View, Passed
  <2>8. HookInv'
    BY <1>1, <1>2, <2>1, <2>2, <2>3, <2>5 DEF ServerInv, HookInv, luaVars
  <2>9. ViewInSync' /\ PauseHasClient'
    BY <2>1, <2>2, <2>3, <2>5 DEF ViewInSync, PauseHasClient, View
  <2>10. NoExceptionReason'
    BY <2>1, <2>3, <2>6 DEF NoExceptionReason
  <2>11. QED
    BY <1>3, <2>7, <2>8, <2>9, <2>10 DEF Rest
<1>5. CASE ~pause
  <2>1. pc' = "game" /\ UNCHANGED <<stream, deaf, dbg, view, reason>>
    BY <1>5 DEF AfterPoll, past
  <2>2. ~dbg.pause
    BY <1>5
  <2>3. ServerTypes'
    BY <1>1, <2>1 DEF ServerInv, ServerTypes, luaVars, Passed
  <2>4. HookInv' /\ ViewInSync' /\ PauseHasClient'
    BY <1>1, <1>2, <2>1, <2>2 DEF ServerInv, HookInv, ViewInSync, PauseHasClient, luaVars
  <2>5. NoExceptionReason'
    BY <2>1 DEF NoExceptionReason
  <2>6. QED
    BY <1>3, <2>3, <2>4, <2>5 DEF Rest
<1>6. QED
  BY <1>4, <1>5

(* The hook left by the condition of a breakpoint: what may then stand is  *)
(* a step that had found its line, and its client is still there.          *)
LEMMA ConditionFailsInv ==
    ASSUME ServerInv, NEW far \in BOOLEAN, ConditionFails(far)
    PROVE  Rest'
<1>1. /\ pc = "poll" /\ pc' = "game" /\ debuggee' = Passed
      /\ UNCHANGED <<stream, deaf, armed, wait, luaVars, event, view, reason>>
      /\ dbg' = [dbg EXCEPT !.pause = dbg.pause \/ StepStops(dbg.step, far)]
  BY DEF ConditionFails, streamVars, past
<1>2. ~wait /\ state_ # None /\ debuggee' # "new"
  BY <1>1 DEF ServerInv, HookInv, Passed
<1>3. dbg' \in DbgType /\ dbg'.step = dbg.step
  BY <1>1 DEF ServerInv, ServerTypes, DbgType, StepStops
<1>4. dbg'.pause => dbg.pause \/ dbg.step \in {"STEP_OVER", "STEP_IN", "STEP_OUT", "STEP_PAUSE"}
  BY <1>1 DEF ServerInv, ServerTypes, DbgType, StepStops
<1>5. ServerTypes' /\ HookInv'
  BY <1>1, <1>2, <1>3 DEF ServerInv, ServerTypes, HookInv, luaVars, Passed
<1>6. ViewInSync' /\ NoExceptionReason'
  BY <1>1 DEF ServerInv, ViewInSync, NoExceptionReason
<1>7. PauseHasClient'
  BY <1>1, <1>3, <1>4 DEF ServerInv, HookInv, PauseHasClient
<1>8. HookWhereAttached' /\ NothingLeaks' /\ FirstDebuggerAwaited'
  BY <1>1, <1>2 DEF ServerInv, HookWhereAttached, NothingLeaks, FirstDebuggerAwaited, luaVars
<1>9. QED
  BY <1>5, <1>6, <1>7, <1>8 DEF Rest

LEMMA ResumeInv ==
    ASSUME ServerInv, Resume
    PROVE  Rest'
<1>1. PICK o \in SendOutcomes(stream) :
        /\ stream' = o.s /\ Hears(o)
        /\ dbg' = [OnClose(dbg, o.closed) EXCEPT
                     !.pause = OnClose(dbg, o.closed).pause
                               /\ OnClose(dbg, o.closed).step # "STEP_NONE"]
        /\ view' = View(o.closed, "running")
  BY DEF Resume
<1>2. /\ pc = "loop" /\ ~Paused /\ pc' = "game"
      /\ UNCHANGED <<armed, wait, luaVars, event, reason, debuggee>>
  BY DEF Resume
<1>3. /\ o.closed \in BOOLEAN
      /\ o.closed => o.s.conn = None
      /\ ~o.closed => o.s = stream /\ stream.conn # None
  BY SendConnection DEF ServerInv, StreamInv, StreamTypeOK
<1>4. dbg.pause = FALSE
  BY <1>2 DEF ServerInv, ServerTypes, DbgType, PauseHasClient, Paused
<1>5. /\ dbg' \in DbgType /\ dbg'.pause = FALSE
      /\ dbg'.step = "STEP_NONE" \/ (~o.closed /\ dbg'.step = dbg.step)
  <2>1. /\ OnClose(dbg, o.closed) \in DbgType
        /\ OnClose(dbg, o.closed).pause = FALSE
        /\ o.closed => OnClose(dbg, o.closed).step = "STEP_NONE"
        /\ ~o.closed => OnClose(dbg, o.closed) = dbg
    BY <1>3, <1>4, OnCloseFacts, UnpauseType DEF ServerInv, ServerTypes
  <2>2. QED
    BY <1>1, <1>3, <2>1 DEF DbgType
<1>6. ServerTypes'
  BY <1>1, <1>2, <1>5 DEF ServerInv, ServerTypes, luaVars, View
<1>7. ViewInSync' /\ PauseHasClient'
  BY <1>1, <1>2, <1>3, <1>5 DEF ServerInv, ViewInSync, PauseHasClient, luaVars, View
<1>8. HookInv'
  BY <1>1, <1>2, <1>3, <1>5 DEF ServerInv, HookInv, luaVars
<1>9. state_' # None /\ HookWhereAttached' /\ debuggee' # "new"
  BY <1>2 DEF ServerInv, HookInv, HookWhereAttached, luaVars
<1>10. NothingLeaks' /\ NoExceptionReason' /\ FirstDebuggerAwaited'
  BY <1>2, <1>9 DEF ServerInv, NothingLeaks, NoExceptionReason, FirstDebuggerAwaited
<1>11. QED
  BY <1>6, <1>7, <1>8, <1>9, <1>10 DEF Rest

(* Clients and kernel complete operations; only handlers change sessions,  *)
(* and without a session nothing is received.                              *)
LEMMA EnvConnection ==
    ASSUME ServerInv, Env
    PROVE  /\ stream'.conn = stream.conn /\ deaf' = deaf
           /\ stream.conn = None => stream'.recvd = stream.recvd
<1>1. stream \in StreamType
  BY DEF ServerInv, StreamInv, StreamTypeOK
<1>2. ASSUME Peers PROVE stream' = stream /\ deaf' = deaf
  BY <1>2 DEF Peers, Connect, Leave, ClientSend, past
<1>3. ASSUME NEW c \in Clients, AcceptDone(c) \/ Arrive(c) \/ EndOfFile(c)
      PROVE  /\ stream'.conn = stream.conn /\ deaf' = deaf
             /\ stream.conn = None => stream'.recvd = stream.recvd
  BY <1>1, <1>3, StreamAssumption DEF AcceptDone, Arrive, EndOfFile, StreamType, past
<1>4. QED
  BY <1>2, <1>3 DEF Env, Kernel

LEMMA EnvInv ==
    ASSUME ServerInv, Env
    PROVE  Rest'
<1>1. /\ stream'.conn = stream.conn /\ deaf' = deaf
      /\ stream.conn = None => stream'.recvd = stream.recvd
  BY EnvConnection
<1>2. /\ UNCHANGED <<dbg, armed, wait, state_, hooked, alive, pc, event>>
      /\ UNCHANGED <<view, reason, debuggee>>
  BY DEF Env, serverVars, luaVars, history
<1>3. ServerTypes' /\ HookInv' /\ HookWhereAttached' /\ FirstDebuggerAwaited'
  BY <1>1, <1>2 DEF ServerInv, ServerTypes, HookInv, HookWhereAttached, FirstDebuggerAwaited
<1>4. ViewInSync' /\ PauseHasClient' /\ NoExceptionReason'
  BY <1>1, <1>2 DEF ServerInv, ViewInSync, PauseHasClient, NoExceptionReason
<1>5. NothingLeaks'
  BY <1>2 DEF ServerInv, NothingLeaks, Unpause
<1>6. QED
  BY <1>3, <1>4, <1>5 DEF Rest

LEMMA ServerStepInv == ServerInv /\ [Next]_vars => ServerInv'
<1> SUFFICES ASSUME ServerInv, [Next]_vars PROVE ServerInv'
  OBVIOUS
<1>1. StreamInv'
  BY ServerStepIsStreamStep, StreamStepInv DEF ServerInv
<1>2. Rest'
  <2>1. CASE Lua
    BY <2>1, NewStateInv, CloseStateInv, LuaPauseInv, HookEnterInv DEF Lua
  <2>2. CASE Hook
    BY <2>2, WaitDoneInv, DispatchInv, AfterPollInv, ConditionFailsInv, ResumeInv DEF Hook
  <2>3. CASE Env
    BY <2>3, EnvInv
  <2>4. CASE UNCHANGED vars
    BY <2>4 DEF vars, streamVars, past, serverVars, luaVars, history, Rest, ServerInv,
       ServerTypes, HookInv, ViewInSync, PauseHasClient, HookWhereAttached,
       NothingLeaks, NoExceptionReason, FirstDebuggerAwaited, Unpause
  <2>5. QED
    BY <2>1, <2>2, <2>3, <2>4 DEF Next
<1>3. QED
  BY <1>1, <1>2 DEF Rest, ServerInv

LEMMA ServerInvariant == Spec => []ServerInv
BY ServerInitInv, ServerStepInv, PTL DEF Spec

-----------------------------------------------------------------------------
(* The theorems.                                                           *)

(* The state always has its type.                                          *)
THEOREM ServerTypeCorrect == Spec => []TypeOK
<1>1. ServerInv => TypeOK
  BY DEF ServerInv, StreamInv, ServerTypes, DbgType, TypeOK
<1>2. QED
  BY <1>1, ServerInvariant, PTL

(* A client has been told "paused" exactly while the game is in the pause  *)
(* loop, unless an error has left a handler of its session.                *)
THEOREM ViewAlwaysInSync == Spec => []ViewInSync
<1>1. ServerInv => ViewInSync
  BY DEF ServerInv
<1>2. QED
  BY <1>1, ServerInvariant, PTL

(* The pause loop never holds the game without a client, and pause_ stands *)
(* unexplained outside it only where an error has left a handler.          *)
THEOREM PauseAlwaysHasClient == Spec => []PauseHasClient
<1>1. ServerInv => PauseHasClient
  BY DEF ServerInv
<1>2. QED
  BY <1>1, ServerInvariant, PTL

(* The hook is in the attached state, which has not been closed.           *)
THEOREM HookAlwaysWhereAttached == Spec => []HookWhereAttached
<1>1. ServerInv => HookWhereAttached
  BY DEF ServerInv
<1>2. QED
  BY <1>1, ServerInvariant, PTL

(* A pause is reported as an exception only where an error left a handler: *)
(* otherwise step_type_ or a breakpoint explains it.                       *)
THEOREM ExceptionNeverReported == Spec => []NoExceptionReason
<1>1. ServerInv => NoExceptionReason
  BY DEF ServerInv
<1>2. QED
  BY <1>1, ServerInvariant, PTL

(* Nothing of a pause or step leaks from one Lua state to the next.        *)
THEOREM NothingEverLeaks == Spec => []NothingLeaks
<1>1. ServerInv => NothingLeaks
  BY DEF ServerInv
<1>2. QED
  BY <1>1, ServerInvariant, PTL

(* With the wait option, the first debugger is awaited over level loads.   *)
THEOREM FirstDebuggerAlwaysAwaited == Spec => []FirstDebuggerAwaited
<1>1. ServerInv => FirstDebuggerAwaited
  BY DEF ServerInv
<1>2. QED
  BY <1>1, ServerInvariant, PTL

-----------------------------------------------------------------------------
(* The server keeps the safety part of DebugSession.                       *)

Held == pc = "loop" /\ dbg.pause

(* What a step of the server does to the session: it ends it, begins one,  *)
(* lets the game go, be it by an error, or holds it for its client.        *)
SessionMove ==
    /\ gone' = gone
    /\ \/ stream'.conn = None /\ ~Held'
       \/ stream.conn = None /\ ~Held /\ ~Held' /\ ~deaf'
       \/ stream'.conn = stream.conn /\ ~Held' /\ (deaf' \/ deaf' = deaf)
       \/ stream'.conn = stream.conn /\ stream.conn # None /\ Held' /\ deaf' = deaf

LEMMA MoveIsSessionStep ==
    ASSUME ServerInv, ServerInv', SessionMove
    PROVE  [Session!SessionNext]_(Session!sessionVars)
<1>1. /\ stream.conn \in Clients \cup {None} /\ stream'.conn \in Clients \cup {None}
      /\ Held \in BOOLEAN /\ Held' \in BOOLEAN
      /\ deaf \in BOOLEAN /\ deaf' \in BOOLEAN
      /\ Held => stream.conn # None
  BY DEF ServerInv, StreamInv, StreamTypeOK, StreamType, ServerTypes, DbgType,
     PauseHasClient, Held
<1>2. CASE stream'.conn = None /\ ~Held'
  <2>1. CASE stream.conn = None
    BY <1>1, <1>2, <2>1 DEF SessionMove, Session!sessionVars, Held
  <2>2. CASE stream.conn # None
    BY <1>2, <2>2 DEF SessionMove, Session!SessionNext, Session!End, Held
  <2>3. QED
    BY <2>1, <2>2
<1>3. CASE stream.conn = None /\ ~Held /\ ~Held' /\ ~deaf' /\ stream'.conn # None
  <2>1. \E c \in Clients : Session!Open(c)
    BY <1>1, <1>3 DEF SessionMove, Session!Open, Held
  <2>2. QED
    BY <2>1 DEF Session!SessionNext
<1>4. CASE stream'.conn = stream.conn /\ ~Held' /\ (deaf' \/ deaf' = deaf)
  <2>1. CASE stream.conn = None
    BY <1>1, <1>4, <2>1 DEF SessionMove, Session!sessionVars, Held
  <2>2. CASE stream.conn # None /\ deaf'
    BY <1>4, <2>2 DEF SessionMove, Session!SessionNext, Session!Fail, Held
  <2>3. CASE stream.conn # None /\ deaf' = deaf /\ Held
    BY <1>4, <2>3 DEF SessionMove, Session!SessionNext, Session!Release, Held
  <2>4. CASE stream.conn # None /\ deaf' = deaf /\ ~Held
    BY <1>1, <1>4, <2>4 DEF SessionMove, Session!sessionVars, Held
  <2>5. QED
    BY <1>4, <2>1, <2>2, <2>3, <2>4
<1>5. CASE stream'.conn = stream.conn /\ stream.conn # None /\ Held' /\ deaf' = deaf
  <2>1. CASE ~Held
    BY <1>1, <1>5, <2>1 DEF SessionMove, Session!SessionNext, Session!Hold, Held
  <2>2. CASE Held
    BY <1>1, <1>5, <2>2 DEF SessionMove, Session!sessionVars, Held
  <2>3. QED
    BY <2>1, <2>2
<1>6. QED
  BY <1>2, <1>3, <1>4, <1>5 DEF SessionMove

(* The game's own calls: only Detach touches the session.                  *)
LEMMA LuaMoves == ASSUME ServerInv, Lua PROVE SessionMove
<1>1. CASE \E L \in LuaStates : NewState(L) \/ CloseState(L)
  <2>1. pc = "game" /\ pc' = "game"
    BY <1>1 DEF NewState, CloseState
  <2>2. Detach \/ UNCHANGED <<stream, gone, deaf>>
    BY <1>1 DEF NewState, CloseState, streamVars, netVars, past
  <2>3. Detach => stream'.conn = None /\ gone' = gone
    BY DetachFacts DEF Detach, HostExit, netVars
  <2>4. QED
    BY <2>1, <2>2, <2>3 DEF SessionMove, Held
<1>2. CASE \E L \in LuaStates : LuaPause(L)
  BY <1>2 DEF LuaPause, streamVars, netVars, past, SessionMove, Held
<1>3. CASE \E ev \in {"line", "call"} : HookEnter(ev)
  BY <1>3 DEF HookEnter, streamVars, netVars, past, SessionMove, Held
<1>4. QED
  BY <1>1, <1>2, <1>3 DEF Lua

LEMMA DispatchMoves == ASSUME ServerInv, Dispatch PROVE SessionMove
<1>1. PICK o \in DispatchOutcomes(stream) :
        /\ stream' = o.s /\ Hears(o)
        /\ IF o.req = None
             THEN dbg' = OnClose(dbg, o.closed)
             ELSE \E d \in Execute(dbg, o.req.cmd) : dbg' = OnClose(d, o.closed)
        /\ pc' = IF o.threw THEN "game" ELSE pc
  BY DEF Dispatch
<1>2. (pc = "poll" \/ Waiting \/ Paused) /\ gone' = gone
  BY DEF Dispatch, netVars
<1>3. ConnectionOf(stream, o)
  BY DispatchConnection DEF ServerInv, StreamInv, StreamTypeOK
<1>4. o.closed \in BOOLEAN /\ o.opened \in BOOLEAN /\ o.threw \in BOOLEAN /\ deaf \in BOOLEAN
  BY DispatchWorks DEF OutcomeType, ServerInv, StreamInv, StreamTypeOK
<1>5. dbg' \in DbgType /\ (o.closed => dbg'.pause = FALSE)
  BY <1>1, DispatchDbg
<1>6. deaf' = (o.threw \/ (deaf /\ ~o.closed /\ ~o.opened))
  BY <1>1 DEF Hears
<1>7. CASE o.closed
  BY <1>1, <1>2, <1>3, <1>5, <1>7 DEF SessionMove, Held, ConnectionOf
<1>8. CASE o.opened /\ ~o.closed
  <2>1. stream.conn = None /\ pc # "loop" /\ ~o.threw
    BY <1>2, <1>3, <1>8 DEF ConnectionOf, Waiting, Paused
  <2>2. pc' # "loop" /\ ~deaf'
    BY <1>1, <1>6, <1>8, <2>1
  <2>3. QED
    BY <1>2, <2>1, <2>2 DEF SessionMove, Held
<1>9. CASE ~o.opened /\ ~o.closed
  <2>1. stream'.conn = stream.conn
    BY <1>1, <1>3, <1>9 DEF ConnectionOf
  <2>2. CASE o.threw
    BY <1>1, <1>2, <1>6, <2>1, <2>2 DEF SessionMove, Held
  <2>3. CASE ~o.threw
    <3>1. deaf' = deaf /\ pc' = pc
      BY <1>1, <1>4, <1>6, <1>9, <2>3
    <3>2. pc = "loop" => stream.conn # None
      BY <1>2 DEF Waiting, Paused
    <3>3. QED
      BY <1>2, <1>5, <2>1, <3>1, <3>2 DEF SessionMove, Held
  <2>4. QED
    BY <2>2, <2>3
<1>10. QED
  BY <1>4, <1>7, <1>8, <1>9

(* The notifications that begin and end a pause.                           *)
LEMMA AfterPollMoves ==
    ASSUME ServerInv, NEW far \in BOOLEAN, NEW found \in BOOLEAN, NEW holds \in BOOLEAN,
           AfterPoll(far, found, holds)
    PROVE  SessionMove
<1> DEFINE paused == [dbg EXCEPT !.pause = TRUE]
<1>1. pc = "poll" /\ gone' = gone
  BY DEF AfterPoll, netVars
<1>2. \/ pc' = "game" /\ stream' = stream /\ deaf' = deaf
      \/ /\ pc' = "loop"
         /\ \E o \in SendOutcomes(stream) :
              stream' = o.s /\ Hears(o) /\ dbg' = OnClose(paused, o.closed)
  BY DEF AfterPoll, past
<1>3. CASE pc' = "game" /\ stream' = stream /\ deaf' = deaf
  BY <1>1, <1>3 DEF SessionMove, Held
<1>4. ASSUME NEW o \in SendOutcomes(stream), pc' = "loop",
             stream' = o.s, Hears(o), dbg' = OnClose(paused, o.closed)
      PROVE  SessionMove
  <2>1. /\ o.closed \in BOOLEAN
        /\ o.closed => o.s.conn = None
        /\ ~o.closed => o.s = stream /\ stream.conn # None /\ deaf' = deaf
    BY <1>4, SendConnection DEF ServerInv, StreamInv, StreamTypeOK, Hears
  <2>2. paused \in DbgType /\ paused.pause = TRUE
    BY DEF ServerInv, ServerTypes, DbgType
  <2> HIDE DEF paused
  <2>3. CASE o.closed
    <3>1. dbg' = Unpause(paused)
      BY <1>4, <2>1, <2>2, <2>3, OnCloseFacts
    <3>2. dbg'.pause = FALSE
      BY <2>2, <3>1, UnpauseType
    <3>3. QED
      BY <1>1, <1>4, <2>1, <2>3, <3>2 DEF SessionMove, Held
  <2>4. CASE ~o.closed
    <3>1. dbg'.pause = TRUE
      BY <1>4, <2>1, <2>2, <2>4, OnCloseFacts
    <3>2. QED
      BY <1>1, <1>4, <2>1, <2>4, <3>1 DEF SessionMove, Held
  <2>5. QED
    BY <2>1, <2>3, <2>4
<1>5. QED
  BY <1>2, <1>3, <1>4

LEMMA ResumeMoves == ASSUME ServerInv, Resume PROVE SessionMove
<1>1. PICK o \in SendOutcomes(stream) : stream' = o.s /\ Hears(o)
  BY DEF Resume
<1>2. pc = "loop" /\ ~Paused /\ pc' = "game" /\ gone' = gone
  BY DEF Resume, netVars
<1>3. (o.closed => o.s.conn = None) /\ (~o.closed => o.s = stream /\ deaf' = deaf)
  BY <1>1, SendConnection DEF ServerInv, StreamInv, StreamTypeOK, Hears
<1>4. QED
  BY <1>1, <1>2, <1>3 DEF SessionMove, Held

(* Clients and kernel: the only step of theirs that shows is a Quit.       *)
LEMMA EnvSession ==
    ASSUME ServerInv, Env
    PROVE  [Session!SessionNext]_(Session!sessionVars)
<1>1. stream'.conn = stream.conn /\ deaf' = deaf /\ pc' = pc /\ dbg' = dbg
  BY EnvConnection DEF Env, serverVars
<1>2. CASE gone' = gone
  BY <1>1, <1>2 DEF Session!sessionVars
<1>3. CASE \E c \in Clients : c \notin gone /\ gone' = gone \cup {c}
  BY <1>1, <1>3 DEF Session!SessionNext, Session!Quit
<1>4. gone' = gone \/ \E c \in Clients : c \notin gone /\ gone' = gone \cup {c}
  BY DEF Env, Peers, Kernel, Connect, Leave, ClientSend, AcceptDone, Arrive, EndOfFile
<1>5. QED
  BY <1>2, <1>3, <1>4

LEMMA ServerStepIsSessionStep ==
    ASSUME ServerInv, ServerInv', [Next]_vars
    PROVE  [Session!SessionNext]_(Session!sessionVars)
<1>1. CASE Lua
  BY <1>1, LuaMoves, MoveIsSessionStep
<1>2. CASE Hook
  <2>1. CASE WaitDone
    BY <2>1, MoveIsSessionStep DEF WaitDone, streamVars, netVars, past, SessionMove, Held
  <2>2. CASE Dispatch
    BY <2>2, DispatchMoves, MoveIsSessionStep
  <2>3. CASE Resume
    BY <2>3, ResumeMoves, MoveIsSessionStep
  <2>4. CASE \E far, found, holds \in BOOLEAN : AfterPoll(far, found, holds)
    BY <2>4, AfterPollMoves, MoveIsSessionStep
  <2>5. CASE \E far \in BOOLEAN : ConditionFails(far)
    <3>1. pc' = "game" /\ UNCHANGED <<stream, gone, deaf>>
      BY <2>5 DEF ConditionFails, streamVars, netVars, past
    <3>2. QED
      BY <3>1, MoveIsSessionStep DEF SessionMove, Held
  <2>6. QED
    BY <1>2, <2>1, <2>2, <2>3, <2>4, <2>5 DEF Hook
<1>3. CASE Env
  BY <1>3, EnvSession
<1>4. CASE UNCHANGED vars
  BY <1>4 DEF vars, streamVars, netVars, past, serverVars, Session!sessionVars
<1>5. QED
  BY <1>1, <1>2, <1>3, <1>4 DEF Next

(* The server implements the safety part of DebugSession: one session at a *)
(* time, held only by its client, never handed over, over every order of   *)
(* failed sends, lost clients, errors, leftover operations and level loads.*)
THEOREM ServerKeepsSession == Spec => SessionKept
<1>1. Init => Session!SessionInit
  BY DEF Init, StreamInit, Session!SessionInit
<1>2. ServerInv /\ ServerInv' /\ [Next]_vars => [Session!SessionNext]_(Session!sessionVars)
  BY ServerStepIsSessionStep
<1>3. QED
  BY <1>1, <1>2, ServerInvariant, PTL DEF Spec, SessionKept, Session!SessionSafety
-----------------------------------------------------------------------------
(* The server keeps the promise of HookControl, whatever the stream does.  *)

LEMMA DetachLetsGo == ASSUME ServerInv, Detach PROVE Control!LetGo
BY DetachFacts DEF Control!LetGo

LEMMA LuaControl ==
    ASSUME ServerInv, ServerInv', Lua
    PROVE  [Control!ControlNext]_(Control!controlVars)
<1>1. CASE \E L \in LuaStates : NewState(L) \/ CloseState(L)
  <2>1. pc = "game" /\ UNCHANGED <<pc, event, armed>> /\ (Detach \/ UNCHANGED dbg)
    BY <1>1 DEF NewState, CloseState
  <2>2. CASE Detach
    <3>1. Control!AskRunning
      BY <2>1, <2>2, DetachLetsGo DEF Control!AskRunning, Phase
    <3>2. QED
      BY <3>1 DEF Control!ControlNext
  <2>3. CASE UNCHANGED dbg
    BY <2>1, <2>3 DEF Control!controlVars, Phase
  <2>4. QED
    BY <2>1, <2>2, <2>3
<1>2. CASE \E L \in LuaStates : LuaPause(L)
  <2>1. pc = "game" /\ UNCHANGED <<pc, event, armed>> /\ dbg' = Pause(dbg)
    BY <1>2 DEF LuaPause, luaVars
  <2>2. dbg'.pause = dbg.pause /\ dbg'.step = "STEP_PAUSE"
    BY <2>1, UnpauseType DEF ServerInv, ServerTypes
  <2>3. Control!AskRunning
    BY <2>1, <2>2 DEF Control!AskRunning, Phase
  <2>4. QED
    BY <2>3 DEF Control!ControlNext
<1>3. CASE \E ev \in {"line", "call"} : HookEnter(ev)
  <2>1. pc = "game" /\ pc' \in {"wait", "poll"} /\ UNCHANGED <<dbg, armed>>
    BY <1>3 DEF HookEnter
  <2>2. Control!Enter
    BY <2>1 DEF Control!Enter, Phase
  <2>3. QED
    BY <2>2 DEF Control!ControlNext
<1>4. QED
  BY <1>1, <1>2, <1>3 DEF Lua

(* A request, and the end of the connection it may be answered with, or an *)
(* error in place of the answer.                                           *)
LEMMA DispatchControl ==
    ASSUME ServerInv, ServerInv', Dispatch
    PROVE  Control!Ask \/ Control!Break
<1>1. PICK o \in DispatchOutcomes(stream) :
        /\ IF o.req = None
             THEN dbg' = OnClose(dbg, o.closed)
             ELSE \E d \in Execute(dbg, o.req.cmd) : dbg' = OnClose(d, o.closed)
        /\ pc' = IF o.threw THEN "game" ELSE pc
        /\ o.threw => armed' = armed
  <2>1. PICK o \in DispatchOutcomes(stream) :
          /\ IF o.req = None
               THEN dbg' = OnClose(dbg, o.closed) /\ armed' = armed
               ELSE /\ armed' \in IF o.threw THEN {armed} ELSE Breakpoints(o.req.cmd)
                    /\ \E d \in Execute(dbg, o.req.cmd) : dbg' = OnClose(d, o.closed)
          /\ pc' = IF o.threw THEN "game" ELSE pc
    BY DEF Dispatch
  <2>2. QED
    BY <2>1
<1>2. /\ o.closed \in BOOLEAN /\ o.threw \in BOOLEAN /\ o.req \in Request \cup {None}
      /\ o.threw => ~o.closed
  BY DispatchWorks, DispatchConnection
     DEF ServerInv, StreamInv, StreamTypeOK, OutcomeType, ConnectionOf
<1>3. (pc = "poll" \/ Waiting \/ Paused) /\ UNCHANGED event
  BY DEF Dispatch
<1>4. /\ Phase = "tick" \/ (Phase = "loop" /\ dbg.pause)
      /\ Phase' = IF o.threw THEN "run" ELSE Phase
  BY <1>1, <1>3 DEF Waiting, Paused, Phase
<1>5. armed' \in BOOLEAN /\ dbg \in DbgType
  BY DEF ServerInv, ServerTypes
<1>6. CASE o.threw
  <2>1. dbg'.pause = dbg.pause /\ dbg'.step \in {dbg.step, "STEP_PAUSE"}
    BY <1>1, <1>6, DispatchDbg
  <2>2. QED
    BY <1>1, <1>3, <1>4, <1>6, <2>1 DEF Control!Break
<1>7. CASE ~o.threw
  <2>1. CASE o.closed
    <3>1. dbg'.pause = FALSE /\ dbg'.step = "STEP_NONE"
      BY <1>1, <2>1, DispatchDbg
    <3>2. Control!LetGo
      BY <3>1 DEF Control!LetGo
    <3>3. Phase' = Phase /\ event' = event
      BY <1>3, <1>4, <1>7
    <3>4. Control!Ask
      BY <1>4, <1>5, <3>2, <3>3 DEF Control!Ask
    <3>5. QED
      BY <3>4
  <2>2. CASE ~o.closed /\ o.req = None
    <3>1. dbg' = dbg
      BY <1>1, <2>2, DispatchDbg
    <3>2. QED
      BY <1>3, <1>4, <1>5, <1>7, <3>1 DEF Control!Ask
  <2>3. CASE ~o.closed /\ o.req # None
    <3>1. o.req.cmd \in Requests
      BY <1>2, <2>3, ServerAssumption DEF Request
    <3>2. PICK d \in Execute(dbg, o.req.cmd) : dbg' = OnClose(d, o.closed)
      BY <1>1, <2>3
    <3>3. d \in DbgType
      BY <1>5, <3>1, CommandFacts
    <3>4. dbg' = d
      BY <1>2, <2>3, <3>2, <3>3, OnCloseFacts
    <3>5. d \in {StepBy(dbg, "STEP_OVER"), StepBy(dbg, "STEP_IN"), StepBy(dbg, "STEP_OUT"),
                 Unpause(dbg), Pause(dbg), dbg}
      BY <3>1 DEF Execute, Requests
    <3>6. \/ d.pause = FALSE /\ d.step \in {"STEP_NONE", "STEP_OVER", "STEP_IN", "STEP_OUT"}
          \/ d.pause = dbg.pause /\ d.step \in {dbg.step, "STEP_PAUSE"}
      <4>1. CASE d \in {Unpause(dbg), Pause(dbg), dbg}
        BY <1>5, <4>1, UnpauseType
      <4>2. CASE \E type \in {"STEP_OVER", "STEP_IN", "STEP_OUT"} : d = StepBy(dbg, type)
        <5>1. PICK type \in {"STEP_OVER", "STEP_IN", "STEP_OUT"} : d = StepBy(dbg, type)
          BY <4>2
        <5>2. d.pause = FALSE /\ d.step = type
          BY <5>1 DEF StepBy
        <5>3. QED
          BY <5>2
      <4>3. QED
        BY <3>5, <4>1, <4>2
    <3>7. QED
      BY <1>3, <1>4, <1>5, <1>7, <3>4, <3>6
         DEF Control!Ask, Control!LetGo, Control!LineSteps, Control!NextLine, Control!SomeLine
  <2>4. QED
    BY <1>2, <2>1, <2>2, <2>3
<1>8. QED
  BY <1>2, <1>6, <1>7

(* The hook left by the condition of a breakpoint.                         *)
LEMMA ConditionControl ==
    ASSUME ServerInv, NEW far \in BOOLEAN, ConditionFails(far)
    PROVE  Control!Break
<1>1. /\ pc = "poll" /\ pc' = "game" /\ event = "line" /\ armed
      /\ UNCHANGED <<event, armed>>
      /\ dbg' = [dbg EXCEPT !.pause = dbg.pause \/ StepStops(dbg.step, far)]
  BY DEF ConditionFails
<1>2. /\ dbg'.step = dbg.step
      /\ dbg'.pause = (dbg.pause \/ StepStops(dbg.step, far)) /\ dbg.pause \in BOOLEAN
  BY <1>1 DEF ServerInv, ServerTypes, DbgType
<1>3. Phase = "tick" /\ Phase' = "run"
  BY <1>1 DEF Phase
<1>4. CASE dbg'.pause = dbg.pause
  BY <1>1, <1>2, <1>3, <1>4 DEF Control!Break
<1>5. CASE dbg'.pause # dbg.pause
  <2>1. dbg'.pause = TRUE /\ dbg.step \in {"STEP_IN", "STEP_PAUSE", "STEP_OVER", "STEP_OUT"}
    BY <1>2, <1>5 DEF StepStops
  <2>2. QED
    BY <1>1, <1>2, <1>3, <2>1
       DEF Control!Break, Control!LineSteps, Control!NextLine, Control!SomeLine
<1>6. QED
  BY <1>4, <1>5

LEMMA AfterPollControl ==
    ASSUME ServerInv, NEW far \in BOOLEAN, NEW found \in BOOLEAN, NEW holds \in BOOLEAN,
           AfterPoll(far, found, holds)
    PROVE  Control!Stop \/ Control!Pass
<1> DEFINE paused == [dbg EXCEPT !.pause = TRUE]
           stops == \/ dbg.pause
                    \/ event = "line" /\ StepStops(dbg.step, far)
                    \/ event = "line" /\ found /\ holds
<1>1. pc = "poll" /\ UNCHANGED <<event, armed>> /\ (found => armed)
  BY DEF AfterPoll
<1>2. IF stops
        THEN /\ pc' = "loop"
             /\ \E o \in SendOutcomes(stream) : dbg' = OnClose(paused, o.closed)
        ELSE pc' = "game" /\ UNCHANGED dbg
  BY DEF AfterPoll
<1>3. /\ StepStops(dbg.step, far) =>
           dbg.step \in {"STEP_IN", "STEP_PAUSE", "STEP_OVER", "STEP_OUT"}
      /\ ~StepStops(dbg.step, far) => dbg.step \notin {"STEP_IN", "STEP_PAUSE"}
  BY DEF StepStops
<1>4. paused \in DbgType /\ paused.pause = TRUE /\ paused.step = dbg.step
  BY DEF ServerInv, ServerTypes, DbgType
<1> HIDE DEF paused
<1>5. CASE stops
  <2>1. PICK o \in SendOutcomes(stream) : dbg' = OnClose(paused, o.closed)
    BY <1>2, <1>5
  <2>2. o.closed \in BOOLEAN
    BY SendConnection DEF ServerInv, StreamInv, StreamTypeOK
  <2>3. \/ dbg'.pause = FALSE /\ dbg'.step = "STEP_NONE"
        \/ dbg'.pause = TRUE /\ dbg'.step = dbg.step
    <3>1. CASE o.closed
      <4>1. dbg' = Unpause(paused)
        BY <1>4, <2>1, <2>2, <3>1, OnCloseFacts
      <4>2. QED
        BY <1>4, <4>1, UnpauseType
    <3>2. CASE ~o.closed
      <4>1. dbg' = paused
        BY <1>4, <2>1, <2>2, <3>2, OnCloseFacts
      <4>2. QED
        BY <1>4, <4>1
    <3>3. QED
      BY <2>2, <3>1, <3>2
  <2>4. dbg.pause \/ (event = "line" /\ (dbg.step \in Control!LineSteps \/ armed))
    BY <1>1, <1>3, <1>5 DEF Control!LineSteps, Control!NextLine, Control!SomeLine
  <2>5. Phase = "tick" /\ Phase' = "loop"
    BY <1>1, <1>2, <1>5 DEF Phase
  <2>6. Control!Stop
    BY <1>1, <2>3, <2>4, <2>5 DEF Control!Stop, Control!LetGo
  <2>7. QED
    BY <2>6
<1>6. CASE ~stops
  <2>1. Phase = "tick" /\ Phase' = "run" /\ dbg' = dbg
    BY <1>1, <1>2, <1>6 DEF Phase
  <2>2. Control!Pass
    BY <1>1, <1>3, <1>6, <2>1 DEF Control!Pass, Control!NextLine
  <2>3. QED
    BY <2>2
<1>7. QED
  BY <1>5, <1>6

(* The loop is left only when pause_ is gone: a client that is lost takes  *)
(* it along, so ~Paused says no less than that.                            *)
LEMMA ResumeControl == ASSUME ServerInv, Resume PROVE Control!Resume
<1>1. PICK o \in SendOutcomes(stream) :
        dbg' = [OnClose(dbg, o.closed) EXCEPT !.pause = @ /\ OnClose(dbg, o.closed).step # "STEP_NONE"]
  BY DEF Resume
<1>2. pc = "loop" /\ ~Paused /\ pc' = "game" /\ UNCHANGED <<event, armed>>
  BY DEF Resume
<1>3. dbg \in DbgType /\ dbg.pause = FALSE
  BY <1>2 DEF ServerInv, ServerTypes, DbgType, PauseHasClient, Paused
<1>4. o.closed \in BOOLEAN
  BY SendConnection DEF ServerInv, StreamInv, StreamTypeOK
<1>5. PICK d \in DbgType : /\ d = OnClose(dbg, o.closed)
                           /\ d.pause = FALSE /\ d.step \in {dbg.step, "STEP_NONE"}
                           /\ o.closed => d.step = "STEP_NONE"
                           /\ ~o.closed => d.step = dbg.step
  BY <1>3, <1>4, OnCloseFacts, UnpauseType
<1>6. dbg'.pause = FALSE /\ dbg'.step = d.step
  BY <1>1, <1>5 DEF DbgType
<1>7. Control!LetGo \/ UNCHANGED <<dbg.pause, dbg.step>>
  BY <1>3, <1>4, <1>5, <1>6 DEF Control!LetGo
<1>8. QED
  BY <1>2, <1>3, <1>7 DEF Control!Resume, Phase

LEMMA ServerStepIsControlStep ==
    ASSUME ServerInv, ServerInv', [Next]_vars
    PROVE  [Control!ControlNext]_(Control!controlVars)
<1>1. CASE Lua
  BY <1>1, LuaControl
<1>2. CASE WaitDone
  <2>1. Phase' = Phase /\ UNCHANGED <<event, dbg, armed>>
    BY <1>2 DEF WaitDone, Phase
  <2>2. QED
    BY <2>1 DEF Control!controlVars
<1>3. CASE Dispatch
  BY <1>3, DispatchControl DEF Control!ControlNext
<1>4. CASE \E far, found, holds \in BOOLEAN : AfterPoll(far, found, holds)
  BY <1>4, AfterPollControl DEF Control!ControlNext
<1>5. CASE Resume
  BY <1>5, ResumeControl DEF Control!ControlNext
<1>6. CASE \E far \in BOOLEAN : ConditionFails(far)
  BY <1>6, ConditionControl DEF Control!ControlNext
<1>7. CASE Env \/ UNCHANGED vars
  <2>1. UNCHANGED <<pc, event, dbg, armed>>
    BY <1>7 DEF Env, vars, serverVars
  <2>2. QED
    BY <2>1 DEF Control!controlVars, Phase
<1>8. QED
  BY <1>1, <1>2, <1>3, <1>4, <1>5, <1>6, <1>7 DEF Next, Hook

(* The server implements HookControl, as the debugger itself does: clients *)
(* that come and go, failing sends and level loads neither stop the game   *)
(* without a reason nor let it go unasked, and an error that breaks the    *)
(* hook off leaves standing what the next hook stops for.                  *)
THEOREM ServerImplementsControl == Spec => ControlImplemented
<1>1. Init => Control!ControlInit
  BY DEF Init, Control!ControlInit, Phase
<1>2. ServerInv /\ ServerInv' /\ [Next]_vars => [Control!ControlNext]_(Control!controlVars)
  BY ServerStepIsControlStep
<1>3. QED
  BY <1>1, <1>2, ServerInvariant, PTL DEF Spec, ControlImplemented, Control!ControlSpec
=============================================================================
