# DieselLuaDebugger: verification project

DieselLuaDebugger is a DLL that is loaded into a game built on the Diesel
engine. It attaches a remote Lua debugger (LRDB) to the Lua states of the game,
lets a debugger client connect over TCP, and replaces the game's Lua bytecode by
decompiled text files that breakpoints can refer to. This directory holds TLA+
models of it, their TLC runs, and theorems that TLAPS checks.

Paths below are relative to the repository; `LRDB/` is `dependencies/LRDB/`.

## Parts of the system

| part | code | state | operations | correct if |
|---|---|---|---|---|
| TCP command stream | `LRDB/include/lrdb/command_stream/socket.hpp` | socket, acceptor, outstanding asio operations, `read_buffer_` | close, reconnect, accept and read handlers, `send_message`, `poll`, `run_one` | there is always work; requests run once and in order; a closed socket comes back |
| standard stream | `LRDB/include/lrdb/command_stream/stdstream.hpp` | reader thread, `command_buffer_`, mutex, condition variable, `end_` | `read_thread`, `push_message`, `pop_message`, `wait_message`, `poll`, `run_one`, `close` | each request handed over once; no lost wake-up; close returns |
| debug server | `LRDB/include/lrdb/basic_server.hpp` | `wait_for_connect_`, the stream, the debugger | callbacks of the stream, tick and pause handlers, one function per request, `exit` | one session; only its client holds the game; clients are told what is the case |
| debugger | `LRDB/include/lrdb/debugger.hpp` | `state_`, `pause_`, `step_type_`, `step_callstack_size_`, breakpoints | Lua hook, pause, step*, breakpoints, evaluation, Lua data to JSON | steps end where they should; hit counts mean hits; the Lua stack is left as found |
| messages | `LRDB/include/lrdb/message.hpp`, `LRDB/node/src/JsonRpc.ts` | | tests, parsers, serialisers | what one side writes the other understands |
| Node client | `LRDB/node/src` | `seqId`, listeners, pending promises, `currentStatus_`, the adapter | calls, `end`, events of the adapters | each promise settled once, by its own answer |
| game host | `src/main.cpp` | the one debug server, command line flags | hooks on interpreter construction and destruction, `__lrdb_pause` | the hook is in the live, attached state only |
| Lua loading | `src/main.cpp`, `src/lua_decompiler.cpp` | files under `./lua`, digest file, two flags | start-up, `lua_load` hook, decompilation | no Lua of another version unnoticed; edits survive |
| the rest | `src/hash.cpp`, `src/dieselluaimpl.cpp`, other hosts, `version/proxy.cpp`, build scripts | | | see "Not modelled" |

How they interact. The game calls Lua; Lua calls the hook
(`debugger::hook`). The hook calls the tick handler of the server, which waits
for the first client if asked to and then polls the stream; the stream calls
back into the server, which executes requests on the debugger. If the hook then
decides to pause, the server's pause handler notifies the client and runs the
stream's handlers one at a time until a request, or the loss of the client, ends
the pause. Everything of this runs on the game's thread; only the kernel and the
clients are concurrent with it. `close()` calls back `debugger::unpause()`, and
a failed send calls `close()`, so a notification can end the pause it announces.
An error raised while a request is executed leaves all of these calls at once,
up to the nearest `pcall` of the game.
Evaluations and requests for variables use the stack of the hooked Lua state
while the game waits. With the standard stream in place of TCP, requests come
from a second thread through a queue. On the other side the Node client keeps a
promise and two listeners for each call.

What is hard: operations of asio that outlive the session that started them;
failures inside handlers, and errors that leave them; a client that disappears while it holds the game; Lua
states that are created and destroyed at each level load; steps measured by
stack size over coroutines; a stack with twenty slots under recursive
conversions; a thread that sleeps while another one queues; listeners that
remove themselves from the array being walked; files that outlive the process,
crashes and game updates. The list with the line of each is `hazards` in
`PROJECT.json`.

## Modules

* `SocketStream`: the stream, asio's operations, the kernel and the clients.
  The member functions are operators on the record `stream`; a handler returns
  the *outcomes* it may have, each with the next state and what the server above
  sees of it (closed, opened, a request, an error that leaves the handler).
  `deaf` is history: a handler was left by an error, so the session is not read
  any more, until it ends or another begins. Actions: `Connect`, `ClientSend`,
  `Leave` (clients), `AcceptDone`, `Arrive`, `EndOfFile` (kernel), `RunOne`
  (one handler), `HostSend` and `HostExit` (calls of the server).
* `LrdbServer` extends it with the server, the pause and step state of the
  debugger and the game's Lua states, and uses the outcomes in its own actions:
  `NewState`, `CloseState`, `LuaPause` (game), `HookEnter`, `WaitDone`,
  `Dispatch`, `AfterPoll`, `Resume` (one hook call, in order). Two actions leave
  the hook early: `Dispatch` of a request that raises an error, and
  `ConditionFails`. Changing
  the attached state is `Reset`, which moves the hook (`UnsetHook`, `SetHook`).
  Call depth and breakpoints are choices here.
* `DebugSession`: the promise to a user, in six actions: one session at a time,
  held only by its client, never handed over, and let go when the client is gone,
  unless an error has made the session unheard.
  `LrdbServer` implements it (`SessionKept`, `SessionImplemented`) under the
  mapping `session <- stream.conn`, `held <- the pause loop is waiting`,
  `unheard <- a session that is deaf`.
* `Debugger`: the hook in detail: call stacks, coroutines, steps, breakpoints
  with conditions and hit counts, and the paths they match (`PathMatch`,
  with the handler the game host sets). The client is a source of requests here.
  `RequestFails` and `ConditionFails` leave the hook by an error, which unwinds
  frames and coroutines up to some `pcall` (`Unwind`).
* `HookControl`: what the hook promises to those who ask it to stop the game,
  without stacks, breakpoints or sockets: the game stops only for a reason,
  passes no line it is to stop at, and a stop is ended only by a request or the
  loss of the client. An error may break the hook off (`Break`); what was to
  happen then stands, and the next hook stops a game that was to wait. Both
  `Debugger` and `LrdbServer` implement it (`ControlImplemented`), each under a
  mapping of its own. The two modules look
  at the same hook from two sides, the one leaving clients open and the other
  call stacks and breakpoints; `HookControl` is what they agree on.
* `EvalStack`: the Lua stack during the requests of a pause: `eval`,
  `get_local_variable`, `get_upvalues`, `get_global`, and `to_json`, whose
  recursion is a sequence of activations. One action per call that pushes or
  pops; a slot carries what it is there for. The condition of a breakpoint is
  an evaluation like those of `eval`, on the same stack.
* `StdStream`: the reader thread, the Lua thread and the peer. Each critical
  section under the mutex is one action. The way the input ends (after a line,
  or within one) is the peer's choice.
* `JsonRpc`: the tests, parsers and serialisers of both sides on objects of
  names and values; used by `RpcClient`.
* `RpcClient`: calls, listeners, promises and status of the client, both
  adapters, the connection and the server's side of requests, answers and
  notifications. `RpcCalls` is what a user is promised of the calls; `RpcClient`
  implements it (`CallsImplemented`) under the mapping
  `executed <- the set of ids executed`.
* `LuaCache`: start-up, digest, options, `lua_load` hook, decompiled files,
  crashes, updates and edits, and files that cannot be written.
* `*_proofs`: theorems. `MC*`: instances for TLC.

`PROJECT.json` maps each definition to the lines it stands for. Definitions
called mutants in a comment are faulty variants; they are used by no
specification and show that a property can fail.

### Decisions about the environment

* asio gives no order between handlers of different operations, so any completed
  operation may be dispatched next. A handler is one step: there is one thread.
* `async_read_until` reads zero bytes first when the buffer has a line
  (`read_until.hpp`), and a zero-byte read succeeds on a closed socket too; this
  is how a line of a lost session may still be executed.
* An accept that completes while the socket is open fails with `already_open`
  and drops the new connection.
* A write to a client that has left may succeed or fail. Bytes not yet received
  may be lost when a client leaves.
* A request line is two pieces, the second with the line end: enough to tell a
  whole request, a fragment, and a fragment with a request behind it.
* Each client connects once; a reconnecting user is another client.
* Lua never calls the hook within the hook. What Lua code does is a choice.
* Two kinds of error leave a handler, and with it `poll` or the pause handler and
  the hook. `add_breakpoint`, `clear_breakpoints`, `eval` and `get_global` look
  into their parameters before they know that there are any, and picojson throws
  a `std::runtime_error` (`PICOJSON_ASSERT`); LuaJIT passes it on as a Lua error.
  And `to_json` calls `__tostring` and `__totable`, for an answer or for the
  result of a breakpoint's condition, unprotected. The game is taken to have a
  `pcall` further out; without one it ends, and nothing is left to be said. In
  the models the request is not answered, `start_receive_commands()` behind
  `on_data` is not reached, no "running" is sent, and `pause_` and `step_type_`
  stay as they are (`Failing` names the requests that may do so, `get` being any
  request for variables). What destructors a Lua error passes over would have
  undone in asio (its count of work, its stack of calls) is not modelled, nor
  whether an `io_service` that has stopped for want of work runs handlers again
  once there is some: it is taken to.
* A hit condition is an operator and a number, whose evaluation raises no error.
  The condition of a breakpoint does not call `__lrdb_pause`; code evaluated for
  a request may.
* `json::parse` ignores what is behind a whole value, so a line that begins with
  a request may be taken for that request, whatever follows (`Parsed`).
* In `EvalStack` the heap is a constant: a chunk evaluates to any of its values,
  or fails. The stack is that of `state_`, which `get_global` uses as well. An
  error a metamethod raises leaves the hook; the next pause begins with an empty
  part of the stack.
* In `StdStream` a line is known by what follows the prefix: a character and a
  request, the request at once, one character, nothing, or no prefix at all. A
  condition variable may wake its waiter for no reason.
* In `RpcClient` `HighWater` is the number of messages in the socket's buffer at
  which `write()` returns `false`, having taken the message. A failing connection
  may lose requests on their way. A child process reports no errors.
* In `LuaCache` each version of the game has Lua of its own, which is what the
  comment at `src/main.cpp:294` assumes; the decompiler (a submodule that is not
  in the tree) makes a whole file of bytecode and nothing useful of plaintext. A
  decompiled file may fail to be created or filled; the digest file, a few bytes
  beside the executable, may not.

## Runs

| run | bounds | shows |
|---|---|---|
| `stream` | 2 clients, 2 requests each, which may fail, 4 operations | type, `WorkRemains`, `InOrder`, and `Recovers` under fairness |
| `stream_answered` | 2 clients, 1 request each, 3 operations | **violated** `AllAnswered` |
| `server` | 2 clients, 2 Lua states, `step` and `eval`, which may fail, 3 operations | type, `ViewInSync`, `HookWhereAttached`, `FirstDebuggerAwaited`, `SessionKept` |
| `server_requests` | 1 client, all requests, four of which may fail, 4 operations | `PauseHasClient`, `NothingLeaks`, `NoExceptionReason` |
| `server_live` | 2 clients, 1 Lua state, `continue` and `get`, which may fail | `GoneClientLetsGo`, `StreamImplemented`, `SessionImplemented` |
| `debugger_step` | 2 coroutines, depth 3, errors of requests | `StepBase`, `StepExact` |
| `debugger_break` | 2 breakpoints, 3 visits, every operator, errors of requests and conditions | type, `HitsHonoured`, `ControlImplemented` |
| `eval` | heap of 6 values, depths 0 to 2, 2 results, 8 failures, 10 nested calls | type, `Balanced`, `PopsItsOwn`, `HighBounded`, `Answers` |
| `stdstream` | 3 lines, an unended line read again up to 4 messages | type, `ExactlyOnce`, `NoSleeper`, `PauseServes`, `CloseReturns` |
| `rpc` | 3 calls of three kinds, buffer full at 3 messages | type, `ListenersExact`, `NothingVanishes`, `StatusTold`, `CallsImplemented`, `Settled` |
| `cache` | 2 game chunks, 1 plaintext chunk, 2 versions | type, `ForcedRunIsCurrent`, `StaleHasExcuse`, `EditsKept` |
| `cache_current` | the same | **violated** `LoadedIsCurrent` |

Only an error that leaves a handler excuses the properties of the stream, the
session and the pause, and each names it: `~deaf` in `WorkRemains`, `Recovers`,
`ViewInSync` and `GoneClientLetsGo`, `deaf` in `PauseHasClient` and
`NoExceptionReason`, `unheard` in `DebugSession`, `Break` in `HookControl`, and
the cause `"error"` in `StepExact`. A session that begins, ends or is lost later
has no excuse left. What needs none even then: a pause is always told to a
connected client, requests run once and in order, `pause_` without a client has
an explanation, nothing leaks to the next Lua state, and a step in progress keeps
the stack size of its own request.

Why these bounds are enough to be interesting.

* Two clients are the least for a session that meets operations of another one;
  two requests the least for an order and for a fragment followed by a line.
  `MaxOps` bounds the operations outstanding when the host is about to add more;
  the code has no such bound (each pause without a client leaves one more
  accept), and the theorems do not use it.
* Two Lua states are the least for a level change with an old state alive.
* Three frames and one coroutine have an outer, an equal and an inner frame of
  the step. The visits exceed the hit condition's number by one.
* The heap of `MCEvalStack` has a table that holds itself, an array, a userdata
  whose `__totable` gives the array, one whose `__tostring` raises, and a
  function; two levels of depth are the least for a level between others, and
  two results the least for a stack that grows by them. Compiling and calling a
  chunk may use six slots anyway, so it takes more than six errors left below a
  request to tell a height that is measured from them from one that is not:
  hence eight failures.
* Three lines are one taken, one queued and one held by the reader.
* Three pending calls are the least at which an error leaves one listener
  between two that are called; with the buffer full at the third message both
  a taken and a refused call occur.
* Two versions allow an update and a step back.

Deadlock is not checked where clients may stop, the game may be idle, the user
does nothing more or a bound ends the run; the two debugger configurations
check it.

Violated runs are disagreements between the code and its own comments or tests;
`findings` in `PROJECT.json` quotes each.

* `stream_answered`: bytes of a lost session stay in `read_buffer_`, so the first
  request of the next client is no JSON and is dropped unanswered.
* `cache_current`: the digest is renewed before the files are, so a file the
  first run after an update does not load is used, old, by a later run.

Seen while modelling, and not promised otherwise by the repository:

* An error that leaves a handler (see above) leaves its session deaf: the client
  is connected, its requests are not read, its leaving is not noticed until a
  send fails, and it is not told "running" while the game goes on. `pause_`
  stands, so the next hook of the game pauses again, with the reason "exception"
  if the pause was a breakpoint's; if the client is still there that pause has
  nobody to end it.
* An accept left over from an unattended pause lets a second client end the
  session of the first, although nobody is handed that session.
* Lua states set up after the first debugger has connected do not wait for one.
* A step that stops on a line with a breakpoint is reported as "breakpoint" even
  when the condition of that breakpoint was false; of several breakpoints on a
  line only the first match counts the visit.
* A run that forces decompilation hands plaintext chunks to the decompiler too.
  A crash between creating and filling a file leaves an empty one, which
  unforced runs load.
* `luaL_getmetafield`, which the DLL brings itself, returns 1 for a field it
  finds, where `to_json` expects the type of the field: `__name` is never used.
* `sizeof` of the prefix counts its zero byte, so the character behind the
  prefix is dropped, and a line that is only the prefix throws out of the reader
  thread. After an input that ends within a line, the last request is queued
  again and again.
* `close()` of the standard stream blocks the Lua thread until the peer writes
  another line or ends its output, and the reader is gone after it.
* On an error the client rejects every other pending call: `emit` walks over the
  array its listeners leave. A write that reports a full buffer rejects a call
  whose request still goes out. If the server closes the connection, pending
  promises stay pending.

### Fairness

* `SocketStream`: weak fairness of the dispatching of completed operations (the
  game keeps calling `poll` or `run_one`) and of the kernel.
* `LrdbServer`: weak fairness of the hook's own steps, as the game thread does
  not stop inside the hook, and of the kernel. The game may never call the hook
  again. That a client that is gone is noticed relies on TCP delivering the end
  of its stream, and on the session still being read (`~deaf`).
* `EvalStack`: weak fairness of the handler, which is straight-line code of the
  game's thread.
* `StdStream`: weak fairness of each step of the reader, of the pause loop and
  of the join: both threads are scheduled. The peer need not write or end.
* `RpcClient`: a connection is made or fails, bytes are carried, Node runs its
  event loop, and the server serves requests, greets and reports the end of a
  pause.

Nothing is assumed of clients, users or Lua code, and nothing of `Debugger` and
`LuaCache`, which have no liveness property.

## Proofs

All theorems hold for every value of the constants under the named assumptions
(`StreamAssumption`, `ServerAssumption`, `DebuggerAssumption`,
`CacheAssumption`, `RpcAssumption`, `StdStreamAssumption`, `EvalAssumption`),
which TLC evaluates in the runs. One theorem, `StackHighBounded`, has a
hypothesis besides, `ShortChains`.

* `SocketStream_proofs`: `StreamInv`, the type and `WorkRemains`, is inductive
  for `StreamStep`, which has no bound on operations; a step that makes the
  stream deaf owes nothing, one that opens or loses a session pays the debt. Each operator has a lemma
  on the outcomes it returns; the action lemmas combine them. `AlwaysInOrder`
  needs to know where the pieces of each client are: in the buffer, in chunks
  that have been received, and on the wire, in this order. Each piece has a key;
  `Tidy` says that the keys of one client rise along that list and are beyond
  those of its executed requests. Taking a line, appending a chunk, cutting the
  wire and losing a session keep it, since they only drop pieces or move them
  towards the front.
* `LrdbServer_proofs`: each step of the server is a step of the stream
  (`ServerImplementsStream`), so the stream's invariants carry over. The server's
  own properties are one inductive invariant, `ServerInv`: none of them is
  inductive alone. `ViewInSync` needs to know that a pause loop without a client
  has ended its pause, `NoExceptionReason` that `pause_` is set at a hook's entry
  only with a `step_type_` that explains it or after an error (`PauseHasClient`),
  `NothingLeaks` that the attached state has met its first hook whenever the
  hook is under way, `HookWhereAttached` that a hook call
  in progress belongs to an attached state (`HookInv`). `ServerKeepsSession` is
  the refinement of `DebugSession`, without its fairness: each step ends, begins,
  holds, releases or fails a session, or none of these (`SessionMove`); that a held
  session has a client comes from `PauseHasClient`. `ServerImplementsControl` is
  the refinement of `HookControl`. The pause loop ends when `pause_` is gone or
  the client is; by `PauseHasClient` the second never happens without the first,
  so that leaving the loop is an abstract `Resume`, which asks for `~pause`,
  unless an error leaves it, which is a `Break`.
* `Debugger_proofs`: `StepBase` with the types of stacks and debugger state is
  inductive (`StepInv`); an error keeps it because it leaves `pause_`, and with it
  the overwritten size, as it is. `StepExact` follows step by step. `BreakInv` adds the
  breakpoints: `HitsHonoured` is kept by one more hit because of what each
  operator promises of `k + 1` hits against `k`. `DebuggerImplementsControl`
  needs, besides the types, that a line neither adds nor drops a breakpoint and
  that only one that is there asks for a pause (`LineKeepsArmed`); an error is a
  `Break` (`RequestFailsControl`, `ConditionFailsControl`).
* `EvalStack_proofs`: `StackInv` says how the slots of nested calls of `to_json`
  lie (`Nested`) above those of the request (`Base`). `Balanced` and
  `PopsItsOwn` are read off it. `HighBounded` bounds the highest slot ever used,
  of which `StackInv` says nothing; its invariant `LowInv` gives every
  activation its share: where its frame ends plus three slots for each level of
  depth still to go stay within the request's `Budget` (`Room`). A table takes
  a key and a value per level and passes one level less on, which keeps the
  sum. What a metamethod returns is converted with the same depth and one slot
  higher, so `Room` allows one slot there, once: `ShortChains` assumes that what
  is returned is no userdata with such a metamethod again. The code does not
  rule that out: each further link of such a chain takes a slot more, and a
  `__totable` that returns its own userdata makes `to_json` call itself without
  end, so the bound is false there. The heap of `MCEvalStack` satisfies it.
* `StdStream_proofs`: `StdInv` is the type, `ExactlyOnce` and `NoSleeper`, which
  are inductive together.
* `RpcClient_proofs`: `RpcInv` has the types, ids in rising order along every
  queue (`Order`), what is known of a call from where its request or answer is
  (`Known`), and the listeners (`Listeners`). The refinement of `RpcCalls`
  (`CallsAlwaysImplemented`) follows from it. `NothingEverVanishes` needs, in
  addition, where the request or the answer of each pending call is (`Carried`),
  and that each side understands what the other writes. `StatusAlwaysTold` is
  about an empty connection; what is inductive is `Heard`: the last notification
  under way, if there is one, or else the client's status, is what the server
  has said last.
* `LuaCache_proofs`: `ForcedRunIsCurrent` needs that the file being read in a
  forced run has just been written (`FreshFile`); one that could not be written
  is in `refused`.
  `StaleHasExcuse` is not inductive, because an update changes the executable at
  once; `OldHasExcuse` compares files with the digest instead, which only a
  start changes. `EditsKept` needs that the process is in the middle of a file
  only if it was to be decompiled (`Decompiling`).

Every safety invariant the passing runs check, and every refinement's safety
part, is a theorem. Only model-checked: all liveness (`Recovers`,
`GoneClientLetsGo`, the fairness part of `SessionImplemented`, `Settled`,
`PauseServes`, `CloseReturns`, `Answers`), which is out of the prover's reach, and
the violated properties, which are false.

## Not modelled, and why

* The contents of answers (call stacks, values of variables, texts), apart from
  what producing them does to the Lua stack, and the text of JSON. In particular
  an evaluation that fails with an empty error, and a negative frame number, are
  hazards no property covers.
* `push_json` and the setters of variables, which no request uses.
* Hashing (`hash.cpp`, `diesel.hpp`): a pure 64-bit function and a map filled
  once; TLC's integers have 32 bits.
* `FindPattern` and the table of functions found with it: a search over the
  image of a game that is not in the tree, done once before Lua runs. `__lrdb_pause`
  with an argument, which takes the argument for the server.
* The Lua module, standalone interpreter and WebAssembly hosts, which the game
  does not use; the WebAssembly host of the client, which starts a process.
* The `version.dll` proxy and the build scripts: linkage and build time.
* Accesses from a second thread of the game: it is taken to call Lua from one.

## Plan

Done: `SocketStream`, `LrdbServer`, `DebugSession`, `Debugger`, `HookControl`,
`EvalStack`, `StdStream`, `JsonRpc`, `RpcClient`, `RpcCalls`, `LuaCache`, and
their theorems. What could follow:

1. `FindPattern` and `is_file_path_match` as functions checked against reference
   definitions over bounded inputs.
2. `Debugger` composed with `LrdbServer` in one module, beyond what both promise
   of the hook by `HookControl`: the client's view of a step.
