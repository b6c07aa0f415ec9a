---------------------------- MODULE SocketStream ----------------------------
(***************************************************************************)
(* The TCP server stream of the debugger, lrdb::command_stream_socket      *)
(* (command_stream/socket.hpp), together with the part of asio and of the  *)
(* operating system it relies on.                                          *)
(*                                                                         *)
(* The stream owns one socket and one acceptor.  Every asynchronous        *)
(* operation it starts is completed by the kernel at a time of its own and *)
(* its handler runs later, when the game thread calls poll or run_one.     *)
(* asio promises no order between the handlers of different operations, so *)
(* any completed operation may be dispatched next.  All handlers run on    *)
(* the one game thread: a handler is one step.                             *)
(***************************************************************************)
EXTENDS Naturals, Sequences, FiniteSets

CONSTANTS
    Clients,      \* the TCP peers; each of them connects once
    None,         \* no client: the socket is closed
    Cmds,         \* the request methods a client may send
    Failing,      \* those among them whose execution may raise an error
    MaxRequests,  \* bound: the requests a client sends
    MaxOps        \* bound: operations outstanding before the host makes more

ASSUME StreamAssumption ==
    /\ None \notin Clients
    /\ Failing \subseteq Cmds
    /\ MaxRequests \in Nat
    /\ MaxOps \in Nat

VARIABLES
    stream,   \* the command_stream_socket and its asio operations
    queued,   \* clients in the listen queue of the operating system
    gone,     \* clients that have closed their end
    sent,     \* number of requests each client has sent
    wire,     \* bytes sent by each client that the kernel still holds
    heard,    \* the requests executed, in order (history)
    deaf      \* a handler was left by an error since the last session
              \* began or the last accept was started (history)

netVars == <<queued, gone, sent, wire>>
past == <<heard, deaf>>
streamVars == <<stream, netVars, past>>

(* A request line travels in two pieces, of which only the second holds    *)
(* the line end: enough to tell a whole line from a fragment of one.       *)
Request == [from : Clients, n : 1..MaxRequests, cmd : Cmds]
Piece == [req : Request, last : BOOLEAN]
Bytes == Seq(Piece)
LineOf(r) == <<[req |-> r, last |-> FALSE], [req |-> r, last |-> TRUE]>>

(* The state of the C++ object.  accepts, reads: operations the kernel     *)
(* works on.  accepted, recvd, failed: completed operations whose handler  *)
(* has not run: accepted sockets, received chunks, failed reads.           *)
StreamType ==
    [conn : Clients \cup {None},   \* socket_, and whom it is connected to
     accepts : Nat,
     accepted : SUBSET Clients,
     reads : Nat,
     recvd : Seq(Bytes),
     failed : Nat,
     buf : Bytes]                  \* read_buffer_, kept over sessions

Ops(s) == s.accepts + Cardinality(s.accepted) + s.reads + Len(s.recvd) + s.failed

-----------------------------------------------------------------------------
(* The member functions, as functions of the object's state.               *)

(* Mutant of Close: one read is taken to be outstanding, always.           *)
CloseOneRead(s) == [s EXCEPT !.conn = None, !.reads = @ - 1, !.failed = @ + 1]

(* close(): closing the socket aborts the reads the kernel holds.          *)
Close(s) == [s EXCEPT !.conn = None, !.reads = 0, !.failed = @ + s.reads]

AsyncAccept(s) == [s EXCEPT !.accepts = @ + 1]

(* Mutant of Reconnect: nothing is accepted any more.                      *)
ReconnectForgets(s) == Close(s)

Reconnect(s) == AsyncAccept(Close(s))

(* A read handed to the kernel; on a closed socket it fails at once.       *)
ReadSome(s) ==
    IF s.conn = None THEN [s EXCEPT !.failed = @ + 1]
                     ELSE [s EXCEPT !.reads = @ + 1]

HasLine(b) == \E i \in 1..Len(b) : b[i].last

(* start_receive_commands(): async_read_until completes at once, with no   *)
(* new bytes, when the buffer already holds a line.                        *)
StartReceive(s) ==
    IF HasLine(s.buf) THEN [s EXCEPT !.recvd = Append(@, <<>>)] ELSE ReadSome(s)

(* What a call leads to: the next state of the stream, and what the server *)
(* above sees of it: on_close called, on_connection called, a request      *)
(* executed, an error that leaves the handler and whoever runs it.         *)
Sent(s) == [s |-> s, closed |-> FALSE, opened |-> FALSE, req |-> None, threw |-> FALSE]
Lost(s) == [Sent(Reconnect(s)) EXCEPT !.closed = TRUE]

(* send_message().  Writing to a peer that has left may still succeed; a   *)
(* failed write reconnects.                                                *)
SendOutcomes(s) ==
    {o \in {Sent(s)} : s.conn # None}
        \cup {o \in {Lost(s)} : s.conn = None \/ s.conn \in gone}

(* connected_done(), entered with the socket open: the "connected"         *)
(* notification of on_connection, then the first read.                     *)
ConnectedDone(s) ==
    {[o EXCEPT !.s = StartReceive(@), !.opened = TRUE] : o \in SendOutcomes(s)}

(* Mutant of AcceptOutcomes: the new connection replaces the one there is.  *)
AcceptReplaces(s, c) == ConnectedDone([s EXCEPT !.accepted = @ \ {c}, !.conn = c])

(* The handler of async_accept.  asio cannot give the new connection to a  *)
(* socket that is open: it drops it and reports already_open.              *)
AcceptOutcomes(s, c) ==
    LET t == [s EXCEPT !.accepted = @ \ {c}]
    IN  IF s.conn = None THEN ConnectedDone([t EXCEPT !.conn = c]) ELSE {Lost(t)}

(* std::getline takes the bytes up to the line end, or all there are.      *)
LineLength(b) ==
    IF HasLine(b) THEN Cardinality({i \in 1..Len(b) : \A j \in 1..i : ~b[j].last}) + 1
                  ELSE Len(b)
Line(b) == SubSeq(b, 1, LineLength(b))

(* Mutant of AfterLine: the line stays in the buffer.                      *)
AfterLineKeeps(b) == b

AfterLine(b) == SubSeq(b, LineLength(b) + 1, Len(b))

(* json::parse ignores what is behind a whole value, and a first piece may *)
(* lack no more than the line end: whatever follows it, a line that begins *)
(* with a request may be taken for it.                                     *)
Parsed(l) ==
    IF l = <<>> \/ l[1].last THEN {None}
    ELSE IF Len(l) = 2 /\ l[2] = [l[1] EXCEPT !.last = TRUE] THEN {l[1].req}
    ELSE {l[1].req, None}

(* A request is answered, unless an error leaves its execution: one that   *)
(* needs parameters has none, or Lua code run to convert a value raised it.*)
RequestOutcomes(s, r) ==
    {[o EXCEPT !.req = r] : o \in SendOutcomes(s)}
        \cup {o \in {[Sent(s) EXCEPT !.req = r, !.threw = TRUE]} : r.cmd \in Failing}

(* The handler of on_data: what is not a request is dropped.               *)
ExecuteOutcomes(s, line) ==
    UNION {IF r = None THEN {Sent(s)} ELSE RequestOutcomes(s, r) : r \in Parsed(line)}

(* Mutant of ReadOutcomes: the handler does not read on after a line.      *)
ReadOutcomesOnce(s) ==
    LET t == [s EXCEPT !.recvd = Tail(@), !.buf = @ \o Head(s.recvd)]
        u == [t EXCEPT !.buf = AfterLine(@)]
    IN  IF Head(s.recvd) # <<>> /\ ~HasLine(t.buf)
          THEN {Sent(ReadSome(t))} ELSE ExecuteOutcomes(u, Line(t.buf))

(* A successful read.  Until a line is complete asio reads on by itself;   *)
(* then on_data runs, and start_receive_commands after it unless an error  *)
(* has left on_data: then this session is not read any more.               *)
ReadOutcomes(s) ==
    LET t == [s EXCEPT !.recvd = Tail(@), !.buf = @ \o Head(s.recvd)]
        u == [t EXCEPT !.buf = AfterLine(@)]
    IN  IF Head(s.recvd) # <<>> /\ ~HasLine(t.buf)
          THEN {Sent(ReadSome(t))}
          ELSE {[o EXCEPT !.s = IF o.threw THEN @ ELSE StartReceive(@)] :
                   o \in ExecuteOutcomes(u, Line(t.buf))}

(* Mutant of FailOutcomes: close() in place of reconnect().                *)
FailOutcomesClose(s) == {[Lost(s) EXCEPT !.s = Close([s EXCEPT !.failed = @ - 1])]}

(* A failed read: the error branch of the same handler.                    *)
FailOutcomes(s) == {Lost([s EXCEPT !.failed = @ - 1])}

(* The completed operations and what dispatching one of them may do.       *)
DispatchOutcomes(s) ==
    UNION ({AcceptOutcomes(s, c) : c \in s.accepted}
           \cup {ReadOutcomes(t) : t \in {u \in {s} : s.recvd # <<>>}}
           \cup {FailOutcomes(t) : t \in {u \in {s} : s.failed > 0}})

-----------------------------------------------------------------------------
(* The peers and the kernel.                                               *)

Away(c) ==
    /\ c \notin queued \cup gone \cup stream.accepted
    /\ stream.conn # c
    /\ sent[c] = 0

(* A client connects: the operating system takes it into the listen queue. *)
Connect(c) ==
    /\ Away(c)
    /\ queued' = queued \cup {c}
    /\ UNCHANGED <<stream, gone, sent, wire, past>>

Reached(c) == c \in queued \cup stream.accepted \/ stream.conn = c

ClientSend(c, cmd) ==
    /\ Reached(c) /\ c \notin gone
    /\ sent[c] < MaxRequests
    /\ sent' = [sent EXCEPT ![c] = @ + 1]
    /\ wire' = [wire EXCEPT ![c] =
                  @ \o LineOf([from |-> c, n |-> sent[c] + 1, cmd |-> cmd])]
    /\ UNCHANGED <<stream, queued, gone, past>>

(* A client leaves; what has not arrived yet may be cut off anywhere.      *)
Leave(c) ==
    /\ Reached(c) /\ c \notin gone
    /\ gone' = gone \cup {c}
    /\ \E k \in 0..Len(wire[c]) : wire' = [wire EXCEPT ![c] = SubSeq(@, 1, k)]
    /\ UNCHANGED <<stream, queued, sent, past>>

AcceptDone(c) ==
    /\ c \in queued
    /\ stream.accepts > 0
    /\ queued' = queued \ {c}
    /\ stream' = [stream EXCEPT !.accepts = @ - 1, !.accepted = @ \cup {c}]
    /\ UNCHANGED <<gone, sent, wire, past>>

(* An outstanding read gets what has arrived, in any chunk.                *)
Arrive(c) ==
    /\ stream.conn = c /\ stream.reads > 0
    /\ \E k \in 1..Len(wire[c]) :
         /\ stream' = [stream EXCEPT !.reads = @ - 1,
                                     !.recvd = Append(@, SubSeq(wire[c], 1, k))]
         /\ wire' = [wire EXCEPT ![c] = SubSeq(@, k + 1, Len(@))]
    /\ UNCHANGED <<queued, gone, sent, past>>

(* The end of the stream is seen once everything before it was read.       *)
EndOfFile(c) ==
    /\ stream.conn = c /\ stream.reads > 0
    /\ c \in gone /\ wire[c] = <<>>
    /\ stream' = [stream EXCEPT !.reads = @ - 1, !.failed = @ + 1]
    /\ UNCHANGED <<queued, gone, sent, wire, past>>

Kernel == \E c \in Clients : AcceptDone(c) \/ Arrive(c) \/ EndOfFile(c)
Peers == \E c \in Clients : Connect(c) \/ Leave(c) \/ \E cmd \in Cmds : ClientSend(c, cmd)

-----------------------------------------------------------------------------
(* The game thread, as far as the stream sees it.                          *)

StreamInit ==
    /\ stream = [conn |-> None, accepts |-> 1, accepted |-> {}, reads |-> 0,
                 recvd |-> <<>>, failed |-> 0, buf |-> <<>>]
    /\ queued = {} /\ gone = {}
    /\ sent = [c \in Clients |-> 0]
    /\ wire = [c \in Clients |-> <<>>]
    /\ heard = <<>> /\ deaf = FALSE

(* What the history keeps of an outcome.                                   *)
Hears(o) ==
    /\ heard' = IF o.req = None THEN heard ELSE Append(heard, o.req)
    /\ deaf' = (o.threw \/ (deaf /\ ~o.closed /\ ~o.opened))

(* One handler run by poll() or run_one().                                 *)
RunOne ==
    /\ \E o \in DispatchOutcomes(stream) : stream' = o.s /\ Hears(o)
    /\ UNCHANGED netVars

(* send_message() called by the server outside a handler.                  *)
HostSend ==
    /\ \E o \in SendOutcomes(stream) : stream' = o.s /\ Hears(o)
    /\ UNCHANGED netVars

(* basic_server::exit(): the "exit" notification, then close().            *)
HostExit ==
    /\ \E o \in SendOutcomes(stream) : stream' = Close(o.s) /\ Hears(o)
    /\ UNCHANGED netVars

Host == HostSend \/ HostExit
StreamStep == Peers \/ Kernel \/ RunOne \/ Host
StreamNext == Peers \/ Kernel \/ RunOne \/ (Ops(stream) < MaxOps /\ Host)

(* Completed operations are dispatched as long as the game calls poll, and *)
(* the kernel completes what it can.                                       *)
StreamFairness == WF_streamVars(RunOne) /\ WF_streamVars(Kernel)

StreamSafety == StreamInit /\ [][StreamStep]_streamVars
StreamSpec == StreamInit /\ [][StreamNext]_streamVars /\ StreamFairness

-----------------------------------------------------------------------------
(* Properties.                                                             *)

(* Every part of the state has its type.                                   *)
StreamTypeOK ==
    /\ stream \in StreamType
    /\ queued \subseteq Clients
    /\ gone \subseteq Clients
    /\ sent \in [Clients -> 0..MaxRequests]
    /\ wire \in [Clients -> Bytes]
    /\ heard \in Seq(Request)
    /\ deaf \in BOOLEAN

(* Whatever failed and in whatever order, the io_service has work left: an *)
(* open session is being read, and a closed socket has an accept under way *)
(* or a completion whose handler will start one.  Without work run_one()   *)
(* returns at once and no debugger can connect, until a later send fails   *)
(* and so starts an accept.  Only an error that leaves a handler does that *)
(* to the stream, and no longer than to the next session or accept.        *)
OpenIsRead == stream.conn # None /\ ~deaf =>
    stream.reads > 0 \/ stream.recvd # <<>> \/ stream.failed > 0
ClosedComesBack == stream.conn = None /\ ~deaf =>
    stream.accepts > 0 \/ stream.accepted # {} \/ stream.recvd # <<>> \/ stream.failed > 0
WorkRemains == OpenIsRead /\ ClosedComesBack

(* A request is executed at most once and in the order it was sent, over   *)
(* any cut of the bytes into chunks, failed reads, and reads of an earlier *)
(* session that are handled in a later one.                                *)
InOrder ==
    \A i, j \in 1..Len(heard) :
        i < j /\ heard[i].from = heard[j].from => heard[i].n < heard[j].n

(* A closed stream becomes connectable again by itself: start-up, level    *)
(* changes and lost clients all end in an outstanding accept, unless an    *)
(* error leaves a handler.                                                 *)
Recovers == (stream.conn = None /\ ~deaf) ~> (stream.accepts > 0 \/ stream.conn # None \/ deaf)

(* The server tests wait for the answer to every request they send: once   *)
(* everything a connected client sent has been read and handled, all its   *)
(* requests have been executed.                                            *)
AllAnswered ==
    \A c \in Clients :
      /\ stream.conn = c /\ c \notin gone
      /\ wire[c] = <<>> /\ stream.recvd = <<>> /\ ~HasLine(stream.buf)
      => \A k \in 1..sent[c] :
           \E i \in 1..Len(heard) : heard[i].from = c /\ heard[i].n = k
=============================================================================
