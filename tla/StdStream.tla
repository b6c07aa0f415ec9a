----------------------------- MODULE StdStream ------------------------------
(***************************************************************************)
(* The stream over an istream and an ostream, command_stream_stdstream     *)
(* (command_stream/stdstream.hpp), with the basic_server above it.         *)
(*                                                                         *)
(* A reader thread blocks in std::getline and puts requests into a queue;  *)
(* the Lua thread takes them out, waiting on a condition variable while it *)
(* is paused.  Both hold the mutex whenever they touch the queue or end_,  *)
(* so each critical section is one step.  The peer is another process.     *)
(***************************************************************************)
EXTENDS Naturals, Sequences

CONSTANTS
    MaxLines,   \* bound: the lines the peer writes
    MaxAgain    \* bound: messages up to which an unended line is read again

ASSUME StdStreamAssumption == MaxLines \in Nat /\ MaxAgain \in Nat

(* What a line is to the reader, by what follows LRDB_IOSTREAM_PREFIX: a   *)
(* character and a request, the request at once, one character, nothing;   *)
(* or the line does not begin with it.                                     *)
Kinds == {"spaced", "tight", "blank", "bare", "other"}
Tagged == Kinds \ {"other"}

VARIABLES
    input,    \* the lines the peer has written that are not read yet
    written,  \* their number, with those read
    ended,    \* "no", "clean" or "cut": how the peer has ended its output
    reader,   \* where the reader thread is
    msg,      \* its string msg; 0 is the empty string
    queue,    \* command_buffer_
    end,      \* end_
    main,     \* where the Lua thread is
    taken,    \* the messages taken from the queue, in order (history)
    read      \* the tagged lines read, in order (history)

vars == <<input, written, ended, reader, msg, queue, end, main, taken, read>>

Line == [n : 1..MaxLines, kind : Kinds]
Empty == [n |-> 0, kind |-> "other"]

Init ==
    /\ input = <<>> /\ written = 0 /\ ended = "no"
    /\ reader = "check" /\ msg = Empty
    /\ queue = <<>> /\ end = FALSE
    /\ main = "running"
    /\ taken = <<>> /\ read = <<>>

-----------------------------------------------------------------------------
(* The peer.                                                               *)

Write(kind) ==
    /\ ended = "no" /\ written < MaxLines
    /\ written' = written + 1
    /\ input' = Append(input, [n |-> written + 1, kind |-> kind])
    /\ UNCHANGED <<ended, reader, msg, queue, end, main, taken, read>>

(* The end of the input, after a line end or in the middle of the last     *)
(* line written.                                                           *)
EndInput(how) ==
    /\ ended = "no"
    /\ how = "cut" => input # <<>>
    /\ ended' = how
    /\ UNCHANGED <<input, written, reader, msg, queue, end, main, taken, read>>

-----------------------------------------------------------------------------
(* The reader thread: read_thread().                                       *)

Check ==
    /\ reader = "check"
    /\ reader' = IF end THEN "done" ELSE "getline"
    /\ UNCHANGED <<input, written, ended, msg, queue, end, main, taken, read>>

(* std::getline.  At the end of the input it empties msg once, but a       *)
(* stream that has met the end within a line leaves msg as it is.          *)
GetLine ==
    /\ reader = "getline"
    /\ input # <<>> \/ ended = "clean" \/ (ended = "cut" /\ (end \/ Len(taken \o queue) < MaxAgain))
    /\ reader' = "tested"
    /\ IF input # <<>>
         THEN /\ msg' = Head(input) /\ input' = Tail(input)
              /\ read' = IF Head(input).kind \in Tagged THEN Append(read, Head(input)) ELSE read
         ELSE /\ msg' = IF ended = "cut" THEN msg ELSE Empty
              /\ UNCHANGED <<input, read>>
    /\ UNCHANGED <<written, ended, queue, end, main, taken>>

Notified == IF main = "waiting" THEN "woken" ELSE main

(* Mutant of PushMessage: nobody is notified.                              *)
PushMessageQuietly ==
    /\ queue' = Append(queue, msg)
    /\ UNCHANGED main

(* push_message().                                                         *)
PushMessage ==
    /\ queue' = Append(queue, msg)
    /\ main' = Notified

(* Mutant of HasPrefix: the prefix may be anywhere, or nowhere.            *)
HasPrefixAny(m) == TRUE

HasPrefix(m) == m.kind \in Tagged

(* The prefix test and push.  sizeof counts the zero byte of the prefix:   *)
(* substr passes over one character more, and throws, out of the thread,   *)
(* when there is none.                                                     *)
Push ==
    /\ reader = "tested"
    /\ IF HasPrefix(msg) /\ msg.kind # "bare"
         THEN PushMessage /\ reader' = "check"
         ELSE /\ reader' = IF msg.kind = "bare" THEN "terminated" ELSE "check"
              /\ UNCHANGED <<queue, main>>
    /\ UNCHANGED <<input, written, ended, msg, end, taken, read>>

Alive == reader # "terminated"

-----------------------------------------------------------------------------
(* The Lua thread.                                                         *)

(* Mutant of Take: the newest message is taken.                            *)
TakeNewest ==
    /\ queue' = SubSeq(queue, 1, Len(queue) - 1)
    /\ taken' = Append(taken, queue[Len(queue)])

(* A message is taken and, unless it is empty, given to on_data.           *)
Take ==
    /\ queue' = Tail(queue)
    /\ taken' = Append(taken, Head(queue))

(* poll(), pop_message(): the tick handler.                                *)
Poll ==
    /\ Alive /\ main = "running" /\ queue # <<>>
    /\ Take
    /\ UNCHANGED <<input, written, ended, reader, msg, end, main, read>>

(* The pause handler.                                                      *)
Pause ==
    /\ Alive /\ main = "running"
    /\ main' = "paused"
    /\ UNCHANGED <<input, written, ended, reader, msg, queue, end, taken, read>>

(* run_one(), wait_message().  A request may end the pause; with end_ set  *)
(* and nothing queued it returns at once.                                  *)
WaitMessage ==
    /\ Alive /\ main \in {"paused", "woken"}
    /\ IF queue = <<>>
         THEN main' = (IF end THEN "paused" ELSE "waiting") /\ UNCHANGED <<queue, taken>>
         ELSE /\ Take
              /\ main' \in {"paused"} \cup {x \in {"running"} : Head(queue).kind = "spaced"}
    /\ UNCHANGED <<input, written, ended, reader, msg, end, read>>

(* A condition variable may wake its waiter for no reason.                 *)
Spurious ==
    /\ Alive /\ main = "waiting"
    /\ main' = "woken"
    /\ UNCHANGED <<input, written, ended, reader, msg, queue, end, taken, read>>

(* Mutant of CloseBegin: the reader is not told.                           *)
CloseBeginOnly ==
    /\ Alive /\ main = "running"
    /\ main' = "joining"
    /\ UNCHANGED <<input, written, ended, reader, msg, queue, end, taken, read>>

(* close(): end_ is set, then the reader is joined.  The server may be     *)
(* attached to a Lua state again after it.                                 *)
CloseBegin ==
    /\ Alive /\ main = "running"
    /\ end' = TRUE
    /\ main' = "joining"
    /\ UNCHANGED <<input, written, ended, reader, msg, queue, taken, read>>

Join ==
    /\ main = "joining" /\ reader = "done"
    /\ main' = "running"
    /\ UNCHANGED <<input, written, ended, reader, msg, queue, end, taken, read>>

-----------------------------------------------------------------------------
Peer == (\E kind \in Kinds : Write(kind)) \/ \E how \in {"clean", "cut"} : EndInput(how)
Reader == Check \/ GetLine \/ Push
Main == Poll \/ Pause \/ WaitMessage \/ Spurious \/ CloseBegin \/ Join

Next == Peer \/ Reader \/ Main

(* Both threads run, and a pause loop keeps asking.  Nothing is assumed of *)
(* the peer, nor of Lua code, which need not call the hook.                *)
Fairness == WF_vars(Check) /\ WF_vars(GetLine) /\ WF_vars(Push)
              /\ WF_vars(WaitMessage) /\ WF_vars(Join)

Spec == Init /\ [][Next]_vars /\ Fairness

-----------------------------------------------------------------------------
(* Properties.                                                             *)

(* Every part of the state has its type, and only requests are queued.     *)
TypeOK ==
    /\ input \in Seq(Line) /\ written \in 0..MaxLines
    /\ ended \in {"no", "clean", "cut"}
    /\ reader \in {"check", "getline", "tested", "done", "terminated"}
    /\ msg \in Line \cup {Empty}
    /\ queue \in Seq(Line) /\ taken \in Seq(Line) /\ read \in Seq(Line)
    /\ end \in BOOLEAN
    /\ main \in {"running", "paused", "waiting", "woken", "joining"}
    /\ \A k \in DOMAIN queue : queue[k].kind \in Tagged \ {"bare"}

(* The request the reader holds in msg.                                    *)
Held == IF reader \in {"tested", "terminated"} /\ msg.kind \in Tagged THEN <<msg>> ELSE <<>>

(* Unless its input ends within a line, the thread hands every request on  *)
(* once and in order: those read are those taken, queued and held.         *)
ExactlyOnce == ended # "cut" => taken \o queue \o Held = read

(* The Lua thread never sleeps over a request, or over the end.            *)
NoSleeper == main = "waiting" => queue = <<>> /\ ~end

InPause == main \in {"paused", "waiting", "woken"}
In(n, q) == \E k \in DOMAIN q : q[k].n = n

(* A request that is queued in a pause is taken, or the pause is over.     *)
PauseServes ==
    \A n \in 1..MaxLines :
        In(n, queue) /\ InPause ~> In(n, taken) \/ ~InPause \/ ~Alive

(* close() returns once the reader has something to read, or the end of    *)
(* its input.  Until then it blocks the Lua thread.                        *)
CloseReturns ==
    main = "joining" /\ (input # <<>> \/ ended # "no") ~> main # "joining" \/ ~Alive
=============================================================================
