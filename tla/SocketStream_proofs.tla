------------------------ MODULE SocketStream_proofs ------------------------
(***************************************************************************)
(* Theorems about SocketStream, for any number of clients and requests and *)
(* without a bound on outstanding operations.                              *)
(*                                                                         *)
(* A handler is a chain of member functions; each has a lemma that says    *)
(* what it makes of the stream: Working(s) holds again at the end of every *)
(* handler although the operation that was dispatched is used up, unless   *)
(* an error has left the handler.                                          *)
(* Tidy is the same for InOrder: where the pieces of each client are, and  *)
(* that those of a lost session can neither come back nor overtake.        *)
(***************************************************************************)
EXTENDS SocketStream, FiniteSetTheorems, SequenceTheorems, TLAPS

(* WorkRemains, of any state of the C++ object.                            *)
Working(s) ==
    /\ s.conn # None => s.reads > 0 \/ s.recvd # <<>> \/ s.failed > 0
    /\ s.conn = None => \/ s.accepts > 0 \/ s.accepted # {}
                        \/ s.recvd # <<>> \/ s.failed > 0

OutcomeType ==
    [s : StreamType, closed : BOOLEAN, opened : BOOLEAN, req : Request \cup {None},
     threw : BOOLEAN]

-----------------------------------------------------------------------------
(* The member functions that touch only counters.                          *)

(* Updating a field with a value of its type.                              *)
LEMMA FieldUpdate ==
    ASSUME NEW s \in StreamType, NEW n \in Nat, NEW m \in Nat
    PROVE  /\ [s EXCEPT !.conn = None, !.reads = m, !.failed = n] \in StreamType
           /\ [s EXCEPT !.accepts = n] \in StreamType
           /\ [s EXCEPT !.reads = n] \in StreamType
           /\ [s EXCEPT !.failed = n] \in StreamType
           /\ \A c \in Clients : [s EXCEPT !.conn = c] \in StreamType
           /\ \A C \in SUBSET Clients :
                /\ [s EXCEPT !.accepted = C] \in StreamType
                /\ [s EXCEPT !.accepts = n, !.accepted = C] \in StreamType
           /\ \A r \in Seq(Bytes) :
                /\ [s EXCEPT !.recvd = r] \in StreamType
                /\ [s EXCEPT !.reads = n, !.recvd = r] \in StreamType
                /\ \A b \in Bytes : [s EXCEPT !.recvd = r, !.buf = b] \in StreamType
           /\ \A b \in Bytes : [s EXCEPT !.buf = b] \in StreamType
           /\ [s EXCEPT !.reads = n, !.failed = m] \in StreamType
BY DEF StreamType

(* reconnect() leaves a closed socket and an outstanding accept.           *)
LEMMA ReconnectWorks ==
    ASSUME NEW s \in StreamType
    PROVE  /\ Close(s) \in StreamType
           /\ Close(s).conn = None
           /\ Working(s) => Working(Close(s))
           /\ Reconnect(s) \in StreamType
           /\ Reconnect(s).conn = None
           /\ Working(Reconnect(s))
<1>1. Close(s) \in StreamType
  <2>1. s.failed + s.reads \in Nat
    BY DEF StreamType
  <2>2. QED
    BY <2>1, FieldUpdate DEF Close
<1>2. /\ Close(s).conn = None /\ Close(s).failed = s.failed + s.reads
      /\ Close(s).recvd = s.recvd /\ Close(s).accepts = s.accepts
      /\ Close(s).accepted = s.accepted
  BY DEF StreamType, Close
<1>3. Working(s) => Working(Close(s))
  BY <1>2 DEF StreamType, Working
<1>4. ASSUME NEW t \in StreamType
      PROVE  /\ AsyncAccept(t) \in StreamType
             /\ AsyncAccept(t).conn = t.conn
             /\ AsyncAccept(t).accepts > 0
  <2>1. t.accepts + 1 \in Nat /\ t.accepts + 1 > 0
    BY DEF StreamType
  <2>2. AsyncAccept(t).conn = t.conn /\ AsyncAccept(t).accepts = t.accepts + 1
    BY DEF StreamType, AsyncAccept
  <2>3. QED
    BY <2>1, <2>2, FieldUpdate DEF AsyncAccept
<1>5. Reconnect(s) \in StreamType /\ Reconnect(s).conn = None /\ Working(Reconnect(s))
  BY <1>1, <1>2, <1>4 DEF Reconnect, Working
<1>6. QED
  BY <1>1, <1>2, <1>3, <1>5

(* start_receive_commands() leaves a read that is outstanding or done.     *)
LEMMA StartReceiveWorks ==
    ASSUME NEW s \in StreamType
    PROVE  /\ ReadSome(s) \in StreamType
           /\ Working(ReadSome(s))
           /\ StartReceive(s) \in StreamType
           /\ Working(StartReceive(s))
<1>1. ReadSome(s) \in StreamType /\ Working(ReadSome(s))
  <2>1. /\ s.failed + 1 \in Nat /\ s.failed + 1 > 0
        /\ s.reads + 1 \in Nat /\ s.reads + 1 > 0
    BY DEF StreamType
  <2>2. CASE s.conn = None
    <3>1. ReadSome(s) = [s EXCEPT !.failed = s.failed + 1]
      BY <2>2 DEF ReadSome
    <3>2. ReadSome(s).failed = s.failed + 1
      BY <3>1 DEF StreamType
    <3>3. QED
      BY <2>1, <3>1, <3>2, FieldUpdate DEF Working
  <2>3. CASE s.conn # None
    <3>1. ReadSome(s) = [s EXCEPT !.reads = s.reads + 1]
      BY <2>3 DEF ReadSome
    <3>2. ReadSome(s).reads = s.reads + 1 /\ ReadSome(s).conn # None
      BY <2>3, <3>1 DEF StreamType
    <3>3. QED
      BY <2>1, <3>1, <3>2, FieldUpdate DEF Working
  <2>4. QED
    BY <2>2, <2>3
<1>2. CASE HasLine(s.buf)
  <2>1. /\ Append(s.recvd, <<>>) \in Seq(Bytes)
        /\ Append(s.recvd, <<>>) # <<>>
    <3>1. <<>> \in Bytes /\ s.recvd \in Seq(Bytes)
      BY DEF Bytes, StreamType
    <3>2. QED
      BY <3>1, AppendProperties
  <2>2. StartReceive(s) = [s EXCEPT !.recvd = Append(s.recvd, <<>>)]
    BY <1>2 DEF StartReceive
  <2>3. StartReceive(s).recvd = Append(s.recvd, <<>>)
    BY <2>2 DEF StreamType
  <2>4. QED
    BY <1>1, <2>1, <2>2, <2>3, FieldUpdate DEF Working
<1>3. CASE ~HasLine(s.buf)
  BY <1>1, <1>3 DEF StartReceive
<1>4. QED
  BY <1>2, <1>3

(* Sending nothing and losing the session, as handlers end with them.      *)
LEMMA SentLostWorks ==
    ASSUME NEW s \in StreamType
    PROVE  /\ Sent(s) \in OutcomeType /\ Sent(s).s = s
           /\ ~Sent(s).closed /\ ~Sent(s).threw
           /\ Sent(s).req = None /\ Sent(s).opened = FALSE
           /\ Lost(s) \in OutcomeType /\ Lost(s).s = Reconnect(s)
           /\ Lost(s).closed /\ ~Lost(s).threw
           /\ Lost(s).req = None /\ Lost(s).opened = FALSE
BY ReconnectWorks DEF Sent, Lost, OutcomeType

(* send_message() keeps the stream working, whether it fails or not; if it *)
(* fails, whatever the stream was.                                         *)
LEMMA SendWorks ==
    ASSUME NEW s \in StreamType, NEW o \in SendOutcomes(s)
    PROVE  /\ o \in OutcomeType
           /\ o.req = None /\ o.opened = FALSE /\ ~o.threw
           /\ Working(s) \/ o.closed => Working(o.s)
<1>1. o = Sent(s) \/ o = Lost(s)
  BY DEF SendOutcomes
<1>2. QED
  BY <1>1, SentLostWorks, ReconnectWorks

-----------------------------------------------------------------------------
(* The line std::getline takes from the buffer.                            *)

(* getline never takes more than there is.                                 *)
LEMMA LineWithinBuffer ==
    ASSUME NEW b \in Bytes
    PROVE  LineLength(b) \in 0..Len(b)
<1> DEFINE Open == {i \in 1..Len(b) : \A j \in 1..i : ~b[j].last}
<1>1. Len(b) \in Nat
  BY DEF Bytes
<1>2. CASE ~HasLine(b)
  BY <1>1, <1>2 DEF LineLength
<1>3. CASE HasLine(b)
  <2>1. PICK e \in 1..Len(b) : b[e].last
    BY <1>3 DEF HasLine
  <2>2. e \notin Open
    <3>1. e \in 1..e
      BY <2>1
    <3>2. ~(\A j \in 1..e : ~b[j].last)
      BY <2>1, <3>1
    <3>3. QED
      BY <3>2
  <2>3. IsFiniteSet(1..Len(b)) /\ Cardinality(1..Len(b)) = Len(b)
    <3>1. 1 \in Int /\ Len(b) \in Int /\ ~(1 > Len(b)) /\ Len(b) - 1 + 1 = Len(b)
      BY <1>1, <2>1
    <3>2. /\ IsFiniteSet(1..Len(b))
          /\ Cardinality(1..Len(b)) = IF 1 > Len(b) THEN 0 ELSE Len(b) - 1 + 1
      BY <3>1, FS_Interval, Zenon
    <3>3. QED
      BY <3>1, <3>2
  <2>4. /\ IsFiniteSet((1..Len(b)) \ {e})
        /\ Cardinality((1..Len(b)) \ {e}) = Len(b) - 1
    BY <2>1, <2>3, FS_RemoveElement
  <2>5. Open \in SUBSET ((1..Len(b)) \ {e})
    BY <2>2
  <2>6. IsFiniteSet(Open) /\ Cardinality(Open) <= Len(b) - 1
    BY <2>4, <2>5, FS_Subset
  <2>7. Cardinality(Open) \in Nat
    BY <2>6, FS_CardinalityType
  <2>8. LineLength(b) = Cardinality(Open) + 1
    BY <1>3 DEF LineLength
  <2>9. QED
    BY <1>1, <2>6, <2>7, <2>8
<1>4. QED
  BY <1>2, <1>3

(* A request is executed for a line that begins with it.                   *)
Begins(l, r) == Len(l) > 0 /\ ~l[1].last /\ r = l[1].req

(* What getline takes and leaves are bytes of the buffer; a request it     *)
(* yields is one a client has sent.                                        *)
LEMMA LineType ==
    ASSUME NEW b \in Bytes
    PROVE  /\ Line(b) \in Bytes
           /\ AfterLine(b) \in Bytes
           /\ \A r \in Parsed(Line(b)) :
                r = None \/ (r \in Request /\ Begins(Line(b), r))
<1>1. LineLength(b) \in 0..Len(b) /\ Len(b) \in Nat /\ b \in Seq(Piece)
  BY LineWithinBuffer DEF Bytes
<1>2. Line(b) \in Bytes
  <2>1. \A i \in 1..LineLength(b) : i \in 1..Len(b)
    BY <1>1
  <2>2. SubSeq(b, 1, LineLength(b)) \in Seq(Piece)
    BY <1>1, <2>1, SubSeqProperties
  <2>3. QED
    BY <2>2 DEF Line, Bytes
<1>3. AfterLine(b) \in Bytes
  <2>1. \A i \in LineLength(b) + 1 .. Len(b) : i \in 1..Len(b)
    BY <1>1
  <2>2. SubSeq(b, LineLength(b) + 1, Len(b)) \in Seq(Piece)
    BY <1>1, <2>1, SubSeqProperties
  <2>3. QED
    BY <2>2 DEF AfterLine, Bytes
<1>4. ASSUME NEW r \in Parsed(Line(b)), r # None
      PROVE  r \in Request /\ Begins(Line(b), r)
  <2>1. Line(b) # <<>> /\ ~Line(b)[1].last /\ r = Line(b)[1].req
    BY <1>4 DEF Parsed
  <2>2. 1 \in 1..Len(Line(b)) /\ Line(b) \in Seq(Piece)
    <3>1. Line(b) \in Seq(Piece)
      BY <1>2 DEF Bytes
    <3>2. Len(Line(b)) # 0 /\ Len(Line(b)) \in Nat
      BY <2>1, <3>1, EmptySeq
    <3>3. QED
      BY <3>1, <3>2
  <2>3. Line(b)[1] \in Piece
    BY <2>2, ElementOfSeq
  <2>4. QED
    BY <2>1, <2>2, <2>3 DEF Piece, Begins
<1>5. QED
  BY <1>2, <1>3, <1>4

-----------------------------------------------------------------------------
(* The handlers.                                                           *)

LEMMA OutcomeUpdate ==
    ASSUME NEW o \in OutcomeType, NEW t \in StreamType
    PROVE  /\ o.s \in StreamType
           /\ [o EXCEPT !.s = t] \in OutcomeType
           /\ [o EXCEPT !.s = t].s = t
           /\ [o EXCEPT !.s = t].req = o.req
           /\ [o EXCEPT !.s = t].threw = o.threw
           /\ [o EXCEPT !.s = t, !.opened = TRUE] \in OutcomeType
           /\ [o EXCEPT !.s = t, !.opened = TRUE].s = t
BY DEF OutcomeType

LEMMA RequestUpdate ==
    ASSUME NEW o \in OutcomeType, NEW r \in Request
    PROVE  /\ [o EXCEPT !.req = r] \in OutcomeType
           /\ [o EXCEPT !.req = r].s = o.s
           /\ [o EXCEPT !.req = r].req = r
           /\ [o EXCEPT !.req = r, !.threw = TRUE] \in OutcomeType
           /\ [o EXCEPT !.req = r, !.threw = TRUE].s = o.s
           /\ [o EXCEPT !.req = r, !.threw = TRUE].req = r
BY DEF OutcomeType

LEMMA ConnectedDoneWorks ==
    ASSUME NEW s \in StreamType, NEW o \in ConnectedDone(s)
    PROVE  o \in OutcomeType /\ Working(o.s)
<1>1. PICK q \in SendOutcomes(s) :
        o = [q EXCEPT !.s = StartReceive(q.s), !.opened = TRUE]
  BY DEF ConnectedDone
<1>2. q \in OutcomeType /\ q.s \in StreamType
  BY SendWorks, OutcomeUpdate
<1>3. StartReceive(q.s) \in StreamType /\ Working(StartReceive(q.s))
  BY <1>2, StartReceiveWorks
<1>4. QED
  BY <1>1, <1>2, <1>3, OutcomeUpdate

(* An accept completed: either a session starts and is read, or the open   *)
(* one is lost and an accept is outstanding again.                         *)
LEMMA AcceptWorks ==
    ASSUME NEW s \in StreamType, NEW c \in s.accepted, NEW o \in AcceptOutcomes(s, c)
    PROVE  o \in OutcomeType /\ Working(o.s)
<1> DEFINE t == [s EXCEPT !.accepted = s.accepted \ {c}]
<1>1. c \in Clients /\ s.accepted \ {c} \in SUBSET Clients
  BY DEF StreamType
<1>2. t \in StreamType
  BY <1>1, FieldUpdate
<1>3. CASE s.conn = None
  <2>1. [t EXCEPT !.conn = c] \in StreamType
    BY <1>1, <1>2, FieldUpdate
  <2>2. o \in ConnectedDone([t EXCEPT !.conn = c])
    BY <1>3 DEF AcceptOutcomes
  <2>3. QED
    BY <2>1, <2>2, ConnectedDoneWorks
<1>4. CASE s.conn # None
  <2>1. o = Lost(t)
    BY <1>4 DEF AcceptOutcomes
  <2>2. QED
    BY <1>2, <2>1, SentLostWorks, ReconnectWorks
<1>5. QED
  BY <1>3, <1>4

(* What a line leads to: the stream is as it was or as a failed send       *)
(* leaves it, and what was executed is what the line begins with.          *)
LEMMA ExecuteFacts ==
    ASSUME NEW s \in StreamType, NEW b \in Bytes, NEW q \in ExecuteOutcomes(s, Line(b))
    PROVE  /\ q \in OutcomeType
           /\ q.s = s \/ \E r \in SendOutcomes(s) : q.s = r.s
           /\ q.req = None \/ Begins(Line(b), q.req)
<1>1. PICK r \in Parsed(Line(b)) :
        q \in IF r = None THEN {Sent(s)} ELSE RequestOutcomes(s, r)
  BY DEF ExecuteOutcomes
<1>2. CASE r = None
  BY <1>1, <1>2, SentLostWorks
<1>3. CASE r # None
  <2>1. r \in Request /\ Begins(Line(b), r)
    BY <1>3, LineType
  <2>2. CASE \E o \in SendOutcomes(s) : q = [o EXCEPT !.req = r]
    <3>1. PICK o \in SendOutcomes(s) : q = [o EXCEPT !.req = r]
      BY <2>2
    <3>2. o \in OutcomeType
      BY SendWorks
    <3>3. q \in OutcomeType /\ q.s = o.s /\ q.req = r
      BY <2>1, <3>1, <3>2, RequestUpdate
    <3>4. QED
      BY <2>1, <3>3
  <2>3. CASE q = [Sent(s) EXCEPT !.req = r, !.threw = TRUE]
    <3>1. Sent(s) \in OutcomeType /\ Sent(s).s = s
      BY SentLostWorks
    <3>2. q \in OutcomeType /\ q.s = s /\ q.req = r
      BY <2>1, <2>3, <3>1, RequestUpdate
    <3>3. QED
      BY <2>1, <3>2
  <2>4. QED
    BY <1>1, <1>3, <2>2, <2>3 DEF RequestOutcomes
<1>4. QED
  BY <1>2, <1>3

(* A read completed: whether the line was a request, its answer was lost   *)
(* or the buffer held no line, another read is started, but for an error.  *)
LEMMA ReadWorks ==
    ASSUME NEW s \in StreamType, s.recvd # <<>>, NEW o \in ReadOutcomes(s)
    PROVE  o \in OutcomeType /\ (o.threw \/ Working(o.s))
<1> DEFINE t == [s EXCEPT !.recvd = Tail(s.recvd), !.buf = s.buf \o Head(s.recvd)]
           u == [t EXCEPT !.buf = AfterLine(t.buf)]
<1>1. /\ s.recvd \in Seq(Bytes) /\ s.buf \in Seq(Piece)
      /\ Tail(s.recvd) \in Seq(Bytes) /\ Head(s.recvd) \in Seq(Piece)
  <2>1. s.recvd \in Seq(Bytes) /\ s.buf \in Seq(Piece)
    BY DEF StreamType, Bytes
  <2>2. Tail(s.recvd) \in Seq(Bytes) /\ Head(s.recvd) \in Bytes
    BY <2>1, HeadTailProperties
  <2>3. QED
    BY <2>1, <2>2 DEF Bytes
<1>2. s.buf \o Head(s.recvd) \in Bytes
  BY <1>1, ConcatProperties DEF Bytes
<1>3. t \in StreamType /\ t.buf = s.buf \o Head(s.recvd)
  <2>1. t \in StreamType
    BY <1>1, <1>2, FieldUpdate
  <2>2. QED
    BY <2>1 DEF StreamType
<1>4. AfterLine(t.buf) \in Bytes
  BY <1>2, <1>3, LineType
<1>5. u \in StreamType
  BY <1>3, <1>4, FieldUpdate
<1> HIDE DEF t, u
<1>6. CASE o = Sent(ReadSome(t))
  BY <1>3, <1>6, StartReceiveWorks, SentLostWorks
<1>7. CASE \E q \in ExecuteOutcomes(u, Line(t.buf)) :
             o = [q EXCEPT !.s = IF q.threw THEN q.s ELSE StartReceive(q.s)]
  <2>1. PICK q \in ExecuteOutcomes(u, Line(t.buf)) :
          o = [q EXCEPT !.s = IF q.threw THEN q.s ELSE StartReceive(q.s)]
    BY <1>7
  <2>2. q \in OutcomeType
    BY <1>2, <1>3, <1>5, ExecuteFacts
  <2>3. /\ q.s \in StreamType /\ StartReceive(q.s) \in StreamType
        /\ Working(StartReceive(q.s))
    BY <2>2, OutcomeUpdate, StartReceiveWorks
  <2>4. CASE q.threw
    <3>1. o = [q EXCEPT !.s = q.s]
      BY <2>1, <2>4
    <3>2. o \in OutcomeType /\ o.threw
      BY <2>2, <2>3, <2>4, <3>1, OutcomeUpdate
    <3>3. QED
      BY <3>2
  <2>5. CASE ~q.threw
    <3>1. o = [q EXCEPT !.s = StartReceive(q.s)]
      BY <2>1, <2>5
    <3>2. o \in OutcomeType /\ o.s = StartReceive(q.s)
      BY <2>2, <2>3, <3>1, OutcomeUpdate
    <3>3. QED
      BY <2>3, <3>2
  <2>6. QED
    BY <2>4, <2>5
<1>8. QED
  BY <1>6, <1>7 DEF ReadOutcomes, t, u

(* Every handler the game thread runs to its end leaves the stream working. *)
LEMMA DispatchWorks ==
    ASSUME NEW s \in StreamType, NEW o \in DispatchOutcomes(s)
    PROVE  o \in OutcomeType /\ (o.threw \/ Working(o.s))
<1>1. \/ \E c \in s.accepted : o \in AcceptOutcomes(s, c)
      \/ s.recvd # <<>> /\ o \in ReadOutcomes(s)
      \/ s.failed > 0 /\ o \in FailOutcomes(s)
  BY DEF DispatchOutcomes
<1>2. CASE \E c \in s.accepted : o \in AcceptOutcomes(s, c)
  BY <1>2, AcceptWorks
<1>3. CASE s.recvd # <<>> /\ o \in ReadOutcomes(s)
  BY <1>3, ReadWorks
<1>4. CASE s.failed > 0 /\ o \in FailOutcomes(s)
  <2>1. s.failed - 1 \in Nat
    BY <1>4 DEF StreamType
  <2>2. [s EXCEPT !.failed = s.failed - 1] \in StreamType
    BY <2>1, FieldUpdate
  <2>3. o = Lost([s EXCEPT !.failed = s.failed - 1])
    BY <1>4 DEF FailOutcomes
  <2>4. QED
    BY <2>2, <2>3, SentLostWorks, ReconnectWorks
<1>5. QED
  BY <1>1, <1>2, <1>3, <1>4

-----------------------------------------------------------------------------
(* The inductive invariant and its consequences.                           *)

StreamInv == StreamTypeOK /\ (deaf \/ Working(stream))

LEMMA StreamInitInv == StreamInit => StreamInv
<1> SUFFICES ASSUME StreamInit PROVE StreamInv
  OBVIOUS
<1>1. stream \in StreamType
  <2>1. <<>> \in Seq(Bytes) /\ <<>> \in Bytes
    BY DEF Bytes
  <2>2. QED
    BY <2>1 DEF StreamInit, StreamType
<1>2. Working(stream)
  BY DEF StreamInit, Working
<1>3. wire \in [Clients -> Bytes] /\ heard \in Seq(Request)
  BY DEF StreamInit, Bytes
<1>4. sent \in [Clients -> 0..MaxRequests]
  BY StreamAssumption DEF StreamInit
<1>5. QED
  BY <1>1, <1>2, <1>3, <1>4 DEF StreamInv, StreamTypeOK, StreamInit

(* What the peers do does not touch the stream.                            *)
LEMMA PeersInv == ASSUME StreamInv, Peers PROVE StreamInv'
<1> USE DEF StreamInv, StreamTypeOK, past
<1>1. PICK c \in Clients : Connect(c) \/ Leave(c) \/ \E cmd \in Cmds : ClientSend(c, cmd)
  BY DEF Peers
<1>2. CASE Connect(c)
  BY <1>2 DEF Connect, Working
<1>3. CASE Leave(c)
  <2>1. PICK k \in 0..Len(wire[c]) : wire' = [wire EXCEPT ![c] = SubSeq(wire[c], 1, k)]
    BY <1>3 DEF Leave
  <2>2. SubSeq(wire[c], 1, k) \in Bytes
    <3>1. wire[c] \in Seq(Piece) /\ Len(wire[c]) \in Nat /\ k \in Int
      BY DEF Bytes
    <3>2. \A i \in 1..k : wire[c][i] \in Piece
      BY <3>1, ElementOfSeq
    <3>3. SubSeq(wire[c], 1, k) \in Seq(Piece)
      BY <3>1, <3>2, SubSeqProperties
    <3>4. QED
      BY <3>3 DEF Bytes
  <2>3. wire' \in [Clients -> Bytes]
    BY <2>1, <2>2
  <2>4. QED
    BY <1>3, <2>3 DEF Leave, Working
<1>4. CASE \E cmd \in Cmds : ClientSend(c, cmd)
  <2>1. PICK cmd \in Cmds : ClientSend(c, cmd)
    BY <1>4
  <2>2. sent[c] + 1 \in 1..MaxRequests
    BY <2>1, StreamAssumption DEF ClientSend
  <2> DEFINE r == [from |-> c, n |-> sent[c] + 1, cmd |-> cmd]
  <2>3. r \in Request
    BY <2>2 DEF Request
  <2>4. LineOf(r) \in Seq(Piece)
    BY <2>3 DEF LineOf, Piece
  <2>5. wire[c] \o LineOf(r) \in Bytes
    <3>1. wire[c] \in Seq(Piece)
      BY DEF Bytes
    <3>2. QED
      BY <2>4, <3>1, ConcatProperties DEF Bytes
  <2>6. wire' \in [Clients -> Bytes]
    BY <2>1, <2>5 DEF ClientSend
  <2>7. sent' \in [Clients -> 0..MaxRequests]
    BY <2>1, <2>2, StreamAssumption DEF ClientSend
  <2>8. QED
    BY <2>1, <2>6, <2>7 DEF ClientSend, Working
<1>5. QED
  BY <1>1, <1>2, <1>3, <1>4

(* The kernel turns outstanding operations into completed ones.            *)
LEMMA KernelInv == ASSUME StreamInv, Kernel PROVE StreamInv'
<1> USE DEF StreamInv, StreamTypeOK, past
<1>1. PICK c \in Clients : AcceptDone(c) \/ Arrive(c) \/ EndOfFile(c)
  BY DEF Kernel
<1>2. CASE AcceptDone(c)
  <2>1. stream.accepts - 1 \in Nat /\ stream.accepted \cup {c} \in SUBSET Clients
    BY <1>2 DEF AcceptDone, StreamType
  <2>2. stream' = [stream EXCEPT !.accepts = stream.accepts - 1,
                                 !.accepted = stream.accepted \cup {c}]
    BY <1>2 DEF AcceptDone
  <2>3. /\ stream'.accepted = stream.accepted \cup {c} /\ stream'.conn = stream.conn
        /\ stream'.reads = stream.reads /\ stream'.recvd = stream.recvd
        /\ stream'.failed = stream.failed
    BY <2>2 DEF StreamType
  <2>4. stream' \in StreamType
    BY <2>1, <2>2, FieldUpdate
  <2>5. deaf \/ Working(stream')
    BY <2>3 DEF Working
  <2>6. QED
    BY <1>2, <2>4, <2>5 DEF AcceptDone
<1>3. CASE Arrive(c)
  <2>1. PICK k \in 1..Len(wire[c]) :
          /\ stream' = [stream EXCEPT !.reads = stream.reads - 1,
                           !.recvd = Append(stream.recvd, SubSeq(wire[c], 1, k))]
          /\ wire' = [wire EXCEPT ![c] = SubSeq(wire[c], k + 1, Len(wire[c]))]
    BY <1>3 DEF Arrive
  <2>2. /\ SubSeq(wire[c], 1, k) \in Bytes
        /\ SubSeq(wire[c], k + 1, Len(wire[c])) \in Bytes
    <3>1. wire[c] \in Seq(Piece) /\ Len(wire[c]) \in Nat /\ k \in Nat
      BY DEF Bytes
    <3>2. /\ \A i \in 1..k : wire[c][i] \in Piece
          /\ \A i \in k + 1 .. Len(wire[c]) : wire[c][i] \in Piece
      BY <3>1, ElementOfSeq
    <3>3. SubSeq(wire[c], 1, k) \in Seq(Piece)
      BY <3>1, <3>2, SubSeqProperties
    <3>4. SubSeq(wire[c], k + 1, Len(wire[c])) \in Seq(Piece)
      BY <3>1, <3>2, SubSeqProperties
    <3>5. QED
      BY <3>3, <3>4 DEF Bytes
  <2>3. /\ stream.reads - 1 \in Nat
        /\ Append(stream.recvd, SubSeq(wire[c], 1, k)) \in Seq(Bytes)
        /\ Append(stream.recvd, SubSeq(wire[c], 1, k)) # <<>>
    <3>1. stream.reads - 1 \in Nat /\ stream.recvd \in Seq(Bytes)
      BY <1>3 DEF Arrive, StreamType
    <3> DEFINE chunk == SubSeq(wire[c], 1, k)
    <3>2. chunk \in Bytes
      BY <2>2
    <3> HIDE DEF chunk
    <3>3. Append(stream.recvd, chunk) \in Seq(Bytes) /\ Append(stream.recvd, chunk) # <<>>
      BY <3>1, <3>2, AppendProperties
    <3>4. QED
      BY <3>1, <3>3 DEF chunk
  <2>4. stream'.recvd # <<>>
    BY <2>1, <2>3 DEF StreamType
  <2>5. stream' \in StreamType
    BY <2>1, <2>3, FieldUpdate
  <2>6. Working(stream')
    BY <2>4 DEF Working
  <2>7. wire' \in [Clients -> Bytes]
    BY <2>1, <2>2
  <2>8. QED
    BY <1>3, <2>5, <2>6, <2>7 DEF Arrive
<1>4. CASE EndOfFile(c)
  <2>1. stream.reads - 1 \in Nat /\ stream.failed + 1 \in Nat /\ stream.failed + 1 > 0
    BY <1>4 DEF EndOfFile, StreamType
  <2>2. stream' = [stream EXCEPT !.reads = stream.reads - 1, !.failed = stream.failed + 1]
    BY <1>4 DEF EndOfFile
  <2>3. stream'.failed > 0
    BY <2>1, <2>2 DEF StreamType
  <2>4. stream' \in StreamType
    BY <2>1, <2>2, FieldUpdate
  <2>5. Working(stream')
    BY <2>3 DEF Working
  <2>6. QED
    BY <1>4, <2>4, <2>5 DEF EndOfFile
<1>5. QED
  BY <1>1, <1>2, <1>3, <1>4

(* What an outcome puts into the history.                                  *)
LEMMA HearsType ==
    ASSUME NEW o \in OutcomeType, Hears(o), heard \in Seq(Request), deaf \in BOOLEAN
    PROVE  heard' \in Seq(Request) /\ deaf' \in BOOLEAN /\ (o.threw => deaf')
<1>1. o.req = None \/ o.req \in Request
  BY DEF OutcomeType
<1>2. heard' = IF o.req = None THEN heard ELSE Append(heard, o.req)
  BY DEF Hears
<1>3. heard' \in Seq(Request)
  BY <1>1, <1>2, AppendProperties
<1>4. QED
  BY <1>3 DEF Hears, OutcomeType

(* A handler.                                                              *)
LEMMA RunOneInv == ASSUME StreamInv, RunOne PROVE StreamInv'
<1> USE DEF StreamInv, StreamTypeOK
<1>1. PICK o \in DispatchOutcomes(stream) : stream' = o.s /\ Hears(o)
  BY DEF RunOne
<1>2. o \in OutcomeType /\ (o.threw \/ Working(o.s))
  BY DispatchWorks
<1>3. heard' \in Seq(Request) /\ deaf' \in BOOLEAN /\ (o.threw => deaf')
  BY <1>2, HearsType, <1>1
<1>4. QED
  BY <1>1, <1>2, <1>3, OutcomeUpdate DEF RunOne, netVars

LEMMA HostInv == ASSUME StreamInv, Host PROVE StreamInv'
<1> USE DEF StreamInv, StreamTypeOK
<1>1. PICK o \in SendOutcomes(stream) :
        /\ stream' = o.s \/ stream' = Close(o.s)
        /\ Hears(o) /\ UNCHANGED netVars
  BY DEF Host, HostSend, HostExit
<1>2. o \in OutcomeType /\ o.s \in StreamType /\ ~o.threw /\ ~o.opened
  BY SendWorks, OutcomeUpdate
<1>3. heard' \in Seq(Request) /\ deaf' \in BOOLEAN
  BY <1>1, <1>2, HearsType
<1>4. deaf' \/ Working(o.s)
  <2>1. deaf /\ ~o.closed => deaf'
    BY <1>1, <1>2, <1>3 DEF Hears
  <2>2. Working(stream) \/ o.closed => Working(o.s)
    BY SendWorks
  <2>3. QED
    BY <2>1, <2>2
<1>5. stream' \in StreamType /\ (Working(o.s) => Working(stream'))
  BY <1>1, <1>2, ReconnectWorks
<1>6. QED
  BY <1>1, <1>3, <1>4, <1>5 DEF netVars

LEMMA StreamStepInv == StreamInv /\ [StreamStep]_streamVars => StreamInv'
<1>1. ASSUME StreamInv, UNCHANGED streamVars PROVE StreamInv'
  BY <1>1 DEF StreamInv, StreamTypeOK, streamVars, netVars, past
<1>2. QED
  BY <1>1, PeersInv, KernelInv, RunOneInv, HostInv DEF StreamStep

LEMMA StreamInvariant == StreamSafety => []StreamInv
BY StreamInitInv, StreamStepInv, PTL DEF StreamSafety

(* The state of the stream always has its type.                            *)
THEOREM StreamTypeCorrect == StreamSafety => []StreamTypeOK
<1>1. StreamInv => StreamTypeOK
  BY DEF StreamInv
<1>2. QED
  BY <1>1, StreamInvariant, PTL

(* However many clients connect, leave or send garbage, and however often  *)
(* sends fail, an open session is read and a closed socket comes back,     *)
(* unless a handler has been left by an error since that session or accept *)
(* began.                                                                  *)
THEOREM WorkAlwaysRemains == StreamSafety => []WorkRemains
<1>1. StreamInv => WorkRemains
  BY DEF StreamInv, Working, WorkRemains, OpenIsRead, ClosedComesBack
<1>2. QED
  BY <1>1, StreamInvariant, PTL

-----------------------------------------------------------------------------
(* The order of requests.  The pieces a client has sent are in read_buffer_, *)
(* in chunks received and on the wire, and in the order of this list those  *)
(* of one client have rising keys, beyond those of the first pieces of its  *)
(* requests executed (Tidy): a request may be executed for its first piece. *)

Key(p) == 2 * p.req.n + IF p.last THEN 1 ELSE 0
Before(p, q) == p.req.from = q.req.from => Key(p) < Key(q)

Rise(b) == \A i, j \in 1..Len(b) : i < j => Before(b[i], b[j])
Below(a, b) == \A i \in 1..Len(a), j \in 1..Len(b) : Before(a[i], b[j])
Past(h, b) ==
    \A i \in 1..Len(h), j \in 1..Len(b) : h[i].from = b[j].req.from => 2 * h[i].n < Key(b[j])
Old(b, n) == \A i \in 1..Len(b) : b[i].req.n <= n[b[i].req.from]
Own(b, c) == \A i \in 1..Len(b) : b[i].req.from = c
Fine(b, h, n) == b \in Bytes /\ Rise(b) /\ Past(h, b) /\ Old(b, n)

TidyChunks(s, h, n) ==
    /\ Fine(s.buf, h, n)
    /\ \A k \in 1..Len(s.recvd) : Fine(s.recvd[k], h, n) /\ Below(s.buf, s.recvd[k])
    /\ \A k, l \in 1..Len(s.recvd) : k < l => Below(s.recvd[k], s.recvd[l])

TidyWire(s, h, w, n) ==
    \A c \in Clients : /\ Fine(w[c], h, n) /\ Below(s.buf, w[c]) /\ Own(w[c], c)
                       /\ \A k \in 1..Len(s.recvd) : Below(s.recvd[k], w[c])

Told(h, n) ==
    /\ \A i \in 1..Len(h) : h[i].n <= n[h[i].from]
    /\ \A i, j \in 1..Len(h) : i < j /\ h[i].from = h[j].from => h[i].n < h[j].n

Tidy(s, h, w, n) == TidyChunks(s, h, n) /\ TidyWire(s, h, w, n) /\ Told(h, n)

LEMMA KeyFacts ==
    ASSUME NEW p \in Piece, NEW q \in Piece
    PROVE  /\ p.req.n \in Nat /\ p.req.from \in Clients /\ Key(p) \in Nat
           /\ 2 * p.req.n <= Key(p) /\ Key(p) <= 2 * p.req.n + 1
           /\ p.last => Key(p) = 2 * p.req.n + 1
           /\ ~p.last => Key(p) = 2 * p.req.n
           /\ p.req.n < q.req.n => Key(p) < Key(q)
           /\ Key(p) < Key(q) => p.req.n <= q.req.n
           /\ Key(p) < Key(q) /\ p.last => p.req.n < q.req.n
<1>1. p.req.n \in Nat /\ q.req.n \in Nat /\ p.req.from \in Clients
  BY StreamAssumption DEF Piece, Request
<1>2. Key(p) = 2 * p.req.n + (IF p.last THEN 1 ELSE 0) /\ Key(q) = 2 * q.req.n + (IF q.last THEN 1 ELSE 0)
  BY DEF Key
<1>3. QED
  BY <1>1, <1>2

LEMMA BytesFacts ==
    ASSUME NEW b \in Bytes
    PROVE  /\ Len(b) \in Nat /\ \A i \in 1..Len(b) : b[i] \in Piece
           /\ <<>> \in Bytes /\ b \in Seq(Piece)
BY DEF Bytes

(* A part of some bytes, and the rest behind it.                           *)
LEMMA CutFacts ==
    ASSUME NEW b \in Bytes, NEW m \in Nat, NEW n \in Nat, 1 <= m, n <= Len(b)
    PROVE  /\ SubSeq(b, m, n) \in Bytes
           /\ \A i \in 1..Len(SubSeq(b, m, n)) :
                SubSeq(b, m, n)[i] = b[m + i - 1] /\ m + i - 1 \in m..n /\ m + i - 1 \in 1..Len(b)
<1> DEFINE t == SubSeq(b, m, n)
<1>1. \A i \in m..n : i \in 1..Len(b) /\ b[i] \in Piece
  BY BytesFacts
<1>2. /\ t \in Seq(Piece) /\ Len(t) = IF m <= n THEN n - m + 1 ELSE 0
      /\ \A i \in 1..n - m + 1 : t[i] = b[m + i - 1]
  BY <1>1, SubSeqProperties
<1> HIDE DEF t
<1>3. \A i \in 1..Len(t) : i \in 1..n - m + 1 /\ m + i - 1 \in m..n /\ m + i - 1 \in 1..Len(b)
  BY <1>2, BytesFacts
<1>4. QED
  BY <1>2, <1>3 DEF t, Bytes

LEMMA CutKeeps ==
    ASSUME NEW b \in Bytes, NEW m \in Nat, NEW n \in Nat, 1 <= m, n <= Len(b),
           NEW h, NEW sn
    PROVE  /\ Fine(b, h, sn) => Fine(SubSeq(b, m, n), h, sn)
           /\ \A x : Below(x, b) => Below(x, SubSeq(b, m, n))
           /\ \A x : Below(b, x) => Below(SubSeq(b, m, n), x)
           /\ \A c : Own(b, c) => Own(SubSeq(b, m, n), c)
<1> DEFINE t == SubSeq(b, m, n)
<1>0. /\ t \in Bytes
      /\ \A i \in 1..Len(t) : t[i] = b[m + i - 1] /\ m + i - 1 \in m..n /\ m + i - 1 \in 1..Len(b)
  BY CutFacts, Zenon
<1> HIDE DEF t
<1>1. /\ t \in Bytes
      /\ \A i \in 1..Len(t) : t[i] = b[m + i - 1] /\ m + i - 1 \in 1..Len(b) /\ i \in Nat
  BY <1>0
<1>2. \A x : (Below(x, b) => Below(x, t)) /\ (Below(b, x) => Below(t, x))
  BY <1>1 DEF Below
<1>3. \A c : Own(b, c) => Own(t, c)
  BY <1>1 DEF Own
<1>4. Fine(b, h, sn) => Fine(t, h, sn)
  <2>1. SUFFICES ASSUME Fine(b, h, sn) PROVE Fine(t, h, sn)
    OBVIOUS
  <2>2. Rise(t)
    <3>1. ASSUME NEW i \in 1..Len(t), NEW j \in 1..Len(t), i < j PROVE Before(t[i], t[j])
      <4>1. m + i - 1 < m + j - 1
        BY <1>1, <3>1
      <4>2. QED
        BY <1>1, <2>1, <4>1 DEF Fine, Rise
    <3>2. QED
      BY <3>1 DEF Rise
  <2>3. Past(h, t) /\ Old(t, sn)
    BY <1>1, <2>1 DEF Fine, Past, Old
  <2>4. QED
    BY <1>1, <2>2, <2>3 DEF Fine
<1>5. QED
  BY <1>2, <1>3, <1>4 DEF t

LEMMA CutBelow ==
    ASSUME NEW b \in Bytes, Rise(b), NEW k \in 0..Len(b)
    PROVE  Below(SubSeq(b, 1, k), SubSeq(b, k + 1, Len(b)))
<1> DEFINE t == SubSeq(b, 1, k)
           u == SubSeq(b, k + 1, Len(b))
<1>1. Len(b) \in Nat /\ k \in Nat
  BY BytesFacts
<1>2. \A i \in 1..Len(t) : t[i] = b[1 + i - 1] /\ 1 + i - 1 \in 1..k /\ 1 + i - 1 \in 1..Len(b)
  BY <1>1, CutFacts
<1>3. \A i \in 1..Len(u) : /\ u[i] = b[k + 1 + i - 1] /\ k + 1 + i - 1 \in k + 1..Len(b)
                           /\ k + 1 + i - 1 \in 1..Len(b)
  BY <1>1, CutFacts
<1> HIDE DEF t, u
<1>4. ASSUME NEW i \in 1..Len(t), NEW j \in 1..Len(u) PROVE Before(t[i], u[j])
  <2>1. 1 + i - 1 < k + 1 + j - 1
    BY <1>1, <1>2, <1>3
  <2>2. QED
    BY <1>2, <1>3, <2>1 DEF Rise
<1>5. QED
  BY <1>4 DEF Below, t, u

(* One piece of bytes behind another.                                      *)
LEMMA JoinFacts ==
    ASSUME NEW a \in Bytes, NEW b \in Bytes
    PROVE  /\ a \o b \in Bytes /\ Len(a \o b) = Len(a) + Len(b)
           /\ \A i \in 1..Len(a \o b) :
                \/ i \in 1..Len(a) /\ (a \o b)[i] = a[i]
                \/ i - Len(a) \in 1..Len(b) /\ (a \o b)[i] = b[i - Len(a)] /\ i > Len(a)
BY DEF Bytes

LEMMA JoinKeeps ==
    ASSUME NEW a \in Bytes, NEW b \in Bytes, NEW h, NEW sn,
           Fine(a, h, sn), Fine(b, h, sn), Below(a, b)
    PROVE  /\ Fine(a \o b, h, sn)
           /\ \A x : Below(x, a) /\ Below(x, b) => Below(x, a \o b)
           /\ \A x : Below(a, x) /\ Below(b, x) => Below(a \o b, x)
<1> DEFINE t == a \o b
<1>1. /\ t \in Bytes /\ Len(a) \in Nat
      /\ \A i \in 1..Len(t) :
           \/ i \in 1..Len(a) /\ t[i] = a[i]
           \/ i - Len(a) \in 1..Len(b) /\ t[i] = b[i - Len(a)] /\ i > Len(a)
  BY JoinFacts, BytesFacts
<1> HIDE DEF t
<1>2. Rise(t)
  <2>1. ASSUME NEW i \in 1..Len(t), NEW j \in 1..Len(t), i < j PROVE Before(t[i], t[j])
    <3>1. CASE i \in 1..Len(a) /\ t[i] = a[i] /\ j \in 1..Len(a) /\ t[j] = a[j]
      BY <2>1, <3>1 DEF Fine, Rise
    <3>2. CASE i \in 1..Len(a) /\ t[i] = a[i] /\ j - Len(a) \in 1..Len(b) /\ t[j] = b[j - Len(a)]
      BY <3>2 DEF Below
    <3>3. CASE /\ i - Len(a) \in 1..Len(b) /\ t[i] = b[i - Len(a)] /\ i > Len(a)
               /\ j - Len(a) \in 1..Len(b) /\ t[j] = b[j - Len(a)]
      <4>1. i - Len(a) < j - Len(a)
        BY <1>1, <2>1
      <4>2. QED
        BY <3>3, <4>1 DEF Fine, Rise
    <3>4. ~(i > Len(a) /\ j \in 1..Len(a))
      BY <1>1, <2>1
    <3>5. QED
      BY <1>1, <3>1, <3>2, <3>3, <3>4
  <2>2. QED
    BY <2>1 DEF Rise
<1>3. Past(h, t) /\ Old(t, sn)
  BY <1>1 DEF Fine, Past, Old
<1>4. \A x : Below(x, a) /\ Below(x, b) => Below(x, t)
  BY <1>1 DEF Below
<1>5. \A x : Below(a, x) /\ Below(b, x) => Below(t, x)
  BY <1>1 DEF Below
<1>6. QED
  BY <1>1, <1>2, <1>3, <1>4, <1>5 DEF Fine, t

(* The first piece of a line that begins with a request.                   *)
LEMMA FirstPiece ==
    ASSUME NEW b \in Bytes, NEW r, Begins(Line(b), r)
    PROVE  /\ 1 \in 1..Len(b) /\ b[1] \in Piece /\ ~b[1].last /\ b[1].req = r
           /\ LineLength(b) \in 1..Len(b)
<1>1. /\ LineLength(b) \in 0..Len(b) /\ Len(b) \in Nat /\ Line(b) = SubSeq(b, 1, LineLength(b))
  BY LineWithinBuffer, BytesFacts DEF Line
<1>2. \A i \in 1..LineLength(b) : i \in 1..Len(b) /\ b[i] \in Piece
  BY <1>1, BytesFacts
<1>3. /\ Len(Line(b)) = IF 1 <= LineLength(b) THEN LineLength(b) - 1 + 1 ELSE 0
      /\ \A i \in 1..LineLength(b) - 1 + 1 : Line(b)[i] = b[1 + i - 1]
  BY <1>1, <1>2, SubSeqProperties
<1>4. 1 \in 1..LineLength(b) /\ 1 \in 1..LineLength(b) - 1 + 1
  BY <1>1, <1>3 DEF Begins
<1>5. Line(b)[1] = b[1]
  BY <1>3, <1>4
<1>6. QED
  BY <1>1, <1>2, <1>4, <1>5 DEF Begins

(* What is executed is behind what remains.                                *)
LEMMA LinePast ==
    ASSUME NEW b \in Bytes, NEW h \in Seq(Request), NEW sn, Fine(b, h, sn),
           NEW r, Begins(Line(b), r),
           NEW x \in Bytes, Past(h, x), Below(b, x)
    PROVE  Past(Append(h, r), x) /\ Past(Append(h, r), AfterLine(b))
<1>1. /\ 1 \in 1..Len(b) /\ b[1] \in Piece /\ ~b[1].last /\ b[1].req = r
      /\ LineLength(b) \in 1..Len(b) /\ Len(b) \in Nat
  BY FirstPiece, BytesFacts
<1>2. \A j \in 1..Len(AfterLine(b)) : Before(b[1], AfterLine(b)[j])
  <2>1. \A j \in 1..Len(AfterLine(b)) :
          /\ AfterLine(b)[j] = b[LineLength(b) + 1 + j - 1]
          /\ LineLength(b) + 1 + j - 1 \in LineLength(b) + 1..Len(b)
          /\ LineLength(b) + 1 + j - 1 \in 1..Len(b)
    <3>1. /\ LineLength(b) + 1 \in Nat /\ 1 <= LineLength(b) + 1
          /\ Len(b) \in Nat /\ Len(b) <= Len(b)
      BY <1>1
    <3>2. QED
      BY <3>1, CutFacts DEF AfterLine
  <2>2. \A j \in 1..Len(AfterLine(b)) : 1 < LineLength(b) + 1 + j - 1
    BY <1>1, <2>1
  <2>3. QED
    BY <1>1, <2>1, <2>2 DEF Fine, Rise
<1>3. ASSUME NEW y \in Bytes, Past(h, y), \A j \in 1..Len(y) : Before(b[1], y[j])
      PROVE  Past(Append(h, r), y)
  <2>1. ASSUME NEW j \in 1..Len(y), r.from = y[j].req.from PROVE 2 * r.n < Key(y[j])
    <3>1. Key(b[1]) < Key(y[j]) /\ Key(b[1]) = 2 * r.n
      BY <1>1, <1>3, <2>1, KeyFacts DEF Before
    <3>2. QED
      BY <3>1
  <2>2. \A i \in 1..Len(Append(h, r)) :
          Append(h, r)[i] = r \/ (i \in 1..Len(h) /\ Append(h, r)[i] = h[i])
    <3>1. Len(Append(h, r)) = Len(h) + 1 /\ Len(h) \in Nat
      OBVIOUS
    <3>2. QED
      BY <3>1
  <2>3. QED
    BY <1>3, <2>1, <2>2 DEF Past
<1>4. AfterLine(b) \in Bytes /\ Past(h, AfterLine(b))
  <2>1. Fine(AfterLine(b), h, sn)
    BY <1>1, CutKeeps DEF AfterLine
  <2>2. QED
    BY <2>1 DEF Fine
<1>5. \A j \in 1..Len(x) : Before(b[1], x[j])
  BY <1>1 DEF Below
<1>6. QED
  BY <1>2, <1>3, <1>4, <1>5

LEMMA LineTold ==
    ASSUME NEW b \in Bytes, NEW h \in Seq(Request), NEW sn, Fine(b, h, sn), Told(h, sn),
           NEW r, Begins(Line(b), r)
    PROVE  Told(Append(h, r), sn) /\ Append(h, r) \in Seq(Request)
<1>1. 1 \in 1..Len(b) /\ b[1] \in Piece /\ ~b[1].last /\ b[1].req = r
  BY FirstPiece
<1>2. r \in Request /\ r.n \in Nat /\ Key(b[1]) = 2 * r.n
  BY <1>1, KeyFacts DEF Piece
<1>3. r.n <= sn[r.from] /\ \A i \in 1..Len(h) : h[i].from = r.from => h[i].n < r.n
  <2>1. ASSUME NEW i \in 1..Len(h), h[i].from = r.from PROVE h[i].n < r.n
    <3>1. 2 * h[i].n < 2 * r.n
      BY <1>1, <1>2, <2>1 DEF Fine, Past
    <3>2. h[i].n \in Nat
      <4>1. h[i] \in Request
        BY <2>1, ElementOfSeq
      <4>2. QED
        BY <4>1, StreamAssumption DEF Request
    <3>3. QED
      BY <1>2, <3>1, <3>2
  <2>2. QED
    BY <1>1, <2>1 DEF Fine, Old
<1>4. /\ Append(h, r) \in Seq(Request) /\ Len(h) \in Nat /\ Len(Append(h, r)) = Len(h) + 1
      /\ \A i \in 1..Len(h) : Append(h, r)[i] = h[i]
      /\ Append(h, r)[Len(h) + 1] = r
  BY <1>2, AppendProperties
<1> DEFINE g == Append(h, r)
<1> HIDE DEF g
<1>5. \A i \in 1..Len(g) : (i \in 1..Len(h) /\ g[i] = h[i]) \/ (i = Len(h) + 1 /\ g[i] = r)
  BY <1>4 DEF g
<1>6. \A i \in 1..Len(g) : g[i].n <= sn[g[i].from]
  BY <1>3, <1>5 DEF Told
<1>7. ASSUME NEW i \in 1..Len(g), NEW j \in 1..Len(g), i < j, g[i].from = g[j].from
      PROVE  g[i].n < g[j].n
  <2>1. i \in 1..Len(h) /\ g[i] = h[i]
    BY <1>4, <1>5, <1>7
  <2>2. CASE j \in 1..Len(h) /\ g[j] = h[j]
    BY <1>7, <2>1, <2>2 DEF Told
  <2>3. CASE g[j] = r
    BY <1>3, <1>7, <2>1, <2>3
  <2>4. QED
    BY <1>5, <2>2, <2>3
<1>8. QED
  BY <1>4, <1>6, <1>7 DEF Told, g

-----------------------------------------------------------------------------
(* What the member functions do to the bytes: nothing, or an empty chunk   *)
(* behind the others.                                                      *)

Like(s, t) == t.buf = s.buf /\ (t.recvd = s.recvd \/ t.recvd = Append(s.recvd, <<>>))

LEMMA LikeTidy ==
    ASSUME NEW s \in StreamType, NEW t \in StreamType, Like(s, t), NEW h, NEW w, NEW n,
           Tidy(s, h, w, n)
    PROVE  Tidy(t, h, w, n)
<1>1. s.recvd \in Seq(Bytes) /\ Len(s.recvd) \in Nat
  BY DEF StreamType
<1>2. \A k \in 1..Len(t.recvd) :
        (k \in 1..Len(s.recvd) /\ t.recvd[k] = s.recvd[k]) \/ t.recvd[k] = <<>>
  <2>1. CASE t.recvd = s.recvd
    BY <2>1
  <2>2. CASE t.recvd = Append(s.recvd, <<>>)
    <3>1. <<>> \in Bytes
      BY DEF Bytes
    <3>2. QED
      BY <1>1, <2>2, <3>1
  <2>3. QED
    BY <2>1, <2>2 DEF Like
<1>3. <<>> \in Bytes /\ Len(<<>>) = 0
  BY DEF Bytes
<1>4. Fine(<<>>, h, n) /\ \A x : Below(x, <<>>) /\ Below(<<>>, x)
  BY <1>3 DEF Fine, Rise, Past, Old, Below
<1>5. TidyChunks(t, h, n)
  BY <1>2, <1>4 DEF Tidy, TidyChunks, Like
<1>6. TidyWire(t, h, w, n)
  BY <1>2, <1>4 DEF Tidy, TidyWire, Like
<1>7. QED
  BY <1>5, <1>6 DEF Tidy

LEMMA LikeFacts ==
    ASSUME NEW s \in StreamType
    PROVE  /\ Like(s, Close(s)) /\ Like(s, Reconnect(s)) /\ Like(s, StartReceive(s))
           /\ Like(s, ReadSome(s))
           /\ Close(s).recvd = s.recvd /\ Reconnect(s).recvd = s.recvd
           /\ ReadSome(s).recvd = s.recvd
<1>1. Close(s).buf = s.buf /\ Close(s).recvd = s.recvd /\ Close(s) \in StreamType
  BY ReconnectWorks DEF Close, StreamType
<1>2. Reconnect(s).buf = s.buf /\ Reconnect(s).recvd = s.recvd
  BY <1>1 DEF Reconnect, AsyncAccept, StreamType
<1>3. ReadSome(s).buf = s.buf /\ ReadSome(s).recvd = s.recvd
  BY DEF ReadSome, StreamType
<1>4. CASE HasLine(s.buf)
  <2>1. StartReceive(s) = [s EXCEPT !.recvd = Append(s.recvd, <<>>)]
    BY <1>4 DEF StartReceive
  <2>2. StartReceive(s).buf = s.buf /\ StartReceive(s).recvd = Append(s.recvd, <<>>)
    BY <2>1 DEF StreamType
  <2>3. QED
    BY <1>1, <1>2, <1>3, <2>2 DEF Like
<1>5. CASE ~HasLine(s.buf)
  BY <1>1, <1>2, <1>3, <1>5 DEF Like, StartReceive
<1>6. QED
  BY <1>4, <1>5

(* A message sent, or lost with the session.                               *)
LEMMA SendLike ==
    ASSUME NEW s \in StreamType, NEW o \in SendOutcomes(s)
    PROVE  /\ o \in OutcomeType /\ o.s \in StreamType /\ o.req = None
           /\ o.s.buf = s.buf /\ o.s.recvd = s.recvd
           /\ Like(s, StartReceive(o.s)) /\ StartReceive(o.s) \in StreamType
<1>1. o \in OutcomeType /\ o.s \in StreamType /\ o.req = None
  BY SendWorks, OutcomeUpdate
<1>2. o.s = s \/ o.s = Reconnect(s)
  BY DEF SendOutcomes, Sent, Lost
<1>3. Reconnect(s).buf = s.buf
  BY LikeFacts DEF Like
<1>4. o.s.buf = s.buf /\ o.s.recvd = s.recvd
  BY <1>2, <1>3, LikeFacts
<1>5. Like(o.s, StartReceive(o.s)) /\ StartReceive(o.s) \in StreamType
  BY <1>1, LikeFacts, StartReceiveWorks
<1>6. QED
  BY <1>1, <1>4, <1>5 DEF Like

-----------------------------------------------------------------------------
(* The steps.                                                              *)

OrderInv == StreamInv /\ Tidy(stream, heard, wire, sent)

(* A completed read: its chunk joins the buffer, and a line may leave it.  *)
LEMMA ReadTidy ==
    ASSUME NEW s \in StreamType, s.recvd # <<>>, NEW o \in ReadOutcomes(s),
           NEW h \in Seq(Request), NEW w, NEW n, Tidy(s, h, w, n),
           NEW g, g = IF o.req = None THEN h ELSE Append(h, o.req)
    PROVE  Tidy(o.s, g, w, n)
<1> DEFINE t == [s EXCEPT !.recvd = Tail(s.recvd), !.buf = s.buf \o Head(s.recvd)]
           u == [t EXCEPT !.buf = AfterLine(t.buf)]
<1>1. /\ s.recvd \in Seq(Bytes) /\ s.buf \in Bytes
      /\ Head(s.recvd) = s.recvd[1] /\ s.recvd[1] \in Bytes /\ 1 \in 1..Len(s.recvd)
      /\ Tail(s.recvd) \in Seq(Bytes)
      /\ \A k \in 1..Len(Tail(s.recvd)) :
           Tail(s.recvd)[k] = s.recvd[k + 1] /\ k \in Nat /\ k + 1 \in 1..Len(s.recvd) /\ 1 < k + 1
  <2>1. s.recvd \in Seq(Bytes) /\ s.buf \in Bytes
    BY DEF StreamType
  <2>2. QED
    BY <2>1, HeadTailProperties
<1> DEFINE joined == s.buf \o Head(s.recvd)
<1>2. joined \in Bytes
  BY <1>1, JoinFacts
<1>3. /\ t \in StreamType /\ t.buf = joined /\ t.recvd = Tail(s.recvd)
      /\ AfterLine(joined) \in Bytes
      /\ u \in StreamType /\ u.buf = AfterLine(joined) /\ u.recvd = Tail(s.recvd)
  <2>1. t \in StreamType
    BY <1>1, <1>2, FieldUpdate
  <2>2. t.buf = joined /\ t.recvd = Tail(s.recvd)
    BY <2>1 DEF StreamType
  <2>3. AfterLine(joined) \in Bytes
    BY <1>2, LineType
  <2>4. u \in StreamType
    BY <2>1, <2>2, <2>3, FieldUpdate
  <2>5. u.buf = AfterLine(t.buf) /\ u.recvd = t.recvd
    BY <2>1 DEF StreamType
  <2>6. QED
    BY <2>1, <2>2, <2>3, <2>4, <2>5
<1>4. \/ o = Sent(ReadSome(t))
      \/ \E q \in ExecuteOutcomes(u, Line(joined)) :
            o = [q EXCEPT !.s = IF q.threw THEN q.s ELSE StartReceive(q.s)]
  BY <1>3 DEF ReadOutcomes
<1> HIDE DEF t, u
<1>5. /\ Fine(s.buf, h, n) /\ Fine(s.recvd[1], h, n) /\ Below(s.buf, s.recvd[1])
      /\ TidyChunks(s, h, n) /\ TidyWire(s, h, w, n) /\ Told(h, n)
  BY <1>1 DEF Tidy, TidyChunks
<1>6. /\ Fine(joined, h, n)
      /\ \A k \in 1..Len(Tail(s.recvd)) : Below(joined, Tail(s.recvd)[k])
      /\ \A c \in Clients : Below(joined, w[c])
  <2>1. Fine(joined, h, n) /\ \A x : Below(s.buf, x) /\ Below(s.recvd[1], x) => Below(joined, x)
    BY <1>1, <1>5, JoinKeeps
  <2>2. \A k \in 1..Len(Tail(s.recvd)) :
          Below(s.buf, Tail(s.recvd)[k]) /\ Below(s.recvd[1], Tail(s.recvd)[k])
    BY <1>1, <1>5 DEF TidyChunks
  <2>3. \A c \in Clients : Below(s.buf, w[c]) /\ Below(s.recvd[1], w[c])
    BY <1>1, <1>5 DEF TidyWire
  <2>4. QED
    BY <2>1, <2>2, <2>3
<1> HIDE DEF joined
<1>7. /\ \A k, l \in 1..Len(Tail(s.recvd)) : k < l => Below(Tail(s.recvd)[k], Tail(s.recvd)[l])
      /\ \A k \in 1..Len(Tail(s.recvd)) : Fine(Tail(s.recvd)[k], h, n)
      /\ \A c \in Clients : /\ Fine(w[c], h, n) /\ Own(w[c], c)
                             /\ \A k \in 1..Len(Tail(s.recvd)) : Below(Tail(s.recvd)[k], w[c])
  <2>1. \A k, l \in 1..Len(Tail(s.recvd)) : k < l => k + 1 < l + 1
    BY <1>1
  <2>2. QED
    BY <1>1, <1>5, <2>1 DEF TidyChunks, TidyWire
<1>8. Tidy(t, h, w, n)
  BY <1>3, <1>5, <1>6, <1>7 DEF Tidy, TidyChunks, TidyWire
<1>9. CASE o = Sent(ReadSome(t))
  <2>1. o.s = ReadSome(t) /\ o.req = None /\ ReadSome(t) \in StreamType /\ Like(t, ReadSome(t))
    BY <1>3, <1>9, LikeFacts, StartReceiveWorks DEF Sent
  <2>2. QED
    BY <1>3, <1>8, <2>1, LikeTidy
<1>10. CASE \E q \in ExecuteOutcomes(u, Line(joined)) :
              o = [q EXCEPT !.s = IF q.threw THEN q.s ELSE StartReceive(q.s)]
  <2>1. PICK q \in ExecuteOutcomes(u, Line(joined)) :
          o = [q EXCEPT !.s = IF q.threw THEN q.s ELSE StartReceive(q.s)]
    BY <1>10
  <2>2. LineLength(joined) \in Nat /\ LineLength(joined) <= Len(joined) /\ Len(joined) \in Nat
    BY <1>2, LineWithinBuffer, BytesFacts
  <2>3. /\ Fine(AfterLine(joined), h, n)
        /\ \A x : Below(joined, x) => Below(AfterLine(joined), x)
    <3>1. /\ LineLength(joined) + 1 \in Nat /\ 1 <= LineLength(joined) + 1 /\ Len(joined) <= Len(joined)
      BY <2>2
    <3>2. QED
      BY <1>2, <1>6, <2>2, <3>1, CutKeeps DEF AfterLine
  <2>4. ASSUME NEW f \in Seq(Request), Told(f, n), Past(f, AfterLine(joined)),
               \A k \in 1..Len(Tail(s.recvd)) : Past(f, Tail(s.recvd)[k]),
               \A c \in Clients : Past(f, w[c])
        PROVE  Tidy(u, f, w, n)
    <3>1. Fine(AfterLine(joined), f, n)
      BY <2>3, <2>4 DEF Fine
    <3>2. \A k \in 1..Len(Tail(s.recvd)) :
            Fine(Tail(s.recvd)[k], f, n) /\ Below(AfterLine(joined), Tail(s.recvd)[k])
      BY <1>6, <1>7, <2>3, <2>4 DEF Fine
    <3>3. \A c \in Clients : Fine(w[c], f, n) /\ Below(AfterLine(joined), w[c])
      BY <1>6, <1>7, <2>3, <2>4 DEF Fine
    <3>4. QED
      BY <1>3, <1>7, <2>4, <3>1, <3>2, <3>3 DEF Tidy, TidyChunks, TidyWire
  <2>5. ASSUME NEW r, Begins(Line(joined), r)
        PROVE  Tidy(u, Append(h, r), w, n)
    <3>1. Told(Append(h, r), n) /\ Append(h, r) \in Seq(Request)
      BY <1>2, <1>5, <1>6, <2>5, LineTold
    <3>2. ASSUME NEW x \in Bytes, Past(h, x), Below(joined, x)
          PROVE  Past(Append(h, r), x) /\ Past(Append(h, r), AfterLine(joined))
      BY <1>2, <1>6, <2>5, <3>2, LinePast
    <3>3. Past(Append(h, r), AfterLine(joined))
      <4>1. <<>> \in Bytes /\ Past(h, <<>>) /\ Below(joined, <<>>)
        BY <1>2, BytesFacts DEF Past, Below
      <4>2. QED
        BY <3>2, <4>1
    <3>4. /\ \A k \in 1..Len(Tail(s.recvd)) : Past(Append(h, r), Tail(s.recvd)[k])
          /\ \A c \in Clients : Past(Append(h, r), w[c])
      BY <1>6, <1>7, <3>2 DEF Fine
    <3>5. QED
      BY <2>4, <3>1, <3>3, <3>4
  <2>6. Tidy(u, h, w, n)
    BY <1>5, <1>7, <2>3, <2>4 DEF Fine
  <2>7. /\ q \in OutcomeType
        /\ q.s = u \/ \E p \in SendOutcomes(u) : q.s = p.s
        /\ q.req = None \/ Begins(Line(joined), q.req)
    BY <1>2, <1>3, <2>1, ExecuteFacts
  <2>8. /\ q.s \in StreamType /\ StartReceive(q.s) \in StreamType
        /\ Like(u, q.s) /\ Like(u, StartReceive(q.s))
    <3>1. CASE q.s = u
      BY <1>3, <3>1, LikeFacts, StartReceiveWorks DEF Like
    <3>2. CASE \E p \in SendOutcomes(u) : q.s = p.s
      BY <1>3, <3>2, SendLike DEF Like
    <3>3. QED
      BY <2>7, <3>1, <3>2
  <2>9. o.req = q.req /\ (o.s = q.s \/ o.s = StartReceive(q.s))
    BY <2>1, <2>7 DEF OutcomeType
  <2>10. Tidy(u, g, w, n)
    BY <2>5, <2>6, <2>7, <2>9
  <2>11. QED
    BY <1>3, <2>8, <2>9, <2>10, LikeTidy
<1>11. QED
  BY <1>4, <1>9, <1>10

LEMMA RunOneTidy == ASSUME OrderInv, RunOne PROVE Tidy(stream, heard, wire, sent)'
<1>1. PICK o \in DispatchOutcomes(stream) : stream' = o.s /\ Hears(o)
  BY DEF RunOne
<1>2. /\ stream \in StreamType /\ heard \in Seq(Request) /\ UNCHANGED <<wire, sent>>
      /\ Tidy(stream, heard, wire, sent)
  BY DEF OrderInv, StreamInv, StreamTypeOK, RunOne, netVars
<1>3. SUFFICES Tidy(o.s, heard', wire, sent)
  BY <1>1, <1>2
<1>4. \/ \E c \in stream.accepted : o \in AcceptOutcomes(stream, c)
      \/ stream.recvd # <<>> /\ o \in ReadOutcomes(stream)
      \/ stream.failed > 0 /\ o \in FailOutcomes(stream)
  BY DEF DispatchOutcomes
<1>5. heard' = IF o.req = None THEN heard ELSE Append(heard, o.req)
  BY <1>1 DEF Hears
<1>6. ASSUME NEW t \in StreamType, t.buf = stream.buf, t.recvd = stream.recvd, o = Lost(t)
      PROVE  Tidy(o.s, heard', wire, sent)
  <2>1. o.s = Reconnect(t) /\ o.req = None /\ Reconnect(t) \in StreamType
    BY <1>6, SentLostWorks, ReconnectWorks
  <2>2. Like(stream, Reconnect(t))
    BY <1>6, LikeFacts DEF Like
  <2>3. QED
    BY <1>2, <1>5, <2>1, <2>2, LikeTidy
<1>7. CASE \E c \in stream.accepted : o \in AcceptOutcomes(stream, c)
  <2>1. PICK c \in stream.accepted : o \in AcceptOutcomes(stream, c)
    BY <1>7
  <2> DEFINE t == [stream EXCEPT !.accepted = stream.accepted \ {c}]
             v == [t EXCEPT !.conn = c]
  <2>2. c \in Clients /\ stream.accepted \ {c} \in SUBSET Clients
    BY <1>2 DEF StreamType
  <2>3. /\ t \in StreamType /\ t.buf = stream.buf /\ t.recvd = stream.recvd
        /\ v \in StreamType /\ v.buf = stream.buf /\ v.recvd = stream.recvd
    <3>1. t \in StreamType
      BY <1>2, <2>2, FieldUpdate
    <3>2. v \in StreamType
      BY <2>2, <3>1, FieldUpdate
    <3>3. QED
      BY <1>2, <3>1, <3>2 DEF StreamType
  <2>4. CASE o \in ConnectedDone(v)
    <3> HIDE DEF t, v
    <3>1. PICK q \in SendOutcomes(v) : o = [q EXCEPT !.s = StartReceive(q.s), !.opened = TRUE]
      BY <2>4 DEF ConnectedDone
    <3>2. /\ q \in OutcomeType /\ q.req = None /\ Like(v, StartReceive(q.s))
          /\ StartReceive(q.s) \in StreamType
      BY <2>3, SendLike
    <3>3. o.s = StartReceive(q.s) /\ o.req = None
      BY <3>1, <3>2 DEF OutcomeType
    <3>4. Like(stream, StartReceive(q.s))
      BY <2>3, <3>2 DEF Like
    <3>5. QED
      BY <1>2, <1>5, <3>2, <3>3, <3>4, LikeTidy
  <2>5. CASE o = Lost(t)
    BY <1>6, <2>3, <2>5
  <2>6. QED
    BY <2>1, <2>4, <2>5 DEF AcceptOutcomes
<1>8. CASE stream.recvd # <<>> /\ o \in ReadOutcomes(stream)
  BY <1>2, <1>5, <1>8, ReadTidy
<1>9. CASE stream.failed > 0 /\ o \in FailOutcomes(stream)
  <2> DEFINE t == [stream EXCEPT !.failed = stream.failed - 1]
  <2>1. stream.failed - 1 \in Nat
    BY <1>2, <1>9 DEF StreamType
  <2>2. t \in StreamType
    BY <1>2, <2>1, FieldUpdate
  <2>3. t.buf = stream.buf /\ t.recvd = stream.recvd /\ o = Lost(t)
    BY <1>2, <1>9 DEF FailOutcomes, StreamType
  <2>4. QED
    BY <1>6, <2>2, <2>3
<1>10. QED
  BY <1>4, <1>7, <1>8, <1>9

(* The pieces of a client behind its pieces.                               *)
LEMMA JoinOwn ==
    ASSUME NEW a \in Bytes, NEW b \in Bytes, NEW d, Own(a, d),
           \A i \in 1..Len(b) : b[i].req.from = d
    PROVE  Own(a \o b, d)
<1>1. ASSUME NEW i \in 1..Len(a \o b) PROVE (a \o b)[i].req.from = d
  <2>1. \/ i \in 1..Len(a) /\ (a \o b)[i] = a[i]
        \/ i - Len(a) \in 1..Len(b) /\ (a \o b)[i] = b[i - Len(a)]
    BY DEF Bytes
  <2>2. CASE i \in 1..Len(a) /\ (a \o b)[i] = a[i]
    BY <2>2 DEF Own
  <2>3. CASE i - Len(a) \in 1..Len(b) /\ (a \o b)[i] = b[i - Len(a)]
    BY <2>3
  <2>4. QED
    BY <2>1, <2>2, <2>3
<1>2. QED
  BY <1>1 DEF Own

(* A request that is sent is a new one of its client.                      *)
LEMMA SendTidy ==
    ASSUME OrderInv, NEW c \in Clients, NEW cmd \in Cmds, ClientSend(c, cmd)
    PROVE  Tidy(stream, heard, wire, sent)'
<1> DEFINE r == [from |-> c, n |-> sent[c] + 1, cmd |-> cmd]
           new == LineOf(r)
<1>1. /\ stream \in StreamType /\ heard \in Seq(Request) /\ wire \in [Clients -> Bytes]
      /\ sent \in [Clients -> 0..MaxRequests] /\ Tidy(stream, heard, wire, sent)
  BY DEF OrderInv, StreamInv, StreamTypeOK
<1>2. /\ UNCHANGED <<stream, heard>> /\ sent[c] < MaxRequests
      /\ sent' = [sent EXCEPT ![c] = sent[c] + 1]
      /\ wire' = [wire EXCEPT ![c] = wire[c] \o new]
  BY DEF ClientSend, past
<1>3. sent[c] \in Nat /\ r \in Request /\ r.n = sent[c] + 1 /\ r.from = c
  BY <1>1, <1>2, StreamAssumption DEF Request
<1>4. /\ new \in Bytes /\ Len(new) = 2
      /\ new[1] = [req |-> r, last |-> FALSE] /\ new[2] = [req |-> r, last |-> TRUE]
      /\ \A i \in 1..Len(new) : new[i] \in Piece /\ new[i].req = r
  <2>1. new = <<[req |-> r, last |-> FALSE], [req |-> r, last |-> TRUE]>>
    BY DEF LineOf
  <2>2. [req |-> r, last |-> FALSE] \in Piece /\ [req |-> r, last |-> TRUE] \in Piece
    BY <1>3 DEF Piece
  <2> HIDE DEF r, new
  <2>3. /\ new \in Seq(Piece) /\ Len(new) = 2
        /\ new[1] = [req |-> r, last |-> FALSE] /\ new[2] = [req |-> r, last |-> TRUE]
    BY <2>1, <2>2
  <2>4. ASSUME NEW i \in 1..Len(new) PROVE new[i] \in Piece /\ new[i].req = r
    <3>1. i = 1 \/ i = 2
      BY <2>3
    <3>2. new[i] \in Piece
      BY <2>2, <2>3, <3>1, Zenon
    <3>3. new[1].req = r /\ new[2].req = r
      BY <2>3
    <3>4. QED
      BY <3>1, <3>2, <3>3, Zenon
  <2>5. QED
    BY <2>3, <2>4 DEF Bytes
<1> HIDE DEF new, r
<1>5. \A d \in Clients : sent[d] \in Nat /\ sent'[d] \in Nat /\ sent[d] <= sent'[d] /\ sent'[c] = sent[c] + 1
  BY <1>1, <1>2, <1>3, StreamAssumption
<1>6. \A p \in Piece : p.req.n <= sent[p.req.from] => p.req.n <= sent'[p.req.from]
  BY <1>5, KeyFacts
<1>7. \A b : Fine(b, heard, sent) => Fine(b, heard, sent')
  <2>1. SUFFICES ASSUME NEW b, Fine(b, heard, sent) PROVE Old(b, sent')
    BY DEF Fine
  <2>2. QED
    BY <1>6, <2>1, BytesFacts DEF Fine, Old
<1>8. ASSUME NEW b, Fine(b, heard, sent) PROVE Below(b, new)
  <2>1. ASSUME NEW i \in 1..Len(b), NEW j \in 1..Len(new), b[i].req.from = new[j].req.from
        PROVE  Key(b[i]) < Key(new[j])
    <3>1. b[i] \in Piece /\ b[i].req.n <= sent[c] /\ b[i].req.n \in Nat
      <4>1. b[i] \in Piece /\ b[i].req.n <= sent[b[i].req.from]
        BY <1>8, BytesFacts DEF Fine, Old
      <4>2. b[i].req.from = c
        BY <1>3, <1>4, <2>1
      <4>3. QED
        BY <4>1, <4>2, KeyFacts
    <3>2. b[i].req.n < new[j].req.n
      BY <1>3, <1>4, <3>1
    <3>3. QED
      BY <1>4, <3>1, <3>2, KeyFacts
  <2>2. QED
    BY <2>1 DEF Below, Before
<1>9. Fine(new, heard, sent')
  <2>1. Rise(new)
    <3>1. ASSUME NEW i \in 1..Len(new), NEW j \in 1..Len(new), i < j PROVE Key(new[i]) < Key(new[j])
      <4>1. i = 1 /\ j = 2
        BY <1>4, <3>1
      <4>2. Key(new[1]) = 2 * r.n /\ Key(new[2]) = 2 * r.n + 1 /\ r.n \in Nat
        BY <1>3, <1>4 DEF Key
      <4>3. QED
        BY <4>1, <4>2
    <3>2. QED
      BY <3>1 DEF Rise, Before
  <2>2. Past(heard, new)
    <3>1. ASSUME NEW i \in 1..Len(heard), heard[i].from = r.from PROVE 2 * heard[i].n < 2 * r.n
      <4>1. heard[i].n <= sent[c] /\ heard[i].n \in Nat
        <5>1. heard[i].n <= sent[heard[i].from] /\ heard[i] \in Request
          BY <1>1, ElementOfSeq DEF Tidy, Told
        <5>2. QED
          BY <1>3, <3>1, <5>1, StreamAssumption DEF Request
      <4>2. QED
        BY <1>3, <4>1
    <3>2. \A j \in 1..Len(new) : 2 * r.n <= Key(new[j]) /\ Key(new[j]) \in Nat
      BY <1>4, KeyFacts
    <3>3. ASSUME NEW i \in 1..Len(heard), NEW j \in 1..Len(new), heard[i].from = new[j].req.from
          PROVE  2 * heard[i].n < Key(new[j])
      <4>1. 2 * heard[i].n < 2 * r.n
        BY <1>4, <3>1, <3>3
      <4>2. heard[i].n \in Nat /\ r.n \in Nat
        <5>1. heard[i] \in Request
          BY <1>1, ElementOfSeq
        <5>2. QED
          BY <1>3, <5>1, StreamAssumption DEF Request
      <4>3. QED
        BY <3>2, <4>1, <4>2
    <3>4. QED
      BY <3>3 DEF Past
  <2>3. Old(new, sent')
    BY <1>3, <1>4, <1>5 DEF Old
  <2>4. QED
    BY <1>4, <2>1, <2>2, <2>3 DEF Fine
<1>10. TidyChunks(stream, heard, sent') /\ Fine(stream.buf, heard, sent)
       /\ \A k \in 1..Len(stream.recvd) : Fine(stream.recvd[k], heard, sent)
  BY <1>1, <1>7 DEF Tidy, TidyChunks
<1>11. Told(heard, sent')
  <2>1. ASSUME NEW i \in 1..Len(heard) PROVE heard[i].n <= sent'[heard[i].from]
    <3>1. heard[i] \in Request /\ heard[i].n <= sent[heard[i].from]
      BY <1>1, ElementOfSeq DEF Tidy, Told
    <3>2. heard[i].n \in Nat /\ heard[i].from \in Clients
      BY <3>1, StreamAssumption DEF Request
    <3>3. QED
      BY <1>5, <3>1, <3>2
  <2>2. QED
    BY <1>1, <2>1 DEF Tidy, Told
<1>12. ASSUME NEW d \in Clients
       PROVE  /\ Fine(wire'[d], heard, sent') /\ Below(stream.buf, wire'[d]) /\ Own(wire'[d], d)
              /\ \A k \in 1..Len(stream.recvd) : Below(stream.recvd[k], wire'[d])
  <2>1. /\ wire[d] \in Bytes /\ Fine(wire[d], heard, sent) /\ Fine(wire[d], heard, sent')
        /\ Own(wire[d], d)
        /\ Below(stream.buf, wire[d])
        /\ \A k \in 1..Len(stream.recvd) : Below(stream.recvd[k], wire[d])
    BY <1>1, <1>7 DEF Tidy, TidyWire
  <2>2. CASE d # c
    BY <1>1, <1>2, <2>1, <2>2
  <2>3. CASE d = c
    <3>1. wire'[d] = wire[d] \o new
      BY <1>1, <1>2, <2>3
    <3>2. /\ Fine(wire[d] \o new, heard, sent')
          /\ \A x : Below(x, wire[d]) /\ Below(x, new) => Below(x, wire[d] \o new)
      BY <1>4, <1>8, <1>9, <2>1, JoinKeeps
    <3>3. Below(stream.buf, new) /\ \A k \in 1..Len(stream.recvd) : Below(stream.recvd[k], new)
      BY <1>8, <1>10
    <3>4. Own(wire[d] \o new, d)
      <4>1. \A i \in 1..Len(new) : new[i].req.from = d
        BY <1>3, <1>4, <2>3
      <4>2. QED
        BY <1>4, <2>1, <4>1, JoinOwn
    <3>5. QED
      BY <2>1, <3>1, <3>2, <3>3, <3>4
  <2>4. QED
    BY <2>2, <2>3
<1>13. Tidy(stream, heard, wire', sent')
  BY <1>10, <1>11, <1>12 DEF Tidy, TidyWire
<1>14. QED
  BY <1>2, <1>13

(* A client that leaves, and bytes that arrive: cuts of what is on its way. *)
LEMMA LeaveTidy ==
    ASSUME OrderInv, NEW c \in Clients, Leave(c)
    PROVE  Tidy(stream, heard, wire, sent)'
<1>1. /\ wire \in [Clients -> Bytes] /\ Tidy(stream, heard, wire, sent)
  BY DEF OrderInv, StreamInv, StreamTypeOK
<1>2. PICK k \in 0..Len(wire[c]) : wire' = [wire EXCEPT ![c] = SubSeq(wire[c], 1, k)]
  BY DEF Leave
<1>3. wire[c] \in Bytes /\ k \in Nat /\ 1 \in Nat /\ 1 <= 1 /\ k <= Len(wire[c])
  BY <1>1, <1>2, BytesFacts
<1> DEFINE rest == SubSeq(wire[c], 1, k)
<1>4. /\ Fine(wire[c], heard, sent) => Fine(rest, heard, sent)
      /\ \A x : Below(x, wire[c]) => Below(x, rest)
      /\ Own(wire[c], c) => Own(rest, c)
  BY <1>3, CutKeeps
<1> HIDE DEF rest
<1>5. \A d \in Clients : wire'[d] = IF d = c THEN rest ELSE wire[d]
  BY <1>1, <1>2 DEF rest
<1>6. TidyWire(stream, heard, wire', sent)
  BY <1>1, <1>4, <1>5 DEF Tidy, TidyWire
<1>7. UNCHANGED <<stream, heard, sent>>
  BY DEF Leave, past
<1>8. Tidy(stream, heard, wire', sent)
  BY <1>1, <1>6 DEF Tidy
<1>9. QED
  BY <1>7, <1>8

LEMMA ArriveTidy ==
    ASSUME OrderInv, NEW c \in Clients, Arrive(c)
    PROVE  Tidy(stream, heard, wire, sent)'
<1>1. /\ stream \in StreamType /\ wire \in [Clients -> Bytes] /\ Tidy(stream, heard, wire, sent)
  BY DEF OrderInv, StreamInv, StreamTypeOK
<1>2. PICK k \in 1..Len(wire[c]) :
        /\ stream' = [stream EXCEPT !.reads = stream.reads - 1,
                         !.recvd = Append(stream.recvd, SubSeq(wire[c], 1, k))]
        /\ wire' = [wire EXCEPT ![c] = SubSeq(wire[c], k + 1, Len(wire[c]))]
  BY DEF Arrive
<1> DEFINE chunk == SubSeq(wire[c], 1, k)
           rest == SubSeq(wire[c], k + 1, Len(wire[c]))
<1>3. /\ wire[c] \in Bytes /\ k \in Nat /\ k \in 0..Len(wire[c]) /\ k <= Len(wire[c]) /\ k + 1 \in Nat
      /\ 1 <= k + 1 /\ Len(wire[c]) \in Nat /\ Len(wire[c]) <= Len(wire[c]) /\ 1 \in Nat /\ 1 <= 1
  BY <1>1, BytesFacts
<1>4. Fine(wire[c], heard, sent) /\ Rise(wire[c]) /\ Own(wire[c], c)
  BY <1>1 DEF Tidy, TidyWire, Fine
<1>5. /\ chunk \in Bytes /\ Fine(chunk, heard, sent) /\ Own(chunk, c)
      /\ \A x : (Below(x, wire[c]) => Below(x, chunk)) /\ (Below(wire[c], x) => Below(chunk, x))
  BY <1>3, <1>4, CutKeeps, CutFacts
<1>6. /\ Fine(rest, heard, sent) /\ Own(rest, c) /\ \A x : Below(x, wire[c]) => Below(x, rest)
  BY <1>3, <1>4, CutKeeps
<1>7. Below(chunk, rest)
  BY <1>3, <1>4, CutBelow
<1>8. stream' = [stream EXCEPT !.reads = stream.reads - 1, !.recvd = Append(stream.recvd, chunk)]
  BY <1>2
<1>9. \A d \in Clients : wire'[d] = IF d = c THEN rest ELSE wire[d]
  BY <1>1, <1>2
<1> HIDE DEF chunk, rest
<1>10. stream'.buf = stream.buf /\ stream'.recvd = Append(stream.recvd, chunk)
  BY <1>1, <1>8 DEF StreamType
<1> DEFINE more == stream'.recvd
<1>11. /\ Len(stream.recvd) \in Nat
       /\ \A j \in 1..Len(more) :
             \/ j \in 1..Len(stream.recvd) /\ more[j] = stream.recvd[j]
             \/ j = Len(stream.recvd) + 1 /\ more[j] = chunk
  <2>1. stream.recvd \in Seq(Bytes)
    BY <1>1 DEF StreamType
  <2>2. more = Append(stream.recvd, chunk) /\ Len(stream.recvd) \in Nat
    BY <1>10, <2>1
  <2>3. Len(more) = Len(stream.recvd) + 1
    BY <1>5, <2>1, <2>2, AppendProperties
  <2>4. \A j \in 1..Len(stream.recvd) : more[j] = stream.recvd[j]
    BY <1>5, <2>1, <2>2, AppendProperties
  <2>5. more[Len(stream.recvd) + 1] = chunk
    BY <1>5, <2>1, <2>2, AppendProperties
  <2> HIDE DEF more
  <2>6. QED
    BY <2>2, <2>3, <2>4, <2>5
<1> HIDE DEF more
<1>12. /\ TidyChunks(stream, heard, sent) /\ TidyWire(stream, heard, wire, sent) /\ Told(heard, sent)
       /\ Below(stream.buf, chunk) /\ \A j \in 1..Len(stream.recvd) : Below(stream.recvd[j], chunk)
  BY <1>1, <1>5 DEF Tidy, TidyWire
<1>13. \A j \in 1..Len(more) : Fine(more[j], heard, sent) /\ Below(stream.buf, more[j])
  BY <1>5, <1>11, <1>12 DEF TidyChunks
<1>14. ASSUME NEW i \in 1..Len(more), NEW j \in 1..Len(more), i < j PROVE Below(more[i], more[j])
  <2>1. i \in 1..Len(stream.recvd) /\ more[i] = stream.recvd[i]
    BY <1>11, <1>14
  <2>2. QED
    BY <1>11, <1>12, <1>14, <2>1 DEF TidyChunks
<1>15. ASSUME NEW d \in Clients
       PROVE  /\ Fine(wire'[d], heard, sent) /\ Below(stream.buf, wire'[d]) /\ Own(wire'[d], d)
              /\ \A j \in 1..Len(more) : Below(more[j], wire'[d])
  <2>1. /\ Fine(wire[d], heard, sent) /\ Below(stream.buf, wire[d]) /\ Own(wire[d], d)
        /\ \A j \in 1..Len(stream.recvd) : Below(stream.recvd[j], wire[d])
    BY <1>12 DEF TidyWire
  <2>2. CASE d = c
    BY <1>6, <1>7, <1>9, <1>11, <2>1, <2>2
  <2>3. CASE d # c
    <3>1. Below(chunk, wire[d])
      BY <1>5, <2>1, <2>3 DEF Below, Before, Own
    <3>2. QED
      BY <1>9, <1>11, <2>1, <2>3, <3>1
  <2>4. QED
    BY <2>2, <2>3
<1>16. UNCHANGED <<heard, sent>>
  BY DEF Arrive, past
<1>17. Tidy(stream', heard, wire', sent)
  BY <1>10, <1>12, <1>13, <1>14, <1>15 DEF Tidy, TidyChunks, TidyWire, more
<1>18. QED
  BY <1>16, <1>17

LEMMA StreamInitTidy == ASSUME StreamInit PROVE Tidy(stream, heard, wire, sent)
<1>1. /\ stream.buf = <<>> /\ stream.recvd = <<>> /\ heard = <<>>
      /\ \A c \in Clients : wire[c] = <<>>
  BY DEF StreamInit
<1>2. <<>> \in Bytes /\ Len(<<>>) = 0
  BY DEF Bytes
<1>3. QED
  BY <1>1, <1>2 DEF Tidy, TidyChunks, TidyWire, Told, Fine, Rise, Past, Old, Own, Below

(* Steps that leave the bytes where they are.                              *)
LEMMA QuietTidy ==
    ASSUME OrderInv, UNCHANGED <<heard, wire, sent>>,
           stream'.buf = stream.buf, stream'.recvd = stream.recvd
    PROVE  Tidy(stream, heard, wire, sent)'
<1>1. Tidy(stream', heard, wire, sent)
  BY DEF OrderInv, Tidy, TidyChunks, TidyWire
<1>2. QED
  BY <1>1

LEMMA OrderInvariant == StreamSafety => []OrderInv
<1>1. StreamInit => OrderInv
  BY StreamInitInv, StreamInitTidy DEF OrderInv
<1>2. OrderInv /\ [StreamStep]_streamVars => OrderInv'
  <2>1. SUFFICES ASSUME OrderInv, [StreamStep]_streamVars
                 PROVE  Tidy(stream, heard, wire, sent)'
    BY StreamStepInv DEF OrderInv
  <2>2. stream \in StreamType
    BY <2>1 DEF OrderInv, StreamInv, StreamTypeOK
  <2>3. CASE Peers
    <3>1. PICK c \in Clients : Connect(c) \/ Leave(c) \/ \E cmd \in Cmds : ClientSend(c, cmd)
      BY <2>3 DEF Peers
    <3>2. CASE Connect(c)
      BY <2>1, <3>2, QuietTidy DEF Connect, past
    <3>3. QED
      BY <2>1, <3>1, <3>2, LeaveTidy, SendTidy
  <2>4. CASE Kernel
    <3>1. PICK c \in Clients : AcceptDone(c) \/ Arrive(c) \/ EndOfFile(c)
      BY <2>4 DEF Kernel
    <3>2. CASE AcceptDone(c) \/ EndOfFile(c)
      <4>1. /\ UNCHANGED <<heard, wire, sent>>
            /\ stream'.buf = stream.buf /\ stream'.recvd = stream.recvd
        BY <2>2, <3>2 DEF AcceptDone, EndOfFile, StreamType, past
      <4>2. QED
        BY <2>1, <4>1, QuietTidy
    <3>3. QED
      BY <2>1, <3>1, <3>2, ArriveTidy
  <2>5. CASE RunOne
    BY <2>1, <2>5, RunOneTidy
  <2>6. CASE Host
    <3>1. PICK o \in SendOutcomes(stream) :
            /\ stream' = o.s \/ stream' = Close(o.s)
            /\ Hears(o) /\ UNCHANGED netVars
      BY <2>6 DEF Host, HostSend, HostExit
    <3>2. o.req = None /\ o.s \in StreamType /\ o.s.buf = stream.buf /\ o.s.recvd = stream.recvd
      BY <2>2, SendLike
    <3>3. Close(o.s).buf = o.s.buf /\ Close(o.s).recvd = o.s.recvd
      BY <3>2, LikeFacts DEF Like
    <3>4. UNCHANGED <<heard, wire, sent>>
      BY <3>1, <3>2 DEF Hears, netVars
    <3>5. QED
      BY <2>1, <3>1, <3>2, <3>3, <3>4, QuietTidy
  <2>7. CASE UNCHANGED streamVars
    BY <2>1, <2>7, QuietTidy DEF streamVars, netVars, past
  <2>8. QED
    BY <2>1, <2>3, <2>4, <2>5, <2>6, <2>7 DEF StreamStep
<1>3. QED
  BY <1>1, <1>2, PTL DEF StreamSafety

(* A request is executed at most once and in the order its client sent it, *)
(* whatever becomes of sessions, however the bytes are cut into chunks and *)
(* in whatever order the reads of several sessions are handled.            *)
THEOREM AlwaysInOrder == StreamSafety => []InOrder
<1>1. OrderInv => InOrder
  BY DEF OrderInv, Tidy, Told, InOrder
<1>2. QED
  BY <1>1, OrderInvariant, PTL
=============================================================================
