--------------------------- MODULE StdStream_proofs ---------------------------
(***************************************************************************)
(* Theorems about StdStream, for any number of lines.                      *)
(*                                                                         *)
(* That nothing is lost between the threads needs no more than what both   *)
(* do in one critical section: the reader holds a request in msg from the  *)
(* line it read to the push, and no step in between lets go of it.         *)
(***************************************************************************)
EXTENDS StdStream, SequenceTheorems, TLAPS

StdInv == TypeOK /\ ExactlyOnce /\ NoSleeper

-----------------------------------------------------------------------------
LEMMA StdInitInv == Init => StdInv
<1> SUFFICES ASSUME Init PROVE StdInv
  OBVIOUS
<1>1. TypeOK /\ NoSleeper
  <2>1. <<>> \in Seq(Line) /\ DOMAIN <<>> = {} /\ 0 \in 0..MaxLines
    BY StdStreamAssumption
  <2>2. QED
    BY <2>1 DEF Init, TypeOK, NoSleeper
<1>2. ExactlyOnce
  BY DEF Init, ExactlyOnce, Held
<1>3. QED
  BY <1>1, <1>2 DEF StdInv

(* Taking the head of a queue and putting it behind what was taken.        *)
LEMMA MoveHead ==
    ASSUME NEW S, NEW t \in Seq(S), NEW q \in Seq(S), q # <<>>
    PROVE  Append(t, Head(q)) \o Tail(q) = t \o q
<1>1. Head(q) \in S /\ Tail(q) \in Seq(S) /\ q = <<Head(q)>> \o Tail(q)
  <2>1. Head(q) \in S /\ Tail(q) \in Seq(S) /\ Len(Tail(q)) = Len(q) - 1
    BY HeadTailProperties
  <2>2. \A i \in 1..Len(Tail(q)) : Tail(q)[i] = q[i + 1]
    BY HeadTailProperties
  <2>3. <<Head(q)>> \in Seq(S) /\ Len(<<Head(q)>>) = 1 /\ <<Head(q)>>[1] = q[1]
    BY <2>1
  <2>4. <<Head(q)>> \o Tail(q) \in Seq(S) /\ Len(<<Head(q)>> \o Tail(q)) = Len(q)
    BY <2>1, <2>3, ConcatProperties
  <2>5. ASSUME NEW i \in 1..Len(q) PROVE (<<Head(q)>> \o Tail(q))[i] = q[i]
    <3>1. (<<Head(q)>> \o Tail(q))[i] = IF i <= 1 THEN <<Head(q)>>[i] ELSE Tail(q)[i - 1]
      BY <2>1, <2>3, <2>5, ConcatProperties
    <3>2. QED
      BY <2>1, <2>2, <2>3, <3>1
  <2>6. QED
    BY <2>1, <2>4, <2>5, SeqEqual
<1>2. Append(t, Head(q)) = t \o <<Head(q)>> /\ <<Head(q)>> \in Seq(S)
  BY <1>1, AppendIsConcat
<1>3. (t \o <<Head(q)>>) \o Tail(q) = t \o (<<Head(q)>> \o Tail(q))
  BY <1>1, <1>2, ConcatAssociative
<1>4. QED
  BY <1>1, <1>2, <1>3

(* Queueing what was held, and holding what was not.                       *)
LEMMA MoveHeld ==
    ASSUME NEW S, NEW t \in Seq(S), NEW q \in Seq(S), NEW e \in S
    PROVE  /\ t \o Append(q, e) = (t \o q) \o <<e>>
           /\ (t \o q) \o <<e>> = Append(t \o q, e)
           /\ (t \o q) \o <<>> = t \o q
<1>1. <<e>> \in Seq(S) /\ Append(q, e) = q \o <<e>>
  BY AppendIsConcat
<1>2. t \o q \in Seq(S)
  BY ConcatProperties
<1>3. (t \o q) \o <<e>> = t \o (q \o <<e>>)
  BY <1>1, ConcatAssociative
<1>4. (t \o q) \o <<e>> = Append(t \o q, e)
  BY <1>2, AppendIsConcat
<1>5. (t \o q) \o <<>> = t \o q
  BY <1>2, ConcatEmptySeq
<1>6. QED
  BY <1>1, <1>3, <1>4, <1>5

-----------------------------------------------------------------------------
(* One lemma for each thread.                                              *)

LEMMA PeerInv == ASSUME StdInv, Peer PROVE StdInv'
<1>1. TypeOK /\ ExactlyOnce /\ NoSleeper
  BY DEF StdInv
<1>2. ASSUME NEW kind \in Kinds, Write(kind) PROVE StdInv'
  <2>1. written + 1 \in 1..MaxLines
    BY <1>1, <1>2, StdStreamAssumption DEF TypeOK, Write
  <2>2. [n |-> written + 1, kind |-> kind] \in Line
    BY <2>1 DEF Line
  <2>3. TypeOK'
    BY <1>1, <1>2, <2>1, <2>2 DEF TypeOK, Write
  <2>4. ExactlyOnce' /\ NoSleeper'
    BY <1>1, <1>2 DEF Write, ExactlyOnce, Held, NoSleeper
  <2>5. QED
    BY <2>3, <2>4 DEF StdInv
<1>3. ASSUME NEW how \in {"clean", "cut"}, EndInput(how) PROVE StdInv'
  <2>1. TypeOK' /\ NoSleeper'
    BY <1>1, <1>3 DEF TypeOK, EndInput, NoSleeper
  <2>2. ExactlyOnce'
    BY <1>1, <1>3 DEF EndInput, ExactlyOnce, Held
  <2>3. QED
    BY <2>1, <2>2 DEF StdInv
<1>4. QED
  BY <1>2, <1>3 DEF Peer

LEMMA GetLineInv == ASSUME StdInv, GetLine PROVE StdInv'
<1>1. TypeOK /\ ExactlyOnce /\ NoSleeper /\ reader = "getline" /\ reader' = "tested"
  BY DEF StdInv, GetLine
<1>2. taken \in Seq(Line) /\ queue \in Seq(Line) /\ taken \o queue \in Seq(Line)
  BY <1>1, ConcatProperties DEF TypeOK
<1>3. ended # "cut" => taken \o queue = read
  <2>1. Held = <<>>
    BY <1>1 DEF Held
  <2>2. QED
    BY <1>1, <1>2, <2>1, ConcatEmptySeq DEF ExactlyOnce
<1>4. UNCHANGED <<taken, queue, ended, end, main>> /\ NoSleeper'
  BY <1>1 DEF GetLine, NoSleeper
<1>5. CASE input # <<>>
  <2>1. msg' = Head(input) /\ msg' \in Line /\ input' \in Seq(Line)
    <3>1. input \in Seq(Line)
      BY <1>1 DEF TypeOK
    <3>2. Head(input) \in Line /\ Tail(input) \in Seq(Line)
      BY <1>5, <3>1, HeadTailProperties
    <3>3. QED
      BY <1>5, <3>2 DEF GetLine
  <2>2. read' = IF msg'.kind \in Tagged THEN Append(read, msg') ELSE read
    BY <1>5 DEF GetLine
  <2>3. read' \in Seq(Line)
    BY <1>1, <2>1, <2>2, AppendProperties DEF TypeOK
  <2>4. TypeOK'
    BY <1>1, <1>4, <2>1, <2>3 DEF TypeOK, GetLine
  <2>5. Held' = IF msg'.kind \in Tagged THEN <<msg'>> ELSE <<>>
    BY <1>1 DEF Held
  <2>6. ExactlyOnce'
    <3>1. CASE msg'.kind \in Tagged
      <4>1. (taken \o queue) \o <<msg'>> = Append(taken \o queue, msg')
        BY <1>2, <2>1, MoveHeld
      <4>2. QED
        BY <1>3, <1>4, <2>2, <2>5, <3>1, <4>1 DEF ExactlyOnce
    <3>2. CASE msg'.kind \notin Tagged
      <4>1. (taken \o queue) \o <<>> = taken \o queue
        BY <1>2, ConcatEmptySeq
      <4>2. QED
        BY <1>3, <1>4, <2>2, <2>5, <3>2, <4>1 DEF ExactlyOnce
    <3>3. QED
      BY <3>1, <3>2
  <2>7. QED
    BY <1>4, <2>4, <2>6 DEF StdInv
<1>6. CASE input = <<>>
  <2>1. UNCHANGED <<input, read>> /\ msg' = IF ended = "cut" THEN msg ELSE Empty
    BY <1>6 DEF GetLine
  <2>2. TypeOK'
    BY <1>1, <1>4, <2>1 DEF TypeOK, GetLine
  <2>3. ended # "cut" => Held' = <<>>
    BY <2>1 DEF Held, Empty, Tagged
  <2>4. ExactlyOnce'
    BY <1>2, <1>3, <1>4, <2>1, <2>3, ConcatEmptySeq DEF ExactlyOnce
  <2>5. QED
    BY <1>4, <2>2, <2>4 DEF StdInv
<1>7. QED
  BY <1>5, <1>6

LEMMA PushInv == ASSUME StdInv, Push PROVE StdInv'
<1>1. TypeOK /\ ExactlyOnce /\ NoSleeper /\ reader = "tested"
  BY DEF StdInv, Push
<1>2. UNCHANGED <<taken, ended, end, msg, read, input, written>>
  BY DEF Push
<1>3. CASE HasPrefix(msg) /\ msg.kind # "bare"
  <2>1. queue' = Append(queue, msg) /\ main' = Notified /\ reader' = "check"
    BY <1>3 DEF Push, PushMessage
  <2>2. msg \in Line /\ msg.kind \in Tagged \ {"bare"}
    BY <1>1, <1>3 DEF TypeOK, Empty, HasPrefix, Tagged
  <2>3. /\ queue' \in Seq(Line)
        /\ \A k \in DOMAIN queue' : queue'[k].kind \in Tagged \ {"bare"}
    <3>1. queue \in Seq(Line) /\ \A k \in DOMAIN queue : queue[k].kind \in Tagged \ {"bare"}
      BY <1>1 DEF TypeOK
    <3>2. queue' \in Seq(Line) /\ Len(queue') = Len(queue) + 1
      BY <2>1, <2>2, <3>1
    <3>3. ASSUME NEW k \in DOMAIN queue' PROVE queue'[k].kind \in Tagged \ {"bare"}
      <4>1. k \in 1..Len(queue) + 1 /\ DOMAIN queue = 1..Len(queue)
        BY <3>1, <3>2
      <4>2. queue'[k] = IF k = Len(queue) + 1 THEN msg ELSE queue[k]
        BY <2>1, <2>2, <3>1, <4>1
      <4>3. QED
        BY <2>2, <3>1, <4>1, <4>2
    <3>4. QED
      BY <3>2, <3>3
  <2>4. TypeOK'
    BY <1>1, <1>2, <2>1, <2>3 DEF TypeOK, Notified
  <2>5. NoSleeper'
    BY <1>1, <2>1 DEF NoSleeper, Notified
  <2>6. Held = <<msg>> /\ Held' = <<>>
    BY <1>1, <2>1, <2>2 DEF Held
  <2>7. ExactlyOnce'
    <3>1. taken \in Seq(Line) /\ queue \in Seq(Line) /\ taken \o queue' \in Seq(Line)
      BY <1>1, <2>3, ConcatProperties DEF TypeOK
    <3>2. taken \o queue' = (taken \o queue) \o <<msg>>
      BY <2>1, <2>2, <3>1, MoveHeld
    <3>3. (taken \o queue') \o <<>> = taken \o queue'
      BY <3>1, ConcatEmptySeq
    <3>4. QED
      BY <1>1, <1>2, <2>6, <3>2, <3>3 DEF ExactlyOnce
  <2>8. QED
    BY <2>4, <2>5, <2>7 DEF StdInv
<1>4. CASE ~(HasPrefix(msg) /\ msg.kind # "bare")
  <2>1. UNCHANGED <<queue, main>> /\ reader' = IF msg.kind = "bare" THEN "terminated" ELSE "check"
    BY <1>4 DEF Push
  <2>2. Held' = Held
    BY <1>1, <1>2, <1>4, <2>1 DEF Held, HasPrefix
  <2>3. TypeOK'
    BY <1>1, <1>2, <2>1 DEF TypeOK
  <2>4. QED
    BY <1>1, <1>2, <2>1, <2>2, <2>3 DEF StdInv, ExactlyOnce, NoSleeper
<1>5. QED
  BY <1>3, <1>4

LEMMA ReaderInv == ASSUME StdInv, Reader PROVE StdInv'
<1>1. ASSUME Check PROVE StdInv'
  BY <1>1 DEF Check, StdInv, TypeOK, ExactlyOnce, Held, NoSleeper
<1>2. QED
  BY <1>1, GetLineInv, PushInv DEF Reader

(* Taking a message, in the tick or in the pause.                          *)
LEMMA TakeKeeps ==
    ASSUME TypeOK, ExactlyOnce, queue # <<>>, Take, UNCHANGED <<ended, reader, msg, read>>
    PROVE  /\ taken' \in Seq(Line) /\ queue' \in Seq(Line)
           /\ \A k \in DOMAIN queue' : queue'[k].kind \in Tagged \ {"bare"}
           /\ ExactlyOnce'
<1>1. taken \in Seq(Line) /\ queue \in Seq(Line)
  BY DEF TypeOK
<1>2. /\ Head(queue) \in Line /\ Tail(queue) \in Seq(Line)
      /\ Len(Tail(queue)) = Len(queue) - 1
      /\ \A k \in 1..Len(Tail(queue)) : Tail(queue)[k] = queue[k + 1]
  BY <1>1, HeadTailProperties
<1>3. taken' = Append(taken, Head(queue)) /\ queue' = Tail(queue)
  BY DEF Take
<1>4. taken' \in Seq(Line) /\ taken' \o queue' = taken \o queue
  BY <1>1, <1>2, <1>3, MoveHead, AppendProperties
<1>5. \A k \in DOMAIN queue' : queue'[k].kind \in Tagged \ {"bare"}
  <2>1. ASSUME NEW k \in DOMAIN queue' PROVE queue'[k] = queue[k + 1] /\ k + 1 \in DOMAIN queue
    BY <1>1, <1>2, <1>3
  <2>2. QED
    BY <2>1 DEF TypeOK
<1>6. Held' = Held
  BY DEF Held
<1>7. QED
  BY <1>2, <1>3, <1>4, <1>5, <1>6 DEF ExactlyOnce

LEMMA MainInv == ASSUME StdInv, Main PROVE StdInv'
<1>1. TypeOK /\ ExactlyOnce /\ NoSleeper
  BY DEF StdInv
<1>2. CASE Poll
  BY <1>1, <1>2, TakeKeeps DEF Poll, StdInv, TypeOK, NoSleeper
<1>3. CASE WaitMessage /\ queue # <<>>
  <2>1. Take /\ UNCHANGED <<input, written, ended, reader, msg, end, read>>
           /\ main' \in {"paused", "running"}
    BY <1>3 DEF WaitMessage
  <2>2. QED
    BY <1>1, <1>3, <2>1, TakeKeeps DEF StdInv, TypeOK, NoSleeper
<1>4. CASE WaitMessage /\ queue = <<>>
  <2>1. main' = (IF end THEN "paused" ELSE "waiting")
    BY <1>4 DEF WaitMessage
  <2>2. UNCHANGED <<queue, taken, input, written, ended, reader, msg, end, read>>
    BY <1>4 DEF WaitMessage
  <2>3. QED
    BY <1>1, <1>4, <2>1, <2>2 DEF StdInv, TypeOK, ExactlyOnce, Held, NoSleeper
<1>5. CASE Pause \/ Spurious \/ CloseBegin \/ Join
  BY <1>1, <1>5 DEF Pause, Spurious, CloseBegin, Join, StdInv, TypeOK, ExactlyOnce, Held, NoSleeper
<1>6. QED
  BY <1>2, <1>3, <1>4, <1>5 DEF Main

LEMMA StdInvariant == Spec => []StdInv
<1>1. StdInv /\ UNCHANGED vars => StdInv'
  BY DEF vars, StdInv, TypeOK, ExactlyOnce, Held, NoSleeper
<1>2. StdInv /\ [Next]_vars => StdInv'
  BY <1>1, PeerInv, ReaderInv, MainInv DEF Next
<1>3. QED
  BY <1>2, StdInitInv, PTL DEF Spec

-----------------------------------------------------------------------------
(* The theorems.                                                           *)

(* Every part of the state has its type, and only requests are queued.     *)
THEOREM StdTypeCorrect == Spec => []TypeOK
<1>1. StdInv => TypeOK
  BY DEF StdInv
<1>2. QED
  BY <1>1, StdInvariant, PTL

(* Unless the input ends within a line every request passes from the       *)
(* reader to the Lua thread once and in order.                             *)
THEOREM RequestsPassOnce == Spec => []ExactlyOnce
<1>1. StdInv => ExactlyOnce
  BY DEF StdInv
<1>2. QED
  BY <1>1, StdInvariant, PTL

(* No wake-up is lost: the Lua thread sleeps over an empty queue only.     *)
THEOREM NobodySleepsOverRequests == Spec => []NoSleeper
<1>1. StdInv => NoSleeper
  BY DEF StdInv
<1>2. QED
  BY <1>1, StdInvariant, PTL
=============================================================================
