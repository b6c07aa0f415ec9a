-------------------------- MODULE RpcClient_proofs ---------------------------
(***************************************************************************)
(* Theorems about RpcClient, for any calls, parameters and buffer.         *)
(*                                                                         *)
(* Ids only grow from the requests executed over those on their way to     *)
(* those in the client's buffer and to seqId (Order).  So a request that   *)
(* is executed is none that has been executed before, and an answer on its *)
(* way is one to a request executed (Known).  The listeners of the pending *)
(* calls are sorted (Listeners), which is what makes the removal of one by *)
(* its answer, and of every other one by an error, exact.  With them no    *)
(* message of a pending call gets lost on its way (Carried).               *)
(***************************************************************************)
EXTENDS RpcClient, SequenceTheorems, TLAPS

(* The messages there are.                                                 *)
Asks == {SerializeRequest([id |-> i, method |-> m, params |-> p]) :
            i \in Ids, m \in Methods, p \in Values \cup {Null}}
Answers == {SerializeResponse(r) :
            r \in [id : Ids, result : {Null}, error : ErrorCodes \cup {Null}]}
Notices == {SerializeNotify([method |-> n, params |-> Null]) : n \in Notifications}

ClientTypes ==
    /\ adapter \in {"tcp", "child"}
    /\ link \in {"connecting", "open", "ended", "failed", "closed"}
    /\ seqId \in 0..MaxRequests
    /\ promise \in [Ids -> Outcomes]
    /\ onMessage \in Seq(Ids) /\ onError \in Seq(Ids)
    /\ status \in Notifications \cup {Null}
    /\ server \in Server
    /\ executed \in Seq(Ids)
    /\ \A i \in Ids : promise[i] = "unsent" <=> i >= seqId
    /\ out \in Seq(Asks) /\ net \in Seq(Asks) /\ back \in Seq(Answers \cup Notices)

Sorted(s) == \A j, k \in 1..Len(s) : j < k => s[j] < s[k]
Rising(s) == \A j, k \in 1..Len(s) : j < k => get_id(s[j]) < get_id(s[k])

Order ==
    /\ Sorted(executed) /\ Rising(net) /\ Rising(out)
    /\ \A j \in 1..Len(executed) :
         /\ executed[j] < seqId
         /\ \A k \in 1..Len(net) : executed[j] < get_id(net[k])
         /\ \A k \in 1..Len(out) : executed[j] < get_id(out[k])
    /\ \A j \in 1..Len(net) :
         /\ get_id(net[j]) < seqId
         /\ \A k \in 1..Len(out) : get_id(net[j]) < get_id(out[k])
    /\ \A j \in 1..Len(out) : get_id(out[j]) < seqId

HasRun(i) == \E j \in 1..Len(executed) : executed[j] = i

Known ==
    /\ \A k \in 1..Len(back) : isJsonRpcResponse(back[k]) => HasRun(get_id(back[k]))
    /\ \A i \in Ids : promise[i] \in {"resolved", "rejected"} => HasRun(i)

Listeners ==
    /\ onMessage = onError
    /\ Sorted(onError)
    /\ \A i \in Ids : promise[i] = "pending" <=> \E k \in 1..Len(onError) : onError[k] = i

RpcInv == ClientTypes /\ Order /\ Known /\ Listeners

-----------------------------------------------------------------------------
(* Messages.                                                               *)

LEMMA IdsNat == Ids \subseteq Nat /\ MaxRequests \in Nat /\ Null \notin Ids
                  /\ Ids = 0..MaxRequests - 1
BY RpcAssumption DEF Ids

(* What the server reads of a request the client has written.              *)
LEMMA AskFacts ==
    ASSUME NEW msg \in Asks
    PROVE  is_request(msg) /\ get_id(msg) \in Ids /\ ParseRequest(msg).id = get_id(msg)
<1>1. PICK i \in Ids, m \in Methods, p \in Values \cup {Null} :
        msg = SerializeRequest([id |-> i, method |-> m, params |-> p])
  BY DEF Asks
<1>2. CASE p = Null
  <2>1. msg = [method |-> m, id |-> i]
    BY <1>1, <1>2 DEF SerializeRequest
  <2>2. QED
    BY <2>1 DEF is_request, get_id, ParseRequest, Get, Has
<1>3. CASE p # Null
  <2>1. msg = [method |-> m, params |-> p, id |-> i]
    BY <1>1, <1>3 DEF SerializeRequest
  <2>2. QED
    BY <2>1 DEF is_request, get_id, ParseRequest, Get, Has
<1>4. QED
  BY <1>2, <1>3

LEMMA NewAsk ==
    ASSUME NEW i \in Ids, NEW use \in Uses,
           NEW msg, msg = SerializeRequest([id |-> i, method |-> use[1], params |-> use[2]])
    PROVE  msg \in Asks /\ get_id(msg) = i
<1>1. use[1] \in Methods /\ use[2] \in Values \cup {Null}
  BY RpcAssumption DEF ClientCalls, Methods
<1>2. msg \in Asks
  BY <1>1 DEF Asks
<1>3. get_id(msg) = i
  <2>1. CASE use[2] = Null
    <3>1. msg = [method |-> use[1], id |-> i]
      BY <2>1 DEF SerializeRequest
    <3>2. QED
      BY <3>1 DEF get_id, Get, Has
  <2>2. CASE use[2] # Null
    <3>1. msg = [method |-> use[1], params |-> use[2], id |-> i]
      BY <2>2 DEF SerializeRequest
    <3>2. QED
      BY <3>1 DEF get_id, Get, Has
  <2>3. QED
    BY <2>1, <2>2
<1>4. QED
  BY <1>2, <1>3

(* What the client reads of a response the server has written.             *)
LEMMA AnswerFacts ==
    ASSUME NEW msg \in Answers
    PROVE  /\ isJsonRpcResponse(msg) /\ ~isJsonRpcNotify(msg)
           /\ get_id(msg) \in Ids /\ msg["id"] = get_id(msg)
<1>1. PICK r \in [id : Ids, result : {Null}, error : ErrorCodes \cup {Null}] :
        msg = SerializeResponse(r)
  BY DEF Answers
<1>2. \/ msg = [result |-> r.result, id |-> r.id]
      \/ msg = [result |-> r.result, error |-> r.error, id |-> r.id]
  BY <1>1 DEF SerializeResponse
<1>3. r.id \in Ids
  BY <1>1
<1>4. Null \notin Methods \cup Notifications /\ r.id # Null
  BY <1>3, IdsNat, RpcAssumption
<1>5. DOMAIN msg \in {{"result", "id"}, {"result", "error", "id"}} /\ msg["id"] = r.id
  BY <1>2
<1>6. Get(msg, "id") = r.id /\ Get(msg, "method") = Null
  BY <1>5 DEF Get, Has
<1>7. QED
  BY <1>3, <1>4, <1>5, <1>6
     DEF isJsonRpcResponse, isJsonRpcNotify, isJsonRpcRequest, get_id

LEMMA NoticeFacts ==
    ASSUME NEW msg \in Notices
    PROVE  /\ ~isJsonRpcResponse(msg) /\ isJsonRpcNotify(msg)
           /\ msg["method"] \in Notifications
<1>1. PICK n \in Notifications : msg = SerializeNotify([method |-> n, params |-> Null])
  BY DEF Notices
<1>2. msg = [method |-> n]
  BY <1>1 DEF SerializeNotify
<1>3. Get(msg, "id") = Null /\ Get(msg, "method") = n /\ msg["method"] = n
  BY <1>2 DEF Get, Has
<1>4. QED
  BY <1>3 DEF isJsonRpcResponse, isJsonRpcNotify, isJsonRpcRequest

LEMMA BackFacts ==
    ASSUME NEW msg \in Answers \cup Notices
    PROVE  /\ isJsonRpcResponse(msg) => get_id(msg) \in Ids /\ msg["id"] = get_id(msg)
           /\ isJsonRpcNotify(msg) => msg["method"] \in Notifications
BY AnswerFacts, NoticeFacts

-----------------------------------------------------------------------------
(* Sequences.                                                              *)

LEMMA TailFacts ==
    ASSUME NEW S, NEW s \in Seq(S), s # <<>>
    PROVE  /\ Head(s) = s[1] /\ Head(s) \in S /\ Len(s) > 0 /\ Tail(s) \in Seq(S)
           /\ Len(Tail(s)) = Len(s) - 1
           /\ \A k \in 1..Len(s) - 1 : Tail(s)[k] = s[k + 1] /\ k + 1 \in 1..Len(s)
OBVIOUS

LEMMA PushFacts ==
    ASSUME NEW S, NEW s \in Seq(S), NEW e \in S
    PROVE  /\ Append(s, e) \in Seq(S) /\ Len(Append(s, e)) = Len(s) + 1
           /\ \A k \in 1..Len(s) : Append(s, e)[k] = s[k]
           /\ Append(s, e)[Len(s) + 1] = e
OBVIOUS

(* off() of a listener of a sorted list removes it and nothing else.       *)
LEMMA OffFacts ==
    ASSUME NEW s \in Seq(Ids), Sorted(s), NEW i \in Ids, \E k \in 1..Len(s) : s[k] = i
    PROVE  /\ Off(s, i) \in Seq(Ids) /\ Sorted(Off(s, i))
           /\ \A j \in Ids : (\E k \in 1..Len(Off(s, i)) : Off(s, i)[k] = j)
                               <=> j # i /\ \E k \in 1..Len(s) : s[k] = j
<1>1. DOMAIN s = 1..Len(s) /\ Len(s) \in Nat /\ Ids \subseteq Nat
  BY IdsNat
<1>2. PICK p \in 1..Len(s) : s[p] = i
  OBVIOUS
<1>3. \A q \in 1..Len(s) : s[q] = i <=> q = p
  <2>1. ASSUME NEW q \in 1..Len(s), s[q] = i PROVE q = p
    <3>1. ~(q < p) /\ ~(p < q)
      BY <1>1, <1>2, <2>1 DEF Sorted
    <3>2. QED
      BY <1>1, <3>1
  <2>2. QED
    BY <1>2, <2>1
<1>4. IndexOf(s, i) = p
  <2>1. \A j \in 1..p - 1 : s[j] # i
    BY <1>1, <1>3
  <2>2. \A q \in DOMAIN s :
          (s[q] = i /\ \A j \in 1..q - 1 : s[j] # i) <=> q = p
    BY <1>1, <1>3, <2>1
  <2>3. QED
    BY <1>1, <2>2 DEF IndexOf
<1> DEFINE t == [j \in 1..Len(s) - 1 |-> IF j < p THEN s[j] ELSE s[j + 1]]
<1>5. Off(s, i) = t
  BY <1>1, <1>2, <1>4 DEF Off
<1>6. \A j \in 1..Len(s) - 1 : j \in 1..Len(s) /\ j + 1 \in 1..Len(s)
  BY <1>1
<1>7. t \in Seq(Ids) /\ Len(t) = Len(s) - 1
  <2>1. \A j \in 1..Len(s) - 1 : t[j] \in Ids
    BY <1>6
  <2>2. Len(s) - 1 \in Nat
    BY <1>1, <1>2
  <2>3. QED
    BY <2>1, <2>2
<1>8. \A j \in 1..Len(s) - 1 : t[j] = IF j < p THEN s[j] ELSE s[j + 1]
  OBVIOUS
<1> HIDE DEF t
<1>9. Sorted(t)
  <2>1. ASSUME NEW j \in 1..Len(t), NEW k \in 1..Len(t), j < k PROVE t[j] < t[k]
    <3>1. j \in 1..Len(s) - 1 /\ k \in 1..Len(s) - 1
      BY <1>7
    <3> DEFINE from(l) == IF l < p THEN l ELSE l + 1
    <3>2. t[j] = s[from(j)] /\ t[k] = s[from(k)]
      BY <1>8, <3>1
    <3>3. from(j) \in 1..Len(s) /\ from(k) \in 1..Len(s) /\ from(j) < from(k)
      BY <1>1, <1>6, <2>1, <3>1
    <3> HIDE DEF from
    <3>4. QED
      BY <3>2, <3>3 DEF Sorted
  <2>2. QED
    BY <2>1 DEF Sorted
<1>10. ASSUME NEW j \in Ids
       PROVE  (\E k \in 1..Len(t) : t[k] = j) <=> j # i /\ \E k \in 1..Len(s) : s[k] = j
  <2>1. ASSUME NEW k \in 1..Len(t), t[k] = j
        PROVE  j # i /\ \E q \in 1..Len(s) : s[q] = j
    <3>1. k \in 1..Len(s) - 1
      BY <1>7
    <3>2. CASE k < p
      <4>1. t[k] = s[k] /\ k \in 1..Len(s) /\ k # p
        BY <1>1, <1>6, <1>8, <3>1, <3>2
      <4>2. QED
        BY <1>3, <2>1, <4>1
    <3>3. CASE ~(k < p)
      <4>1. t[k] = s[k + 1] /\ k + 1 \in 1..Len(s) /\ k + 1 # p
        BY <1>1, <1>6, <1>8, <3>1, <3>3
      <4>2. QED
        BY <1>3, <2>1, <4>1
    <3>4. QED
      BY <3>2, <3>3
  <2>2. ASSUME j # i, NEW q \in 1..Len(s), s[q] = j
        PROVE  \E k \in 1..Len(t) : t[k] = j
    <3>1. q # p
      BY <1>2, <2>2
    <3>2. CASE q < p
      <4>1. q \in 1..Len(s) - 1 /\ t[q] = j
        BY <1>1, <1>8, <2>2, <3>2
      <4>2. QED
        BY <1>7, <4>1
    <3>3. CASE p < q
      <4>1. q - 1 \in 1..Len(s) - 1 /\ ~(q - 1 < p) /\ q - 1 + 1 = q
        BY <1>1, <3>3
      <4>2. t[q - 1] = j
        BY <1>8, <2>2, <4>1
      <4>3. QED
        BY <1>7, <4>1, <4>2
    <3>4. QED
      BY <1>1, <3>1, <3>2, <3>3
  <2>3. QED
    BY <2>1, <2>2
<1>11. QED
  BY <1>5, <1>7, <1>9, <1>10

(* An error calls the listeners at the odd places and leaves the others.   *)
LEMMA ErrorFacts ==
    ASSUME NEW s \in Seq(Ids), Sorted(s)
    PROVE  /\ AfterError(s) \in Seq(Ids) /\ Sorted(AfterError(s)) /\ Called(s) \subseteq Ids
           /\ \A i \in Called(s) : \E k \in 1..Len(s) : s[k] = i
           /\ \A i \in Ids : (\E k \in 1..Len(AfterError(s)) : AfterError(s)[k] = i)
                               <=> i \notin Called(s) /\ \E k \in 1..Len(s) : s[k] = i
<1> DEFINE h == Len(s) \div 2
           t == [j \in 1..h |-> s[2 * j]]
<1>1. DOMAIN s = 1..Len(s) /\ Len(s) \in Nat /\ Ids \subseteq Nat
  BY IdsNat
<1>2. h \in Nat /\ 2 * h <= Len(s) /\ Len(s) <= 2 * h + 1
  BY <1>1
<1>3. AfterError(s) = t
  BY DEF AfterError
<1> HIDE DEF h
<1>4. \A j \in 1..h : 2 * j \in 1..Len(s)
  BY <1>1, <1>2
<1>5. t \in Seq(Ids) /\ Len(t) = h /\ \A j \in 1..h : t[j] = s[2 * j]
  <2>1. \A j \in 1..h : s[2 * j] \in Ids
    BY <1>4
  <2>2. QED
    BY <1>2, <2>1
<1> HIDE DEF t
<1>6. Sorted(t)
  <2>1. ASSUME NEW j \in 1..Len(t), NEW k \in 1..Len(t), j < k PROVE t[j] < t[k]
    <3>1. 2 * j \in 1..Len(s) /\ 2 * k \in 1..Len(s) /\ 2 * j < 2 * k
      BY <1>2, <1>4, <1>5, <2>1
    <3>2. s[2 * j] < s[2 * k]
      BY <3>1 DEF Sorted
    <3>3. QED
      BY <1>5, <3>2
  <2>2. QED
    BY <2>1 DEF Sorted
<1>7. ASSUME NEW i
      PROVE  i \in Called(s) <=> \E k \in 1..Len(s) : k % 2 = 1 /\ s[k] = i
  BY <1>1 DEF Called
<1>8. \A j, k \in 1..Len(s) : s[j] = s[k] => j = k
  <2>1. ASSUME NEW j \in 1..Len(s), NEW k \in 1..Len(s), s[j] = s[k] PROVE j = k
    <3>1. s[j] \in Nat /\ s[k] \in Nat
      <4>1. \A q \in 1..Len(s) : s[q] \in Ids
        OBVIOUS
      <4>2. QED
        BY <1>1, <4>1
    <3>2. ~(j < k) /\ ~(k < j)
      BY <2>1, <3>1 DEF Sorted
    <3>3. QED
      BY <1>1, <3>2
  <2>2. QED
    BY <2>1
<1>9. ASSUME NEW i \in Ids
      PROVE  (\E k \in 1..Len(t) : t[k] = i)
               <=> i \notin Called(s) /\ \E k \in 1..Len(s) : s[k] = i
  <2>1. ASSUME NEW k \in 1..Len(t), t[k] = i
        PROVE  i \notin Called(s) /\ \E q \in 1..Len(s) : s[q] = i
    <3>1. 2 * k \in 1..Len(s) /\ s[2 * k] = i /\ (2 * k) % 2 = 0
      BY <1>2, <1>4, <1>5, <2>1
    <3>2. i \notin Called(s)
      <4>1. SUFFICES ASSUME NEW q \in 1..Len(s), q % 2 = 1, s[q] = i PROVE FALSE
        BY <1>7
      <4>2. q = 2 * k
        BY <1>8, <3>1, <4>1
      <4>3. QED
        BY <3>1, <4>1, <4>2
    <3>3. QED
      BY <3>1, <3>2
  <2>2. ASSUME i \notin Called(s), NEW q \in 1..Len(s), s[q] = i
        PROVE  \E k \in 1..Len(t) : t[k] = i
    <3>1. q % 2 # 1 /\ q \in Nat /\ q >= 1
      BY <1>1, <1>7, <2>2
    <3>2. PICK k \in 1..h : q = 2 * k
      <4>1. q = 2 * (q \div 2)
        BY <3>1
      <4>2. q \div 2 \in 1..h
        BY <1>1, <1>2, <3>1, <4>1
      <4>3. QED
        BY <4>1, <4>2
    <3>3. QED
      BY <1>5, <2>2, <3>2
  <2>3. QED
    BY <2>1, <2>2
<1>10. Called(s) \subseteq Ids /\ \A i \in Called(s) : \E k \in 1..Len(s) : s[k] = i
  BY <1>7
<1>11. QED
  BY <1>3, <1>5, <1>6, <1>9, <1>10

-----------------------------------------------------------------------------
(* The steps of the client.                                                *)

LEMMA InvFacts ==
    ASSUME RpcInv
    PROVE  /\ ClientTypes /\ Order /\ Known /\ Listeners
           /\ seqId \in Nat /\ Len(executed) \in Nat /\ Len(net) \in Nat /\ Len(out) \in Nat
           /\ \A k \in 1..Len(executed) : executed[k] \in Nat
           /\ \A k \in 1..Len(net) : net[k] \in Asks /\ get_id(net[k]) \in Nat
           /\ \A k \in 1..Len(out) : out[k] \in Asks /\ get_id(out[k]) \in Nat
           /\ \A k \in 1..Len(back) : back[k] \in Answers \cup Notices
           /\ \A k \in 1..Len(onError) : onError[k] \in Ids
<1>1. ClientTypes /\ Order /\ Known /\ Listeners
  BY DEF RpcInv
<1>2. /\ \A k \in 1..Len(executed) : executed[k] \in Ids
      /\ \A k \in 1..Len(net) : net[k] \in Asks
      /\ \A k \in 1..Len(out) : out[k] \in Asks
      /\ \A k \in 1..Len(back) : back[k] \in Answers \cup Notices
      /\ \A k \in 1..Len(onError) : onError[k] \in Ids
  BY <1>1 DEF ClientTypes
<1>3. seqId \in Nat /\ Len(executed) \in Nat /\ Len(net) \in Nat /\ Len(out) \in Nat
  BY <1>1, IdsNat DEF ClientTypes
<1>4. \A msg \in Asks : get_id(msg) \in Nat
  BY AskFacts, IdsNat
<1>5. QED
  BY <1>1, <1>2, <1>3, <1>4, IdsNat

LEMMA InitInv == ASSUME Init PROVE RpcInv
<1>1. /\ seqId = 0 /\ promise = [i \in Ids |-> "unsent"] /\ onMessage = <<>> /\ onError = <<>>
      /\ status = Null /\ out = <<>> /\ net = <<>> /\ back = <<>> /\ executed = <<>>
      /\ server = [state |-> "up", told |-> Null, resuming |-> FALSE]
      /\ adapter \in {"tcp", "child"} /\ link \in {"connecting", "open"}
  BY DEF Init
<1>2. Len(onError) = 0 /\ Len(out) = 0 /\ Len(net) = 0 /\ Len(back) = 0 /\ Len(executed) = 0
  BY <1>1
<1>3. ClientTypes
  <2>1. server \in Server
    BY <1>1 DEF Server
  <2>2. promise \in [Ids -> Outcomes] /\ \A i \in Ids : promise[i] = "unsent" /\ i >= seqId
    BY <1>1, IdsNat DEF Outcomes
  <2>3. seqId \in 0..MaxRequests
    BY <1>1, IdsNat
  <2>4. QED
    BY <1>1, <2>1, <2>2, <2>3 DEF ClientTypes
<1>4. Order
  BY <1>2 DEF Order, Sorted, Rising
<1>5. Known /\ Listeners
  BY <1>1, <1>2 DEF Known, Listeners, Sorted
<1>6. QED
  BY <1>3, <1>4, <1>5 DEF RpcInv

(* Steps that leave the calls and the queues of requests alone.            *)
LEMMA OrderKept ==
    ASSUME Order, UNCHANGED <<seqId, executed, net, out>>
    PROVE  Order'
BY DEF Order, Sorted, Rising

LEMMA KnownKept ==
    ASSUME Known, UNCHANGED <<promise, back, executed>>
    PROVE  Known'
BY DEF Known, HasRun

LEMMA ListenersKept ==
    ASSUME Listeners, UNCHANGED <<promise, onMessage, onError>>
    PROVE  Listeners'
BY DEF Listeners, Sorted

LEMMA SendInv ==
    ASSUME RpcInv, NEW use \in Uses, Send(use[1], use[2])
    PROVE  RpcInv'
<1> DEFINE msg == SerializeRequest([id |-> seqId, method |-> use[1], params |-> use[2]])
<1>1. /\ seqId < MaxRequests /\ seqId' = seqId + 1
      /\ out' = IF Writable THEN Append(out, msg) ELSE out
      /\ UNCHANGED <<adapter, link, status, net, back, server, executed>>
  BY DEF Send, NextId, serverVars
<1>2. \/ /\ promise' = [promise EXCEPT ![seqId] = "pending"]
         /\ onMessage' = Append(onMessage, seqId) /\ onError' = Append(onError, seqId)
      \/ /\ promise' = [promise EXCEPT ![seqId] = "refused"]
         /\ UNCHANGED <<onMessage, onError>>
  BY DEF Send, NextId, On
<1>3. /\ ClientTypes /\ Order /\ Known /\ Listeners
      /\ seqId \in Nat /\ MaxRequests \in Nat /\ seqId \in Ids /\ Ids \subseteq Nat
  BY <1>1, InvFacts, IdsNat
<1>4. msg \in Asks /\ get_id(msg) = seqId
  BY <1>3, NewAsk
<1> HIDE DEF msg
<1>5. promise[seqId] = "unsent"
  BY <1>3 DEF ClientTypes
<1>6. ClientTypes'
  <2>1. promise' \in [Ids -> Outcomes] /\ seqId' \in 0..MaxRequests
    BY <1>1, <1>2, <1>3 DEF ClientTypes, Outcomes
  <2>2. \A i \in Ids : promise'[i] = "unsent" <=> i >= seqId'
    <3>1. ASSUME NEW i \in Ids PROVE promise'[i] = "unsent" <=> i >= seqId'
      <4>1. i \in Nat /\ (promise[i] = "unsent" <=> i >= seqId)
        BY <1>3 DEF ClientTypes
      <4>2. CASE i = seqId
        BY <1>1, <1>2, <1>3, <4>1, <4>2 DEF ClientTypes
      <4>3. CASE i # seqId
        <5>1. promise'[i] = promise[i]
          BY <1>2, <1>3, <4>3 DEF ClientTypes
        <5>2. QED
          BY <1>1, <1>3, <4>1, <4>3, <5>1
      <4>4. QED
        BY <4>2, <4>3
    <3>2. QED
      BY <3>1
  <2>3. onMessage' \in Seq(Ids) /\ onError' \in Seq(Ids)
    <3>1. onMessage \in Seq(Ids) /\ onError \in Seq(Ids)
      BY <1>3 DEF ClientTypes
    <3>2. Append(onMessage, seqId) \in Seq(Ids) /\ Append(onError, seqId) \in Seq(Ids)
      BY <1>3, <3>1, PushFacts
    <3>3. QED
      BY <1>2, <3>1, <3>2
  <2>4. out' \in Seq(Asks)
    BY <1>1, <1>3, <1>4 DEF ClientTypes
  <2>5. QED
    BY <1>1, <1>3, <2>1, <2>2, <2>3, <2>4 DEF ClientTypes
<1>7. Order'
  <2>1. /\ \A k \in 1..Len(out) : out'[k] = out[k] /\ k \in 1..Len(out')
        /\ \A k \in 1..Len(out') : k \in 1..Len(out) \/ (k = Len(out) + 1 /\ get_id(out'[k]) = seqId)
        /\ Len(out) \in Nat
    <3>1. out \in Seq(Asks)
      BY <1>3 DEF ClientTypes
    <3>2. CASE out' = Append(out, msg)
      BY <1>4, <3>1, <3>2, PushFacts
    <3>3. CASE out' = out
      BY <3>1, <3>3
    <3>4. QED
      BY <1>1, <3>2, <3>3
  <2>2. /\ \A j \in 1..Len(executed) : executed[j] < seqId /\ executed[j] < seqId'
        /\ \A j \in 1..Len(net) : get_id(net[j]) < seqId /\ get_id(net[j]) < seqId'
        /\ \A j \in 1..Len(out) : get_id(out[j]) < seqId /\ get_id(out[j]) < seqId'
    BY <1>1, <1>3, InvFacts DEF Order
  <2>3. Rising(out')
    <3>1. ASSUME NEW j \in 1..Len(out'), NEW k \in 1..Len(out'), j < k
          PROVE  get_id(out'[j]) < get_id(out'[k])
      <4>1. j \in 1..Len(out) /\ out'[j] = out[j]
        BY <2>1, <3>1
      <4>2. CASE k \in 1..Len(out)
        BY <1>3, <2>1, <3>1, <4>1, <4>2 DEF Order, Rising
      <4>3. CASE get_id(out'[k]) = seqId
        BY <2>2, <4>1, <4>3
      <4>4. QED
        BY <2>1, <4>2, <4>3
    <3>2. QED
      BY <3>1 DEF Rising
  <2>4. /\ \A j \in 1..Len(executed), k \in 1..Len(out') : executed[j] < get_id(out'[k])
        /\ \A j \in 1..Len(net), k \in 1..Len(out') : get_id(net[j]) < get_id(out'[k])
    BY <1>3, <2>1, <2>2 DEF Order
  <2>5. \A j \in 1..Len(out') : get_id(out'[j]) < seqId'
    BY <1>1, <1>3, <2>1, <2>2
  <2>6. Sorted(executed) /\ Rising(net) /\ UNCHANGED <<executed, net>>
    BY <1>1, <1>3 DEF Order
  <2>7. QED
    <3>1. Sorted(executed') /\ Rising(net')
      BY <2>6
    <3>2. \A j \in 1..Len(executed') :
            /\ executed'[j] < seqId'
            /\ \A k \in 1..Len(net') : executed'[j] < get_id(net'[k])
            /\ \A k \in 1..Len(out') : executed'[j] < get_id(out'[k])
      BY <1>3, <2>2, <2>4, <2>6 DEF Order
    <3>3. \A j \in 1..Len(net') :
            /\ get_id(net'[j]) < seqId'
            /\ \A k \in 1..Len(out') : get_id(net'[j]) < get_id(out'[k])
      BY <2>2, <2>4, <2>6
    <3>4. QED
      BY <2>3, <2>5, <3>1, <3>2, <3>3 DEF Order, Sorted, Rising
<1>8. Known'
  <2>1. \A i \in Ids : promise'[i] \in {"resolved", "rejected"} => promise[i] = promise'[i]
    BY <1>2, <1>3 DEF ClientTypes
  <2>2. QED
    BY <1>1, <1>3, <2>1 DEF Known, HasRun
<1>9. Listeners'
  <2>1. CASE /\ promise' = [promise EXCEPT ![seqId] = "refused"]
             /\ UNCHANGED <<onMessage, onError>>
    <3>1. \A i \in Ids : promise'[i] = "pending" <=> promise[i] = "pending"
      BY <1>3, <1>5, <2>1 DEF ClientTypes
    <3>2. QED
      BY <1>3, <2>1, <3>1 DEF Listeners, Sorted
  <2>2. CASE /\ promise' = [promise EXCEPT ![seqId] = "pending"]
             /\ onMessage' = Append(onMessage, seqId) /\ onError' = Append(onError, seqId)
    <3>1. onError \in Seq(Ids) /\ Len(onError) \in Nat /\ onMessage = onError
      BY <1>3 DEF ClientTypes, Listeners
    <3>2. /\ Len(onError') = Len(onError) + 1
          /\ \A k \in 1..Len(onError) : onError'[k] = onError[k]
          /\ onError'[Len(onError) + 1] = seqId
      BY <1>3, <2>2, <3>1, PushFacts
    <3>3. \A k \in 1..Len(onError) : onError[k] < seqId
      <4>1. ASSUME NEW k \in 1..Len(onError) PROVE onError[k] < seqId
        <5>1. onError[k] \in Ids
          BY <3>1
        <5>2. promise[onError[k]] = "pending"
          BY <1>3, <5>1 DEF Listeners
        <5>3. ~(onError[k] >= seqId)
          BY <1>3, <5>1, <5>2 DEF ClientTypes
        <5>4. onError[k] \in Nat /\ seqId \in Nat
          BY <1>3, <5>1
        <5>5. QED
          BY <5>3, <5>4
      <4>2. QED
        BY <4>1
    <3>4. Sorted(onError')
      <4>1. ASSUME NEW j \in 1..Len(onError'), NEW k \in 1..Len(onError'), j < k
            PROVE  onError'[j] < onError'[k]
        <5>1. j \in 1..Len(onError) /\ (k \in 1..Len(onError) \/ k = Len(onError) + 1)
          BY <3>1, <3>2, <4>1
        <5>2. QED
          BY <1>3, <3>2, <3>3, <4>1, <5>1 DEF Listeners, Sorted
      <4>2. QED
        BY <4>1 DEF Sorted
    <3>5. ASSUME NEW i \in Ids
          PROVE  promise'[i] = "pending" <=> \E k \in 1..Len(onError') : onError'[k] = i
      <4>1. CASE i = seqId
        <5>1. promise'[i] = "pending" /\ Len(onError) + 1 \in 1..Len(onError')
          BY <1>3, <2>2, <3>1, <3>2, <4>1 DEF ClientTypes
        <5>2. QED
          BY <3>2, <4>1, <5>1
      <4>2. CASE i # seqId
        <5>1. promise'[i] = promise[i]
          BY <1>3, <2>2, <4>2 DEF ClientTypes
        <5>2. \A k \in 1..Len(onError') : k \in 1..Len(onError) \/ k = Len(onError) + 1
          BY <3>1, <3>2
        <5>3. \A k \in 1..Len(onError) : k \in 1..Len(onError')
          BY <3>1, <3>2
        <5>4. promise[i] = "pending" <=> \E k \in 1..Len(onError) : onError[k] = i
          BY <1>3 DEF Listeners
        <5>5. QED
          BY <3>2, <4>2, <5>1, <5>2, <5>3, <5>4
      <4>3. QED
        BY <4>1, <4>2
    <3>6. onMessage' = onError'
      BY <2>2, <3>1
    <3>7. QED
      BY <3>4, <3>5, <3>6 DEF Listeners, Sorted
  <2>3. QED
    BY <1>2, <2>1, <2>2
<1>10. QED
  BY <1>6, <1>7, <1>8, <1>9 DEF RpcInv

(* The promise of a pending call is settled and its listeners leave.       *)
LEMMA DeliverInv == ASSUME RpcInv, Deliver PROVE RpcInv'
<1> DEFINE msg == Head(back)
<1>1. /\ back # <<>> /\ back' = Tail(back)
      /\ UNCHANGED <<adapter, link, seqId, out, net, server, executed>>
  BY DEF Deliver, serverVars
<1>2. \/ isJsonRpcResponse(msg) /\ Listening(msg["id"]) /\ Answered(msg) /\ UNCHANGED status
      \/ /\ status' = IF isJsonRpcNotify(msg) THEN msg["method"] ELSE status
         /\ UNCHANGED <<promise, onMessage, onError>>
  BY DEF Deliver
<1>3. ClientTypes /\ Order /\ Known /\ Listeners
  BY InvFacts
<1>4. /\ msg = back[1] /\ msg \in Answers \cup Notices
      /\ back' \in Seq(Answers \cup Notices)
      /\ Len(back) \in Nat /\ Len(back) > 0 /\ Len(back') = Len(back) - 1
      /\ \A k \in 1..Len(back) - 1 : back'[k] = back[k + 1] /\ k + 1 \in 1..Len(back)
  BY <1>1, <1>3, TailFacts DEF ClientTypes
<1> HIDE DEF msg
<1>5. Order'
  BY <1>1, <1>3, OrderKept
<1>6. \A k \in 1..Len(back') : isJsonRpcResponse(back'[k]) => HasRun(get_id(back'[k]))
  BY <1>3, <1>4 DEF Known
<1>7. CASE /\ status' = IF isJsonRpcNotify(msg) THEN msg["method"] ELSE status
           /\ UNCHANGED <<promise, onMessage, onError>>
  <2>1. status' \in Notifications \cup {Null}
    BY <1>3, <1>4, <1>7, BackFacts DEF ClientTypes
  <2>2. ClientTypes'
    BY <1>1, <1>3, <1>4, <1>7, <2>1 DEF ClientTypes
  <2>3. Known'
    BY <1>1, <1>3, <1>6, <1>7 DEF Known, HasRun
  <2>4. Listeners'
    BY <1>3, <1>7, ListenersKept
  <2>5. QED
    BY <1>5, <2>2, <2>3, <2>4 DEF RpcInv
<1>8. CASE isJsonRpcResponse(msg) /\ Listening(msg["id"]) /\ Answered(msg) /\ UNCHANGED status
  <2> DEFINE i == msg["id"]
  <2>1. i \in Ids /\ get_id(msg) = i
    BY <1>4, <1>8, BackFacts
  <2>2. HasRun(i)
    <3>1. 1 \in 1..Len(back)
      BY <1>4
    <3>2. QED
      BY <1>3, <1>4, <1>8, <2>1, <3>1 DEF Known
  <2>3. PICK new \in {"resolved", "rejected"} : promise' = [promise EXCEPT ![i] = new]
    BY <1>8 DEF Answered
  <2>4. /\ onMessage' = Off(onMessage, i) /\ onError' = Off(onError, i)
        /\ \E k \in DOMAIN onMessage : onMessage[k] = i
    BY <1>8 DEF Answered, Listening
  <2> HIDE DEF i
  <2>5. onError \in Seq(Ids) /\ Sorted(onError) /\ onMessage = onError /\ DOMAIN onError = 1..Len(onError)
    BY <1>3 DEF ClientTypes, Listeners
  <2>6. /\ onError' \in Seq(Ids) /\ Sorted(onError') /\ onMessage' = onError'
        /\ \A j \in Ids : (\E k \in 1..Len(onError') : onError'[k] = j)
                            <=> j # i /\ \E k \in 1..Len(onError) : onError[k] = j
    BY <2>1, <2>4, <2>5, OffFacts
  <2>7. promise[i] = "pending"
    BY <1>3, <2>1, <2>4, <2>5 DEF Listeners
  <2>8. \A j \in Ids : promise'[j] = IF j = i THEN new ELSE promise[j]
    BY <1>3, <2>1, <2>3 DEF ClientTypes
  <2>9. ClientTypes'
    <3>1. promise' \in [Ids -> Outcomes]
      BY <1>3, <2>1, <2>3 DEF ClientTypes, Outcomes
    <3>2. \A j \in Ids : promise'[j] = "unsent" <=> j >= seqId'
      BY <1>1, <1>3, <2>7, <2>8 DEF ClientTypes
    <3>3. QED
      BY <1>1, <1>3, <1>4, <1>8, <2>6, <3>1, <3>2 DEF ClientTypes
  <2>10. Known'
    <3>1. \A j \in Ids : promise'[j] \in {"resolved", "rejected"} => HasRun(j)
      BY <1>3, <2>2, <2>8 DEF Known
    <3>2. QED
      BY <1>1, <1>6, <3>1 DEF Known, HasRun
  <2>11. Listeners'
    <3>1. \A j \in Ids : promise'[j] = "pending" <=> \E k \in 1..Len(onError') : onError'[k] = j
      BY <1>3, <2>6, <2>8 DEF Listeners
    <3>2. QED
      BY <2>6, <3>1 DEF Listeners, Sorted
  <2>12. QED
    BY <1>5, <2>9, <2>10, <2>11 DEF RpcInv
<1>9. QED
  BY <1>2, <1>7, <1>8

(* Steps that only the connection or the server's session takes part in.   *)
LEMMA LinkInv ==
    ASSUME RpcInv, End \/ Connect \/ Drop
    PROVE  RpcInv'
<1>1. /\ UNCHANGED <<adapter, seqId, promise, onMessage, onError, status, out, net, back, executed>>
      /\ link' \in {link, "ended", "open"}
      /\ server' = server \/ server' = [server EXCEPT !.state = "closed"]
  BY DEF End, Connect, Drop, clientVars, serverVars
<1>2. ClientTypes /\ Order /\ Known /\ Listeners
  BY InvFacts
<1>3. server' \in Server
  <2>1. server \in Server
    BY <1>2 DEF ClientTypes
  <2>2. QED
    BY <1>1, <2>1 DEF Server
<1>4. ClientTypes'
  BY <1>1, <1>2, <1>3 DEF ClientTypes
<1>5. QED
  BY <1>1, <1>2, <1>4, OrderKept, KnownKept, ListenersKept DEF RpcInv

LEMMA FlushInv == ASSUME RpcInv, Flush PROVE RpcInv'
<1>1. /\ out # <<>> /\ net' = Append(net, Head(out)) /\ out' = Tail(out)
      /\ UNCHANGED <<adapter, link, seqId, promise, onMessage, onError, status, back,
                     server, executed>>
  BY DEF Flush, clientVars, serverVars
<1>2. ClientTypes /\ Order /\ Known /\ Listeners /\ out \in Seq(Asks) /\ net \in Seq(Asks)
  BY InvFacts DEF ClientTypes
<1>3. /\ Head(out) = out[1] /\ Head(out) \in Asks /\ Len(out) > 0 /\ out' \in Seq(Asks)
      /\ Len(out') = Len(out) - 1 /\ 1 \in 1..Len(out)
      /\ \A k \in 1..Len(out') : out'[k] = out[k + 1] /\ k + 1 \in 1..Len(out)
  BY <1>1, <1>2, TailFacts
<1>4. /\ net' \in Seq(Asks) /\ Len(net') = Len(net) + 1 /\ Len(net) \in Nat
      /\ \A k \in 1..Len(net) : net'[k] = net[k]
      /\ net'[Len(net) + 1] = out[1]
  BY <1>1, <1>2, <1>3, PushFacts
<1>5. \A k \in 1..Len(net') : k \in 1..Len(net) \/ k = Len(net) + 1
  BY <1>4
<1>6. ClientTypes'
  BY <1>1, <1>2, <1>3, <1>4 DEF ClientTypes
<1>7. Rising(net')
  <2>1. ASSUME NEW j \in 1..Len(net'), NEW k \in 1..Len(net'), j < k
        PROVE  get_id(net'[j]) < get_id(net'[k])
    <3>1. j \in 1..Len(net) /\ net'[j] = net[j]
      BY <1>4, <1>5, <2>1
    <3>2. CASE k \in 1..Len(net)
      BY <1>2, <1>4, <2>1, <3>1, <3>2 DEF Order, Rising
    <3>3. CASE k = Len(net) + 1
      BY <1>2, <1>3, <1>4, <3>1, <3>3 DEF Order
    <3>4. QED
      BY <1>5, <3>2, <3>3
  <2>2. QED
    BY <2>1 DEF Rising
<1>8. Rising(out')
  <2>1. ASSUME NEW j \in 1..Len(out'), NEW k \in 1..Len(out'), j < k
        PROVE  get_id(out'[j]) < get_id(out'[k])
    <3>1. /\ out'[j] = out[j + 1] /\ out'[k] = out[k + 1] /\ j + 1 < k + 1
          /\ j + 1 \in 1..Len(out) /\ k + 1 \in 1..Len(out)
      BY <1>3, <2>1
    <3>2. QED
      BY <1>2, <3>1 DEF Order, Rising
  <2>2. QED
    BY <2>1 DEF Rising
<1>9. \A j \in 1..Len(executed) :
        /\ executed[j] < seqId
        /\ \A k \in 1..Len(net') : executed[j] < get_id(net'[k])
        /\ \A k \in 1..Len(out') : executed[j] < get_id(out'[k])
  BY <1>2, <1>3, <1>4, <1>5 DEF Order
<1>10. \A j \in 1..Len(net') :
         /\ get_id(net'[j]) < seqId
         /\ \A k \in 1..Len(out') : get_id(net'[j]) < get_id(out'[k])
  <2>1. ASSUME NEW j \in 1..Len(net'), j = Len(net) + 1, NEW k \in 1..Len(out')
        PROVE  get_id(net'[j]) < get_id(out'[k])
    <3>1. 1 < k + 1 /\ k + 1 \in 1..Len(out) /\ out'[k] = out[k + 1] /\ net'[j] = out[1]
      BY <1>3, <1>4, <2>1
    <3>2. QED
      BY <1>2, <1>3, <3>1 DEF Order, Rising
  <2>2. ASSUME NEW j \in 1..Len(net'), j \in 1..Len(net), NEW k \in 1..Len(out')
        PROVE  get_id(net'[j]) < get_id(out'[k])
    BY <1>2, <1>3, <1>4, <2>2 DEF Order
  <2>3. \A j \in 1..Len(net') : get_id(net'[j]) < seqId
    BY <1>2, <1>3, <1>4, <1>5 DEF Order
  <2>4. QED
    BY <1>5, <2>1, <2>2, <2>3
<1>11. \A j \in 1..Len(out') : get_id(out'[j]) < seqId
  BY <1>2, <1>3 DEF Order
<1>12. Order'
  <2>1. Sorted(executed') /\ seqId' = seqId /\ executed' = executed
    BY <1>1, <1>2 DEF Order
  <2>2. QED
    BY <1>7, <1>8, <1>9, <1>10, <1>11, <2>1 DEF Order, Sorted, Rising
<1>13. QED
  BY <1>1, <1>2, <1>6, <1>12, KnownKept, ListenersKept DEF RpcInv

(* Queues that are emptied.                                                *)
LEMMA OrderLost ==
    ASSUME Order, UNCHANGED <<seqId, executed>>, out' = <<>>, net' \in {net, <<>>}
    PROVE  Order'
<1>1. Len(out') = 0
  OBVIOUS
<1>2. CASE net' = net
  BY <1>1, <1>2 DEF Order, Sorted, Rising
<1>3. CASE net' = <<>>
  <2>1. Len(net') = 0
    BY <1>3
  <2>2. QED
    BY <1>1, <2>1 DEF Order, Sorted, Rising
<1>4. QED
  BY <1>2, <1>3

LEMMA CloseInv == ASSUME RpcInv, Close PROVE RpcInv'
<1>1. /\ link' = "closed" /\ out' = <<>>
      /\ UNCHANGED <<adapter, seqId, promise, onMessage, onError, status, net, back,
                     server, executed>>
  BY DEF Close, clientVars, serverVars
<1>2. ClientTypes /\ Order /\ Known /\ Listeners
  BY InvFacts
<1>3. ClientTypes'
  BY <1>1, <1>2 DEF ClientTypes
<1>4. QED
  BY <1>1, <1>2, <1>3, OrderLost, KnownKept, ListenersKept DEF RpcInv

LEMMA FailInv == ASSUME RpcInv, Fail PROVE RpcInv'
<1>1. /\ link' = "failed"
      /\ promise' = [i \in Ids |-> IF i \in Called(onError) THEN "failed" ELSE promise[i]]
      /\ onError' = AfterError(onError) /\ onMessage' = AfterError(onMessage)
      /\ out' = <<>> /\ net' \in {net, <<>>}
      /\ UNCHANGED <<adapter, seqId, status, back, server, executed>>
  BY DEF Fail, serverVars
<1>2. /\ ClientTypes /\ Order /\ Known /\ Listeners
      /\ onError \in Seq(Ids) /\ Sorted(onError) /\ onMessage = onError
  BY InvFacts DEF ClientTypes, Listeners
<1>3. /\ onError' \in Seq(Ids) /\ Sorted(onError') /\ onMessage' = onError'
      /\ \A i \in Called(onError) : i \in Ids /\ \E k \in 1..Len(onError) : onError[k] = i
      /\ \A i \in Ids : (\E k \in 1..Len(onError') : onError'[k] = i)
                          <=> i \notin Called(onError) /\ \E k \in 1..Len(onError) : onError[k] = i
  <2> DEFINE rest == AfterError(onError)
  <2>1. /\ rest \in Seq(Ids) /\ Sorted(rest) /\ Called(onError) \subseteq Ids
        /\ \A i \in Called(onError) : \E k \in 1..Len(onError) : onError[k] = i
        /\ \A i \in Ids : (\E k \in 1..Len(rest) : rest[k] = i)
             <=> i \notin Called(onError) /\ \E k \in 1..Len(onError) : onError[k] = i
    BY <1>2, ErrorFacts
  <2>2. onError' = rest /\ onMessage' = rest
    BY <1>1, <1>2
  <2> HIDE DEF rest
  <2>3. QED
    BY <2>1, <2>2
<1>4. \A i \in Ids : promise'[i] = IF i \in Called(onError) THEN "failed" ELSE promise[i]
  BY <1>1
<1>5. \A i \in Called(onError) : i \in Ids /\ promise[i] = "pending"
  BY <1>2, <1>3 DEF Listeners
<1>6. ClientTypes'
  <2>1. promise' \in [Ids -> Outcomes]
    BY <1>1, <1>2 DEF ClientTypes, Outcomes
  <2>2. \A i \in Ids : promise'[i] = "unsent" <=> i >= seqId'
    BY <1>1, <1>2, <1>4, <1>5 DEF ClientTypes
  <2>3. out' \in Seq(Asks) /\ net' \in Seq(Asks)
    <3>1. net \in Seq(Asks) /\ <<>> \in Seq(Asks)
      BY <1>2 DEF ClientTypes
    <3>2. QED
      BY <1>1, <3>1
  <2>4. QED
    BY <1>1, <1>2, <1>3, <2>1, <2>2, <2>3 DEF ClientTypes
<1>7. Known'
  <2>1. \A i \in Ids : promise'[i] \in {"resolved", "rejected"} => HasRun(i)
    BY <1>2, <1>4 DEF Known
  <2>2. QED
    BY <1>1, <1>2, <2>1 DEF Known, HasRun
<1>8. Listeners'
  <2>1. \A i \in Ids : promise'[i] = "pending" <=> \E k \in 1..Len(onError') : onError'[k] = i
    BY <1>2, <1>3, <1>4 DEF Listeners
  <2>2. QED
    BY <1>3, <2>1 DEF Listeners, Sorted
<1>9. QED
  BY <1>1, <1>2, <1>6, <1>7, <1>8, OrderLost DEF RpcInv

-----------------------------------------------------------------------------
(* The steps of the server.                                                *)

LEMMA NewAnswer ==
    ASSUME NEW i \in Ids, NEW e \in ErrorCodes \cup {Null},
           NEW msg, msg = SerializeResponse([id |-> i, result |-> Null, error |-> e])
    PROVE  msg \in Answers /\ get_id(msg) = i
<1>1. msg \in Answers
  <2>1. [id |-> i, result |-> Null, error |-> e]
          \in [id : Ids, result : {Null}, error : ErrorCodes \cup {Null}]
    OBVIOUS
  <2>2. QED
    BY <2>1 DEF Answers
<1>2. get_id(msg) = i
  <2>1. CASE e = Null
    <3>1. msg = [result |-> Null, id |-> i]
      BY <2>1 DEF SerializeResponse
    <3>2. QED
      BY <3>1 DEF get_id, Get, Has
  <2>2. CASE e # Null
    <3>1. msg = [result |-> Null, error |-> e, id |-> i]
      BY <2>2 DEF SerializeResponse
    <3>2. QED
      BY <3>1 DEF get_id, Get, Has
  <2>3. QED
    BY <2>1, <2>2
<1>3. QED
  BY <1>1, <1>2

(* A request leaves the queue; what is known of the others stays.          *)
LEMMA OrderServed ==
    ASSUME RpcInv, net # <<>>, net' = Tail(net), UNCHANGED <<seqId, out>>,
           executed' = executed \/ executed' = Append(executed, get_id(Head(net)))
    PROVE  Order' /\ executed' \in Seq(Ids) /\ net' \in Seq(Asks)
<1>1. ClientTypes /\ Order /\ net \in Seq(Asks) /\ executed \in Seq(Ids)
  BY InvFacts DEF ClientTypes
<1>2. /\ Head(net) = net[1] /\ net[1] \in Asks /\ 1 \in 1..Len(net) /\ net' \in Seq(Asks)
      /\ \A k \in 1..Len(net') : /\ net'[k] = net[k + 1]
                                 /\ k \in Nat /\ 1 < k + 1 /\ k + 1 \in 1..Len(net)
  BY <1>1, TailFacts
<1>3. get_id(net[1]) \in Ids
  BY <1>2, AskFacts
<1>4. executed' \in Seq(Ids)
  <2>1. Append(executed, get_id(Head(net))) \in Seq(Ids)
    BY <1>1, <1>2, <1>3, PushFacts
  <2>2. QED
    BY <1>1, <2>1
<1>5. \A j \in 1..Len(executed') :
        \/ j \in 1..Len(executed) /\ executed'[j] = executed[j]
        \/ j = Len(executed) + 1 /\ executed'[j] = get_id(net[1])
  <2>1. CASE executed' = executed
    BY <2>1
  <2>2. CASE executed' = Append(executed, get_id(net[1]))
    BY <1>1, <1>3, <2>2, PushFacts
  <2>3. QED
    BY <1>2, <2>1, <2>2
<1>6. Rising(net') /\ \A k \in 1..Len(net') : get_id(net[1]) < get_id(net'[k])
  <2>1. ASSUME NEW j \in 1..Len(net'), NEW k \in 1..Len(net'), j < k
        PROVE  get_id(net'[j]) < get_id(net'[k])
    <3>1. j + 1 < k + 1
      BY <1>2, <2>1
    <3>2. QED
      BY <1>1, <1>2, <3>1 DEF Order, Rising
  <2>2. \A k \in 1..Len(net') : get_id(net[1]) < get_id(net'[k])
    BY <1>1, <1>2 DEF Order, Rising
  <2>3. QED
    BY <2>1, <2>2 DEF Rising
<1>7. Sorted(executed')
  <2>1. ASSUME NEW j \in 1..Len(executed'), NEW k \in 1..Len(executed'), j < k
        PROVE  executed'[j] < executed'[k]
    <3>1. j \in 1..Len(executed) /\ executed'[j] = executed[j]
      <4>1. Len(executed) \in Nat /\ \A l \in 1..Len(executed') : l <= Len(executed) + 1
        BY <1>1, <1>5
      <4>2. j # Len(executed) + 1
        BY <2>1, <4>1
      <4>3. QED
        BY <1>5, <4>2
    <3>2. CASE k \in 1..Len(executed) /\ executed'[k] = executed[k]
      BY <1>1, <2>1, <3>1, <3>2 DEF Order, Sorted
    <3>3. CASE executed'[k] = get_id(net[1])
      BY <1>1, <1>2, <3>1, <3>3 DEF Order
    <3>4. QED
      BY <1>5, <3>2, <3>3
  <2>2. QED
    BY <2>1 DEF Sorted
<1>8. \A j \in 1..Len(executed') :
        /\ executed'[j] < seqId'
        /\ \A k \in 1..Len(net') : executed'[j] < get_id(net'[k])
        /\ \A k \in 1..Len(out') : executed'[j] < get_id(out'[k])
  <2>1. ASSUME NEW j \in 1..Len(executed'), j \in 1..Len(executed), executed'[j] = executed[j]
        PROVE  /\ executed'[j] < seqId'
               /\ \A k \in 1..Len(net') : executed'[j] < get_id(net'[k])
               /\ \A k \in 1..Len(out') : executed'[j] < get_id(out'[k])
    BY <1>1, <1>2, <2>1 DEF Order
  <2>2. ASSUME NEW j \in 1..Len(executed'), executed'[j] = get_id(net[1])
        PROVE  /\ executed'[j] < seqId'
               /\ \A k \in 1..Len(net') : executed'[j] < get_id(net'[k])
               /\ \A k \in 1..Len(out') : executed'[j] < get_id(out'[k])
    BY <1>1, <1>2, <1>6, <2>2 DEF Order
  <2>3. QED
    BY <1>5, <2>1, <2>2
<1>9. /\ \A j \in 1..Len(net') : /\ get_id(net'[j]) < seqId'
                                 /\ \A k \in 1..Len(out') : get_id(net'[j]) < get_id(out'[k])
      /\ Rising(out') /\ \A j \in 1..Len(out') : get_id(out'[j]) < seqId'
  BY <1>1, <1>2 DEF Order, Rising
<1>10. QED
  BY <1>2, <1>4, <1>6, <1>7, <1>8, <1>9 DEF Order, Sorted, Rising

(* A message of the server: an answer to a request executed, or a notice.  *)
LEMMA KnownMore ==
    ASSUME RpcInv, NEW msg \in Answers \cup Notices, back' = Append(back, msg),
           UNCHANGED promise, executed' \in Seq(Ids),
           \A k \in 1..Len(executed) : k \in 1..Len(executed') /\ executed'[k] = executed[k],
           isJsonRpcResponse(msg) => \E j \in 1..Len(executed') : executed'[j] = get_id(msg)
    PROVE  Known' /\ back' \in Seq(Answers \cup Notices)
<1>1. Known /\ back \in Seq(Answers \cup Notices)
  BY InvFacts DEF ClientTypes
<1>2. /\ back' \in Seq(Answers \cup Notices) /\ Len(back') = Len(back) + 1 /\ Len(back) \in Nat
      /\ \A k \in 1..Len(back) : back'[k] = back[k]
      /\ back'[Len(back) + 1] = msg
  BY <1>1, PushFacts
<1>3. \A k \in 1..Len(back') : k \in 1..Len(back) \/ k = Len(back) + 1
  BY <1>2
<1>4. \A i : HasRun(i) => \E j \in 1..Len(executed') : executed'[j] = i
  BY DEF HasRun
<1>5. \A k \in 1..Len(back') : isJsonRpcResponse(back'[k]) =>
        \E j \in 1..Len(executed') : executed'[j] = get_id(back'[k])
  <2>1. ASSUME NEW k \in 1..Len(back'), isJsonRpcResponse(back'[k])
        PROVE  \E j \in 1..Len(executed') : executed'[j] = get_id(back'[k])
    <3>1. CASE k \in 1..Len(back)
      BY <1>1, <1>2, <1>4, <2>1, <3>1 DEF Known
    <3>2. CASE k = Len(back) + 1
      BY <1>2, <2>1, <3>2
    <3>3. QED
      BY <1>3, <3>1, <3>2
  <2>2. QED
    BY <2>1
<1>6. \A i \in Ids : promise'[i] \in {"resolved", "rejected"} =>
        \E j \in 1..Len(executed') : executed'[j] = i
  BY <1>1, <1>4 DEF Known
<1>7. QED
  BY <1>2, <1>5, <1>6 DEF Known, HasRun

LEMMA ServeInv == ASSUME RpcInv, Serve PROVE RpcInv'
<1> DEFINE msg == Head(net)
           r == ParseRequest(msg)
<1>1. /\ net # <<>> /\ net' = Tail(net)
      /\ UNCHANGED <<adapter, link, seqId, promise, onMessage, onError, status, out>>
  BY DEF Serve, clientVars
<1>2. ClientTypes /\ Known /\ Listeners
  BY InvFacts
<1>3. msg \in Asks /\ is_request(msg) /\ get_id(msg) \in Ids /\ r.id = get_id(msg)
  <2>1. msg \in Asks
    BY <1>1, <1>2, TailFacts DEF ClientTypes
  <2>2. QED
    BY <2>1, AskFacts
<1>4. Listeners'
  BY <1>1, <1>2, ListenersKept
<1>5. CASE /\ server' = [server EXCEPT !.state = "thrown"]
           /\ UNCHANGED <<back, executed>>
  <2>1. Order' /\ net' \in Seq(Asks)
    BY <1>1, <1>5, OrderServed
  <2>2. server' \in Server
    <3>1. server \in Server
      BY <1>2 DEF ClientTypes
    <3>2. QED
      BY <1>5, <3>1 DEF Server
  <2>3. ClientTypes'
    BY <1>1, <1>2, <1>5, <2>1, <2>2 DEF ClientTypes
  <2>4. Known'
    BY <1>1, <1>2, <1>5, KnownKept
  <2>5. QED
    BY <1>4, <2>1, <2>3, <2>4 DEF RpcInv
<1>6. CASE ExecuteRequest(r)
  <2> HIDE DEF r, msg
  <2>1. PICK response \in Responses(r) : back' = Append(back, SerializeResponse(response))
    BY <1>6 DEF ExecuteRequest
  <2>2. executed' = Append(executed, get_id(msg)) /\ server' = [server EXCEPT !.resuming = @ \/ EndsPause(r)]
    BY <1>3, <1>6 DEF ExecuteRequest
  <2>3. PICK e \in ErrorCodes \cup {Null} : response = [id |-> get_id(msg), result |-> Null, error |-> e]
    BY <1>3, <2>1 DEF Responses, ErrorCodes
  <2>4. SerializeResponse(response) \in Answers /\ get_id(SerializeResponse(response)) = get_id(msg)
    BY <1>3, <2>3, NewAnswer
  <2>5. Order' /\ net' \in Seq(Asks) /\ executed' \in Seq(Ids)
    BY <1>1, <2>2, OrderServed DEF msg
  <2>6. /\ \A k \in 1..Len(executed) : k \in 1..Len(executed') /\ executed'[k] = executed[k]
        /\ \E j \in 1..Len(executed') : executed'[j] = get_id(msg)
    <3>1. executed \in Seq(Ids) /\ Len(executed) \in Nat
      BY <1>2 DEF ClientTypes
    <3>2. /\ Len(executed') = Len(executed) + 1 /\ executed'[Len(executed) + 1] = get_id(msg)
          /\ \A k \in 1..Len(executed) : executed'[k] = executed[k]
      BY <1>3, <2>2, <3>1, PushFacts
    <3>3. Len(executed) + 1 \in 1..Len(executed') /\ \A k \in 1..Len(executed) : k \in 1..Len(executed')
      BY <3>1, <3>2
    <3>4. QED
      BY <3>2, <3>3
  <2>7. Known' /\ back' \in Seq(Answers \cup Notices)
    BY <1>1, <2>1, <2>4, <2>5, <2>6, KnownMore
  <2>8. server' \in Server
    <3>1. server \in Server /\ EndsPause(r) \in BOOLEAN
      BY <1>2 DEF ClientTypes, EndsPause
    <3>2. QED
      BY <2>2, <3>1 DEF Server
  <2>9. ClientTypes'
    BY <1>1, <1>2, <2>5, <2>7, <2>8 DEF ClientTypes
  <2>10. QED
    BY <1>4, <2>5, <2>7, <2>9 DEF RpcInv
<1>7. QED
  BY <1>3, <1>5, <1>6 DEF Serve

LEMMA NotifyInv == ASSUME RpcInv, NEW n \in Notifications, Notify(n) PROVE RpcInv'
<1> DEFINE msg == SerializeNotify([method |-> n, params |-> Null])
<1>1. /\ back' = Append(back, msg)
      /\ server' = [state |-> IF n = "exit" THEN "closed" ELSE "up", told |-> n, resuming |-> FALSE]
      /\ UNCHANGED <<adapter, link, seqId, promise, onMessage, onError, status, out, net, executed>>
  BY DEF Notify, clientVars
<1>2. msg \in Notices
  BY DEF Notices
<1> HIDE DEF msg
<1>3. ClientTypes /\ Order /\ Known /\ Listeners
  BY InvFacts
<1>4. Known' /\ back' \in Seq(Answers \cup Notices)
  <2>1. ~isJsonRpcResponse(msg)
    BY <1>2, NoticeFacts
  <2>2. executed' \in Seq(Ids)
    BY <1>1, <1>3 DEF ClientTypes
  <2>3. QED
    BY <1>1, <1>2, <2>1, <2>2, KnownMore
<1>5. server' \in Server
  BY <1>1 DEF Server
<1>6. ClientTypes'
  BY <1>1, <1>3, <1>4, <1>5 DEF ClientTypes
<1>7. QED
  BY <1>1, <1>3, <1>4, <1>6, OrderKept, ListenersKept DEF RpcInv

LEMMA StutterInv == ASSUME RpcInv, UNCHANGED vars PROVE RpcInv'
<1>1. ClientTypes'
  BY InvFacts DEF ClientTypes, vars, clientVars, serverVars
<1>2. QED
  BY <1>1, InvFacts, OrderKept, KnownKept, ListenersKept DEF RpcInv, vars, clientVars, serverVars

LEMMA RpcInvariant == Spec => []RpcInv
<1>1. RpcInv /\ [Next]_vars => RpcInv'
  <2>1. SUFFICES ASSUME RpcInv, [Next]_vars PROVE RpcInv'
    OBVIOUS
  <2>2. ASSUME NEW use \in Uses, Send(use[1], use[2]) PROVE RpcInv'
    BY <2>1, <2>2, SendInv
  <2>3. CASE Deliver
    BY <2>1, <2>3, DeliverInv
  <2>4. CASE End \/ Connect \/ Drop
    BY <2>1, <2>4, LinkInv
  <2>5. CASE Flush
    BY <2>1, <2>5, FlushInv
  <2>6. CASE Fail
    BY <2>1, <2>6, FailInv
  <2>7. CASE Close
    BY <2>1, <2>7, CloseInv
  <2>8. CASE Serve
    BY <2>1, <2>8, ServeInv
  <2>9. CASE ConnectedDone \/ Paused \/ Running \/ Exit
    BY <2>1, <2>9, NotifyInv DEF ConnectedDone, Paused, Running, Exit, Notifications
  <2>10. CASE UNCHANGED vars
    BY <2>1, <2>10, StutterInv
  <2>11. QED
    BY <2>1, <2>2, <2>3, <2>4, <2>5, <2>6, <2>7, <2>8, <2>9, <2>10 DEF Next
<1>2. Init => RpcInv
  BY InitInv
<1>3. QED
  BY <1>1, <1>2, PTL DEF Spec

-----------------------------------------------------------------------------
(* The theorems.                                                           *)

(* The state always has its type, and calls have ids in their order.       *)
THEOREM RpcTypeCorrect == Spec => []TypeOK
<1>1. RpcInv => TypeOK
  BY DEF RpcInv, ClientTypes, TypeOK
<1>2. QED
  BY <1>1, RpcInvariant, PTL

(* However many calls are pending, and whatever answers and errors came    *)
(* before: the listeners left are those of the pending calls.              *)
THEOREM ListenersAlwaysExact == Spec => []ListenersExact
<1>1. RpcInv => ListenersExact
  <2>1. SUFFICES ASSUME RpcInv PROVE ListenersExact
    OBVIOUS
  <2>2. Listeners /\ onError \in Seq(Ids)
    BY <2>1 DEF RpcInv, ClientTypes
  <2>3. DOMAIN onError = 1..Len(onError)
    BY <2>2
  <2>4. QED
    BY <2>2, <2>3 DEF Listeners, Sorted, ListenersExact
<1>2. QED
  BY <1>1, RpcInvariant, PTL

(* The calls executed, as RpcCalls knows them.                             *)
Ran == {executed[k] : k \in DOMAIN executed}

LEMMA RanFacts ==
    ASSUME RpcInv
    PROVE  \A i : i \in Ran <=> HasRun(i)
<1>1. DOMAIN executed = 1..Len(executed)
  BY InvFacts DEF ClientTypes
<1>2. QED
  BY <1>1 DEF Ran, HasRun

AbsAsk(c) ==
    /\ promise[c] = "unsent"
    /\ \E o \in {"pending", "refused"} : promise' = [promise EXCEPT ![c] = o]
    /\ Ran' = Ran
AbsExecute(c) ==
    /\ promise[c] \notin {"unsent", "resolved", "rejected"}
    /\ \A d \in Ran : d < c
    /\ Ran' = Ran \cup {c}
    /\ promise' = promise
AbsSettle(c) ==
    /\ promise[c] = "pending" /\ c \in Ran
    /\ \E o \in {"resolved", "rejected"} : promise' = [promise EXCEPT ![c] = o]
    /\ Ran' = Ran
AbsBreak ==
    /\ \E S \in SUBSET {c \in Ids : promise[c] = "pending"} :
         promise' = [c \in Ids |-> IF c \in S THEN "failed" ELSE promise[c]]
    /\ Ran' = Ran

LEMMA AskStep ==
    ASSUME RpcInv, NEW use \in Uses, Send(use[1], use[2])
    PROVE  \E c \in Ids : AbsAsk(c)
<1>1. /\ seqId < MaxRequests /\ UNCHANGED executed
      /\ \E o \in {"pending", "refused"} : promise' = [promise EXCEPT ![seqId] = o]
  BY DEF Send, NextId, serverVars
<1>2. seqId \in Ids
  BY <1>1, InvFacts, IdsNat
<1>3. promise[seqId] = "unsent"
  BY <1>2, InvFacts DEF ClientTypes
<1>4. Ran' = Ran
  BY <1>1 DEF Ran
<1>5. QED
  BY <1>1, <1>2, <1>3, <1>4 DEF AbsAsk

LEMMA SettleStep ==
    ASSUME RpcInv, Deliver
    PROVE  (\E c \in Ids : AbsSettle(c)) \/ (promise' = promise /\ Ran' = Ran)
<1>1. Ran' = Ran
  BY DEF Deliver, serverVars, Ran
<1>2. CASE UNCHANGED promise
  BY <1>1, <1>2
<1>3. CASE isJsonRpcResponse(Head(back)) /\ Listening(Head(back)["id"]) /\ Answered(Head(back))
  <2> DEFINE msg == Head(back)
             i == msg["id"]
  <2>1. /\ back # <<>> /\ back \in Seq(Answers \cup Notices) /\ Known /\ Listeners
        /\ onError \in Seq(Ids)
    BY InvFacts DEF Deliver, ClientTypes
  <2>2. msg = back[1] /\ msg \in Answers \cup Notices /\ 1 \in 1..Len(back)
    BY <2>1, TailFacts
  <2> HIDE DEF msg
  <2>3. i \in Ids /\ get_id(msg) = i
    BY <1>3, <2>2, BackFacts DEF msg
  <2>4. i \in Ran
    <3>1. isJsonRpcResponse(back[1])
      BY <1>3, <2>2 DEF msg
    <3>2. HasRun(get_id(msg))
      BY <2>1, <2>2, <3>1 DEF Known
    <3>3. QED
      BY <2>3, <3>2, RanFacts
  <2>5. promise[i] = "pending"
    <3>1. \E k \in DOMAIN onMessage : onMessage[k] = i
      BY <1>3 DEF Listening, msg
    <3>2. onMessage = onError /\ DOMAIN onError = 1..Len(onError)
      BY <2>1 DEF Listeners
    <3>3. QED
      BY <2>1, <2>3, <3>1, <3>2 DEF Listeners
  <2>6. \E o \in {"resolved", "rejected"} : promise' = [promise EXCEPT ![i] = o]
    BY <1>3 DEF Answered, msg
  <2>7. QED
    BY <1>1, <2>3, <2>4, <2>5, <2>6 DEF AbsSettle
<1>4. QED
  BY <1>2, <1>3 DEF Deliver

LEMMA ExecuteStep ==
    ASSUME RpcInv, Serve
    PROVE  (\E c \in Ids : AbsExecute(c)) \/ (promise' = promise /\ Ran' = Ran)
<1> DEFINE msg == Head(net)
           i == get_id(msg)
<1>1. /\ net # <<>> /\ promise' = promise
      /\ net \in Seq(Asks) /\ executed \in Seq(Ids) /\ Order /\ Known
      /\ DOMAIN executed = 1..Len(executed)
  BY InvFacts DEF Serve, ClientTypes, clientVars
<1>2. msg = net[1] /\ msg \in Asks /\ 1 \in 1..Len(net)
  BY <1>1, TailFacts
<1> HIDE DEF msg
<1>3. is_request(msg) /\ i \in Ids /\ ParseRequest(msg).id = i
  BY <1>2, AskFacts
<1>4. CASE UNCHANGED executed
  BY <1>1, <1>4 DEF Ran
<1>5. CASE executed' = Append(executed, i)
  <2>1. \A j \in 1..Len(executed) : executed[j] < i
    BY <1>1, <1>2 DEF Order
  <2>2. \A d \in Ran : d < i
    BY <1>1, <2>1 DEF Ran
  <2>3. i < seqId
    BY <1>1, <1>2 DEF Order
  <2>4. promise[i] # "unsent"
    <3>1. i \in Nat /\ seqId \in Nat
      BY <1>3, IdsNat, InvFacts
    <3>2. ~(i >= seqId)
      BY <2>3, <3>1
    <3>3. QED
      BY <1>3, <3>2, InvFacts DEF ClientTypes
  <2>5. promise[i] \notin {"resolved", "rejected"}
    <3>1. ~HasRun(i)
      <4>1. SUFFICES ASSUME NEW j \in 1..Len(executed), executed[j] = i PROVE FALSE
        BY DEF HasRun
      <4>2. i < i /\ i \in Nat
        BY <1>3, <2>1, <4>1, IdsNat
      <4>3. QED
        BY <4>2
    <3>2. QED
      BY <1>1, <1>3, <3>1 DEF Known
  <2>6. Ran' = Ran \cup {i}
    <3>1. /\ DOMAIN executed' = 1..Len(executed) + 1 /\ Len(executed) \in Nat
          /\ \A k \in 1..Len(executed) : executed'[k] = executed[k]
          /\ executed'[Len(executed) + 1] = i
      BY <1>1, <1>3, <1>5
    <3>2. \A k \in 1..Len(executed) + 1 : k \in 1..Len(executed) \/ k = Len(executed) + 1
      BY <3>1
    <3>3. Len(executed) + 1 \in 1..Len(executed) + 1
          /\ \A k \in 1..Len(executed) : k \in 1..Len(executed) + 1
      BY <3>1
    <3>4. ASSUME NEW c PROVE c \in Ran' <=> c \in Ran \/ c = i
      <4>1. c \in Ran' <=> \E k \in 1..Len(executed) + 1 : executed'[k] = c
        BY <3>1 DEF Ran
      <4>2. c \in Ran <=> \E k \in 1..Len(executed) : executed[k] = c
        BY <1>1 DEF Ran
      <4>3. QED
        BY <3>1, <3>2, <3>3, <4>1, <4>2
    <3>5. QED
      BY <3>4
  <2>7. QED
    BY <1>1, <1>3, <2>2, <2>4, <2>5, <2>6 DEF AbsExecute
<1>6. QED
  BY <1>3, <1>4, <1>5 DEF Serve, ExecuteRequest, serverVars, msg

LEMMA BreakStep == ASSUME RpcInv, Fail PROVE AbsBreak
<1>1. /\ promise' = [c \in Ids |-> IF c \in Called(onError) THEN "failed" ELSE promise[c]]
      /\ Ran' = Ran
  BY DEF Fail, serverVars, Ran
<1>2. onError \in Seq(Ids) /\ Listeners /\ Sorted(onError)
  BY InvFacts DEF ClientTypes, Listeners
<1>3. Called(onError) \subseteq {c \in Ids : promise[c] = "pending"}
  <2>1. /\ Called(onError) \subseteq Ids
        /\ \A i \in Called(onError) : \E k \in 1..Len(onError) : onError[k] = i
    BY <1>2, ErrorFacts
  <2>2. QED
    BY <1>2, <2>1 DEF Listeners
<1>4. QED
  BY <1>1, <1>3 DEF AbsBreak

(* The calls of the client, over a connection that may fail at any moment, *)
(* do what RpcCalls promises: each is executed at most once and in order,  *)
(* and settled at most once, by an answer only after its execution.        *)
THEOREM CallsAlwaysImplemented == Spec => CallsImplemented
<1>1. Init => RpcCallsImplemented!CallsInit
  <2>1. SUFFICES ASSUME Init PROVE RpcCallsImplemented!CallsInit
    OBVIOUS
  <2>2. executed = <<>> /\ promise = [c \in Ids |-> "unsent"]
    BY <2>1 DEF Init
  <2>3. {executed[k] : k \in DOMAIN executed} = {}
    BY <2>2
  <2>4. QED
    BY <2>2, <2>3 DEF RpcCallsImplemented!CallsInit
<1>2. RpcInv /\ [Next]_vars => [RpcCallsImplemented!CallsNext]_RpcCallsImplemented!callVars
  <2>1. SUFFICES ASSUME RpcInv, [Next]_vars
                 PROVE  [RpcCallsImplemented!CallsNext]_RpcCallsImplemented!callVars
    OBVIOUS
  <2>2. \/ AbsBreak
        \/ \E c \in Ids : AbsAsk(c) \/ AbsExecute(c) \/ AbsSettle(c)
        \/ promise' = promise /\ Ran' = Ran
    <3>1. ASSUME NEW use \in Uses, Send(use[1], use[2]) PROVE \E c \in Ids : AbsAsk(c)
      BY <2>1, <3>1, AskStep
    <3>2. CASE Deliver
      BY <2>1, <3>2, SettleStep
    <3>3. CASE Serve
      BY <2>1, <3>3, ExecuteStep
    <3>4. CASE Fail
      BY <2>1, <3>4, BreakStep
    <3>5. CASE End \/ Connect \/ Flush \/ Close \/ Drop
      BY <3>5 DEF End, Connect, Flush, Close, Drop, clientVars, serverVars, Ran
    <3>6. CASE ConnectedDone \/ Paused \/ Running \/ Exit
      BY <3>6 DEF ConnectedDone, Paused, Running, Exit, Notify, clientVars, Ran
    <3>7. CASE UNCHANGED vars
      BY <3>7 DEF vars, clientVars, serverVars, Ran
    <3>8. QED
      BY <2>1, <3>1, <3>2, <3>3, <3>4, <3>5, <3>6, <3>7 DEF Next
  <2>3. QED
    BY <2>2 DEF AbsBreak, AbsAsk, AbsExecute, AbsSettle, Ran,
       RpcCallsImplemented!CallsNext, RpcCallsImplemented!callVars, RpcCallsImplemented!Break,
       RpcCallsImplemented!Ask, RpcCallsImplemented!Execute, RpcCallsImplemented!Settle
<1>3. QED
  BY <1>1, <1>2, RpcInvariant, PTL DEF Spec, CallsImplemented, RpcCallsImplemented!CallsSpec

-----------------------------------------------------------------------------
(* No message of a pending call gets lost.                                 *)

Alive == link \in {"connecting", "open", "ended"} /\ server.state = "up"
Asked(queue, i) == \E k \in 1..Len(queue) : get_id(queue[k]) = i
HasAnswer(queue, i) ==
    \E k \in 1..Len(queue) : isJsonRpcResponse(queue[k]) /\ get_id(queue[k]) = i
Carried ==
    Alive => \A i \in Ids : promise[i] = "pending" =>
                Asked(out, i) \/ Asked(net, i) \/ HasAnswer(back, i)

LEMMA PushKeeps ==
    ASSUME NEW S, NEW s \in Seq(S), NEW e \in S, NEW i
    PROVE  /\ Asked(s, i) => Asked(Append(s, e), i)
           /\ HasAnswer(s, i) => HasAnswer(Append(s, e), i)
           /\ get_id(e) = i => Asked(Append(s, e), i)
           /\ isJsonRpcResponse(e) /\ get_id(e) = i => HasAnswer(Append(s, e), i)
<1> DEFINE t == Append(s, e)
<1>1. /\ Len(t) = Len(s) + 1 /\ \A k \in 1..Len(s) : t[k] = s[k] /\ k \in 1..Len(t)
      /\ t[Len(s) + 1] = e /\ Len(s) + 1 \in 1..Len(t)
  <2>1. Len(s) \in Nat
    OBVIOUS
  <2>2. QED
    BY <2>1, PushFacts
<1> HIDE DEF t
<1>2. (Asked(s, i) => Asked(t, i)) /\ (HasAnswer(s, i) => HasAnswer(t, i))
  BY <1>1 DEF Asked, HasAnswer
<1>3. /\ get_id(e) = i => Asked(t, i)
      /\ isJsonRpcResponse(e) /\ get_id(e) = i => HasAnswer(t, i)
  BY <1>1 DEF Asked, HasAnswer
<1>4. QED
  BY <1>2, <1>3 DEF t

(* What is in a queue is its head or stays.                                *)
LEMMA TailKeeps ==
    ASSUME NEW S, NEW s \in Seq(S), s # <<>>, NEW i
    PROVE  /\ Head(s) \in S
           /\ Asked(s, i) => get_id(Head(s)) = i \/ Asked(Tail(s), i)
           /\ HasAnswer(s, i) => \/ isJsonRpcResponse(Head(s)) /\ get_id(Head(s)) = i
                                 \/ HasAnswer(Tail(s), i)
<1> DEFINE t == Tail(s)
<1>1. /\ Head(s) = s[1] /\ Head(s) \in S
      /\ \A k \in 1..Len(s) : k = 1 \/ (k - 1 \in 1..Len(t) /\ t[k - 1] = s[k])
  <2>1. /\ Head(s) = s[1] /\ Head(s) \in S /\ Len(s) \in Nat /\ Len(t) = Len(s) - 1
        /\ \A k \in 1..Len(s) - 1 : t[k] = s[k + 1]
    BY TailFacts
  <2>2. ASSUME NEW k \in 1..Len(s), k # 1 PROVE k - 1 \in 1..Len(t) /\ t[k - 1] = s[k]
    <3>1. k - 1 \in 1..Len(s) - 1 /\ k - 1 + 1 = k
      BY <2>1, <2>2
    <3>2. QED
      BY <2>1, <3>1
  <2>3. QED
    BY <2>1, <2>2
<1> HIDE DEF t
<1>2. Asked(s, i) => get_id(Head(s)) = i \/ Asked(t, i)
  BY <1>1 DEF Asked
<1>3. HasAnswer(s, i) => \/ isJsonRpcResponse(Head(s)) /\ get_id(Head(s)) = i
                         \/ HasAnswer(t, i)
  BY <1>1 DEF HasAnswer
<1>4. QED
  BY <1>1, <1>2, <1>3 DEF t

LEMMA SendCarries ==
    ASSUME RpcInv, Carried, NEW use \in Uses, Send(use[1], use[2])
    PROVE  Carried'
<1> DEFINE msg == SerializeRequest([id |-> seqId, method |-> use[1], params |-> use[2]])
<1>1. /\ seqId < MaxRequests /\ UNCHANGED <<link, net, back, server>>
      /\ \/ /\ promise' = [promise EXCEPT ![seqId] = "pending"]
            /\ Writable /\ out' = Append(out, msg)
         \/ /\ promise' = [promise EXCEPT ![seqId] = "refused"]
            /\ out' = out \/ out' = Append(out, msg)
  BY DEF Send, NextId, AdapterSend, serverVars
<1>2. /\ seqId \in Ids /\ promise \in [Ids -> Outcomes]
      /\ out \in Seq(Asks) /\ msg \in Asks /\ get_id(msg) = seqId
  <2>1. seqId \in Ids
    BY <1>1, InvFacts, IdsNat
  <2>2. QED
    BY <2>1, InvFacts, NewAsk DEF ClientTypes
<1> HIDE DEF msg
<1>3. ASSUME NEW i \in Ids, promise'[i] = "pending", Alive
      PROVE  Asked(out', i) \/ Asked(net, i) \/ HasAnswer(back, i)
  <2>1. CASE i = seqId
    <3>1. promise' # [promise EXCEPT ![seqId] = "refused"]
      <4>1. [promise EXCEPT ![seqId] = "refused"][i] = "refused"
        BY <1>2, <2>1
      <4>2. QED
        BY <1>3, <4>1
    <3>2. out' = Append(out, msg)
      BY <1>1, <3>1
    <3>3. Asked(Append(out, msg), i)
      BY <1>2, <2>1, PushKeeps
    <3>4. QED
      BY <3>2, <3>3
  <2>2. CASE i # seqId
    <3>1. promise[i] = "pending"
      BY <1>1, <1>2, <1>3, <2>2
    <3>2. Asked(out, i) => Asked(out', i)
      BY <1>1, <1>2, PushKeeps
    <3>3. QED
      BY <1>3, <3>1, <3>2 DEF Carried
  <2>3. QED
    BY <2>1, <2>2
<1>4. QED
  BY <1>1, <1>3 DEF Carried, Alive, Asked, HasAnswer

LEMMA DeliverCarries == ASSUME RpcInv, Carried, Deliver PROVE Carried'
<1> DEFINE msg == Head(back)
<1>1. /\ back # <<>> /\ back' = Tail(back) /\ back \in Seq(Answers \cup Notices)
      /\ UNCHANGED <<link, out, net, server>>
      /\ promise \in [Ids -> Outcomes] /\ Listeners /\ onError \in Seq(Ids)
  BY InvFacts DEF Deliver, ClientTypes, serverVars
<1>2. /\ isJsonRpcResponse(msg) /\ Listening(msg["id"]) =>
           \E o \in {"resolved", "rejected"} : promise' = [promise EXCEPT ![msg["id"]] = o]
      /\ ~(isJsonRpcResponse(msg) /\ Listening(msg["id"])) => promise' = promise
  BY DEF Deliver, Answered
<1>3. msg \in Answers \cup Notices
  BY <1>1, TailFacts
<1> HIDE DEF msg
<1>4. ASSUME NEW i \in Ids, promise'[i] = "pending", Alive
      PROVE  Asked(out, i) \/ Asked(net, i) \/ HasAnswer(back', i)
  <2>1. promise[i] = "pending" /\ ~(isJsonRpcResponse(msg) /\ get_id(msg) = i)
    <3>1. CASE isJsonRpcResponse(msg) /\ Listening(msg["id"])
      <4>1. msg["id"] \in Ids /\ get_id(msg) = msg["id"]
        BY <1>3, <3>1, BackFacts
      <4>2. QED
        BY <1>1, <1>2, <1>4, <3>1, <4>1
    <3>2. CASE ~(isJsonRpcResponse(msg) /\ Listening(msg["id"]))
      <4>1. promise[i] = "pending"
        BY <1>2, <1>4, <3>2
      <4>2. Listening(i)
        <5>1. \E k \in 1..Len(onError) : onError[k] = i
          BY <1>1, <4>1 DEF Listeners
        <5>2. DOMAIN onMessage = 1..Len(onError) /\ onMessage = onError
          BY <1>1 DEF Listeners
        <5>3. QED
          BY <5>1, <5>2 DEF Listening
      <4>3. isJsonRpcResponse(msg) => msg["id"] = get_id(msg)
        BY <1>3, BackFacts
      <4>4. QED
        BY <3>2, <4>1, <4>2, <4>3
    <3>3. QED
      BY <3>1, <3>2
  <2>2. Asked(out, i) \/ Asked(net, i) \/ HasAnswer(back, i)
    BY <1>4, <2>1 DEF Carried
  <2>3. HasAnswer(back, i) => HasAnswer(back', i)
    BY <1>1, <2>1, TailKeeps DEF msg
  <2>4. QED
    BY <2>2, <2>3
<1>5. QED
  BY <1>1, <1>4 DEF Carried, Alive, Asked

LEMMA FlushCarries == ASSUME RpcInv, Carried, Flush PROVE Carried'
<1>1. /\ out # <<>> /\ net' = Append(net, Head(out)) /\ out' = Tail(out)
      /\ UNCHANGED <<link, promise, back, server>>
      /\ out \in Seq(Asks) /\ net \in Seq(Asks)
  BY InvFacts DEF Flush, ClientTypes, clientVars, serverVars
<1>2. ASSUME NEW i \in Ids
      PROVE  Asked(out, i) \/ Asked(net, i) => Asked(out', i) \/ Asked(net', i)
  <2>1. Head(out) \in Asks /\ (Asked(out, i) => get_id(Head(out)) = i \/ Asked(out', i))
    BY <1>1, TailKeeps
  <2>2. (Asked(net, i) => Asked(net', i)) /\ (get_id(Head(out)) = i => Asked(net', i))
    BY <1>1, <2>1, PushKeeps
  <2>3. QED
    BY <2>1, <2>2
<1>3. QED
  BY <1>1, <1>2 DEF Carried, Alive, HasAnswer

LEMMA ServeCarries == ASSUME RpcInv, Carried, Serve PROVE Carried'
<1> DEFINE msg == Head(net)
           r == ParseRequest(msg)
<1>1. /\ net # <<>> /\ net' = Tail(net) /\ net \in Seq(Asks)
      /\ UNCHANGED <<link, promise, out>> /\ server \in Server
      /\ back \in Seq(Answers \cup Notices) /\ server.state = "up"
  BY InvFacts DEF Serve, ClientTypes, clientVars
<1>2. msg \in Asks
  BY <1>1, TailKeeps
<1>3. is_request(msg) /\ get_id(msg) \in Ids /\ r.id = get_id(msg)
  BY <1>2, AskFacts
<1>4. CASE server' = [server EXCEPT !.state = "thrown"]
  <2>1. server'.state = "thrown"
    BY <1>1, <1>4 DEF Server
  <2>2. ~Alive'
    BY <2>1 DEF Alive
  <2>3. QED
    BY <2>2 DEF Carried
<1>5. CASE ExecuteRequest(r)
  <2> HIDE DEF r, msg
  <2>1. PICK response \in Responses(r) : back' = Append(back, SerializeResponse(response))
    BY <1>5 DEF ExecuteRequest
  <2>2. PICK e \in ErrorCodes \cup {Null} : response = [id |-> get_id(msg), result |-> Null, error |-> e]
    BY <1>3, <2>1 DEF Responses, ErrorCodes
  <2> DEFINE answer == SerializeResponse(response)
  <2>3. answer \in Answers /\ get_id(answer) = get_id(msg)
    BY <1>3, <2>2, NewAnswer
  <2>4. isJsonRpcResponse(answer) /\ back' = Append(back, answer)
    BY <2>1, <2>3, AnswerFacts
  <2> HIDE DEF answer
  <2>5. ASSUME NEW i \in Ids
        PROVE  /\ Asked(net, i) => Asked(net', i) \/ HasAnswer(back', i)
               /\ HasAnswer(back, i) => HasAnswer(back', i)
    <3>1. Asked(net, i) => get_id(msg) = i \/ Asked(net', i)
      BY <1>1, TailKeeps DEF msg
    <3>2. answer \in Answers \cup Notices
      BY <2>3
    <3>3. (get_id(msg) = i => HasAnswer(back', i)) /\ (HasAnswer(back, i) => HasAnswer(back', i))
      BY <1>1, <2>3, <2>4, <3>2, PushKeeps
    <3>4. QED
      BY <3>1, <3>3
  <2>6. QED
    BY <1>1, <2>5 DEF Carried, Alive, Asked
<1>6. QED
  BY <1>3, <1>4, <1>5 DEF Serve

LEMMA NotifyCarries ==
    ASSUME RpcInv, Carried, NEW n \in Notifications, Notify(n)
    PROVE  Carried'
<1> DEFINE msg == SerializeNotify([method |-> n, params |-> Null])
<1>1. /\ back' = Append(back, msg) /\ UNCHANGED <<link, promise, out, net>>
      /\ back \in Seq(Answers \cup Notices) /\ server.state = "up"
  BY InvFacts DEF Notify, ClientTypes, clientVars
<1>2. msg \in Answers \cup Notices
  BY DEF Notices
<1> HIDE DEF msg
<1>3. ASSUME NEW i \in Ids PROVE HasAnswer(back, i) => HasAnswer(back', i)
  BY <1>1, <1>2, PushKeeps
<1>4. QED
  BY <1>1, <1>3 DEF Carried, Alive, Asked

LEMMA LinkCarries ==
    ASSUME RpcInv, Carried, End \/ Connect \/ Close \/ Fail \/ Drop \/ UNCHANGED vars
    PROVE  Carried'
<1>1. CASE Close \/ Fail \/ Drop
  <2>1. server \in Server
    BY InvFacts DEF ClientTypes
  <2>2. CASE Drop
    <3>1. server'.state = "closed"
      BY <2>1, <2>2 DEF Drop, Server
    <3>2. QED
      BY <3>1 DEF Carried, Alive
  <2>3. CASE Close \/ Fail
    <3>1. link' \in {"closed", "failed"}
      BY <2>3 DEF Close, Fail
    <3>2. QED
      BY <3>1 DEF Carried, Alive
  <2>4. QED
    BY <1>1, <2>2, <2>3
<1>2. CASE End \/ Connect \/ UNCHANGED vars
  <2>1. UNCHANGED <<promise, out, net, back, server>> /\ (Alive' => Alive)
    BY <1>2 DEF End, Connect, vars, clientVars, serverVars, Alive, Writable
  <2>2. QED
    BY <2>1 DEF Carried, Asked, HasAnswer
<1>3. QED
  BY <1>1, <1>2

(* While neither end has failed, no message of a pending call is lost.     *)
THEOREM NothingEverVanishes == Spec => []NothingVanishes
<1>1. Init => Carried
  <2>1. SUFFICES ASSUME Init PROVE Carried
    OBVIOUS
  <2>2. \A i \in Ids : promise[i] # "pending"
    BY <2>1 DEF Init
  <2>3. QED
    BY <2>2 DEF Carried
<1>2. RpcInv /\ Carried /\ [Next]_vars => Carried'
  <2>1. SUFFICES ASSUME RpcInv, Carried, [Next]_vars PROVE Carried'
    OBVIOUS
  <2>2. ASSUME NEW use \in Uses, Send(use[1], use[2]) PROVE Carried'
    BY <2>1, <2>2, SendCarries
  <2>3. CASE Deliver
    BY <2>1, <2>3, DeliverCarries
  <2>4. CASE Flush
    BY <2>1, <2>4, FlushCarries
  <2>5. CASE Serve
    BY <2>1, <2>5, ServeCarries
  <2>6. CASE ConnectedDone \/ Paused \/ Running \/ Exit
    BY <2>1, <2>6, NotifyCarries DEF ConnectedDone, Paused, Running, Exit, Notifications
  <2>7. CASE End \/ Connect \/ Close \/ Fail \/ Drop \/ UNCHANGED vars
    BY <2>1, <2>7, LinkCarries
  <2>8. QED
    BY <2>1, <2>2, <2>3, <2>4, <2>5, <2>6, <2>7 DEF Next
<1>3. RpcInv /\ Carried => NothingVanishes
  <2>1. SUFFICES ASSUME RpcInv, Carried, Alive, NEW i \in Ids, promise[i] = "pending"
                 PROVE  Asking(out, i) \cup Asking(net, i) \cup Answering(i) # {}
    BY DEF NothingVanishes, Alive
  <2>2. /\ DOMAIN out = 1..Len(out) /\ DOMAIN net = 1..Len(net) /\ DOMAIN back = 1..Len(back)
        /\ \A k \in 1..Len(out) : is_request(out[k])
        /\ \A k \in 1..Len(net) : is_request(net[k])
    BY <2>1, InvFacts, AskFacts DEF ClientTypes
  <2>3. CASE Asked(out, i)
    BY <2>2, <2>3 DEF Asked, Asking
  <2>4. CASE Asked(net, i)
    BY <2>2, <2>4 DEF Asked, Asking
  <2>5. CASE HasAnswer(back, i)
    BY <2>2, <2>5 DEF HasAnswer, Answering
  <2>6. QED
    BY <2>1, <2>3, <2>4, <2>5 DEF Carried
<1>4. QED
  BY <1>1, <1>2, <1>3, RpcInvariant, PTL DEF Spec

-----------------------------------------------------------------------------
(* The status is what the server said last.                                *)

(* The last notification on its way is the last one sent; when there is    *)
(* none the client has read that one already.                              *)
NoNotice(queue, from) == \A j \in from..Len(queue) : ~isJsonRpcNotify(queue[j])
Heard ==
    /\ NoNotice(back, 1) => status = server.told
    /\ \A k \in 1..Len(back) :
         isJsonRpcNotify(back[k]) /\ NoNotice(back, k + 1) => back[k]["method"] = server.told

LEMMA DeliverHears == ASSUME RpcInv, Heard, Deliver PROVE Heard'
<1> DEFINE msg == Head(back)
<1>1. /\ back # <<>> /\ back' = Tail(back) /\ back \in Seq(Answers \cup Notices)
      /\ server' = server
  BY InvFacts DEF Deliver, ClientTypes, serverVars
<1>2. /\ Len(back) \in Nat /\ Len(back) > 0 /\ msg = back[1] /\ msg \in Answers \cup Notices
      /\ Len(back') = Len(back) - 1
      /\ \A k \in 1..Len(back) - 1 : back'[k] = back[k + 1]
  <2>1. Len(back) \in Nat
    BY <1>1
  <2>2. QED
    BY <1>1, <2>1, TailFacts
<1>3. status' = IF isJsonRpcNotify(msg) THEN msg["method"] ELSE status
  <2>1. isJsonRpcResponse(msg) => ~isJsonRpcNotify(msg)
    BY <1>2, AnswerFacts, NoticeFacts
  <2>2. CASE isJsonRpcResponse(msg) /\ Listening(msg["id"])
    BY <2>1, <2>2 DEF Deliver
  <2>3. CASE ~(isJsonRpcResponse(msg) /\ Listening(msg["id"]))
    BY <2>3 DEF Deliver
  <2>4. QED
    BY <2>2, <2>3
<1> HIDE DEF msg
<1>4. ASSUME NEW k \in Nat, k >= 1
      PROVE  NoNotice(back', k) <=> NoNotice(back, k + 1)
  <2>1. ASSUME NoNotice(back', k), NEW j \in k + 1..Len(back)
        PROVE  ~isJsonRpcNotify(back[j])
    <3>1. j - 1 \in k..Len(back') /\ j - 1 \in 1..Len(back) - 1 /\ j - 1 + 1 = j
      BY <1>2, <1>4, <2>1
    <3>2. QED
      BY <1>2, <2>1, <3>1 DEF NoNotice
  <2>2. ASSUME NoNotice(back, k + 1), NEW j \in k..Len(back')
        PROVE  ~isJsonRpcNotify(back'[j])
    <3>1. j + 1 \in k + 1..Len(back) /\ j \in 1..Len(back) - 1
      BY <1>2, <1>4, <2>2
    <3>2. QED
      BY <1>2, <2>2, <3>1 DEF NoNotice
  <2>3. QED
    BY <2>1, <2>2 DEF NoNotice
<1>5. NoNotice(back', 1) => status' = server'.told
  <2>1. SUFFICES ASSUME NoNotice(back', 1) PROVE status' = server.told
    BY <1>1
  <2>2. NoNotice(back, 2)
    BY <1>4, <2>1
  <2>3. CASE isJsonRpcNotify(msg)
    <3>1. 1 \in 1..Len(back) /\ isJsonRpcNotify(back[1]) /\ NoNotice(back, 1 + 1)
      BY <1>2, <2>2, <2>3
    <3>2. back[1]["method"] = server.told
      BY <3>1 DEF Heard
    <3>3. QED
      BY <1>2, <1>3, <2>3, <3>2
  <2>4. CASE ~isJsonRpcNotify(msg)
    <3>1. \A j \in 1..Len(back) : j = 1 \/ j \in 2..Len(back)
      BY <1>2
    <3>2. NoNotice(back, 1)
      BY <1>2, <2>2, <2>4, <3>1 DEF NoNotice
    <3>3. QED
      BY <1>3, <2>4, <3>2 DEF Heard
  <2>5. QED
    BY <2>3, <2>4
<1>6. ASSUME NEW k \in 1..Len(back'), isJsonRpcNotify(back'[k]), NoNotice(back', k + 1)
      PROVE  back'[k]["method"] = server'.told
  <2>1. k + 1 \in 1..Len(back) /\ back'[k] = back[k + 1] /\ k \in Nat /\ k + 1 >= 1
    BY <1>2
  <2>2. NoNotice(back, k + 1 + 1)
    BY <1>4, <1>6, <2>1
  <2>3. back[k + 1]["method"] = server.told
    BY <1>6, <2>1, <2>2 DEF Heard
  <2>4. QED
    BY <1>1, <2>1, <2>3
<1>7. QED
  BY <1>5, <1>6 DEF Heard

(* A message behind the others that is no notification changes nothing.    *)
LEMMA AnswerHears ==
    ASSUME RpcInv, Heard, NEW e \in Answers, back' = Append(back, e),
           status' = status, server'.told = server.told
    PROVE  Heard'
<1>1. /\ Len(back) \in Nat /\ Len(back') = Len(back) + 1 /\ back'[Len(back) + 1] = e
      /\ \A k \in 1..Len(back) : back'[k] = back[k]
  <2>1. back \in Seq(Answers \cup Notices) /\ e \in Answers \cup Notices
    BY InvFacts DEF ClientTypes
  <2>2. Len(back) \in Nat
    BY <2>1
  <2>3. QED
    BY <2>1, <2>2, PushFacts
<1>2. ~isJsonRpcNotify(back'[Len(back) + 1])
  BY <1>1, AnswerFacts
<1>3. ASSUME NEW k \in Nat, k >= 1, NoNotice(back', k) PROVE NoNotice(back, k)
  <2>1. ASSUME NEW j \in k..Len(back) PROVE ~isJsonRpcNotify(back[j])
    <3>1. j \in k..Len(back') /\ j \in 1..Len(back)
      BY <1>1, <1>3
    <3>2. QED
      BY <1>1, <1>3, <3>1 DEF NoNotice
  <2>2. QED
    BY <2>1 DEF NoNotice
<1>4. NoNotice(back', 1) => status' = server'.told
  BY <1>3 DEF Heard
<1>5. ASSUME NEW k \in 1..Len(back'), isJsonRpcNotify(back'[k]), NoNotice(back', k + 1)
      PROVE  back'[k]["method"] = server'.told
  <2>1. k \in 1..Len(back) /\ k + 1 \in Nat /\ k + 1 >= 1
    BY <1>1, <1>2, <1>5
  <2>2. NoNotice(back, k + 1) /\ back'[k] = back[k]
    BY <1>1, <1>3, <1>5, <2>1
  <2>3. QED
    BY <1>5, <2>1, <2>2 DEF Heard
<1>6. QED
  BY <1>4, <1>5 DEF Heard

LEMMA ServeHears == ASSUME RpcInv, Heard, Serve PROVE Heard'
<1> DEFINE msg == Head(net)
           r == ParseRequest(msg)
<1>1. msg \in Asks /\ status' = status /\ server \in Server
  BY InvFacts, TailKeeps DEF Serve, ClientTypes, clientVars
<1>2. is_request(msg) /\ get_id(msg) \in Ids /\ r.id = get_id(msg)
  BY <1>1, AskFacts
<1>3. CASE server' = [server EXCEPT !.state = "thrown"] /\ UNCHANGED back
  <2>1. server'.told = server.told
    BY <1>1, <1>3 DEF Server
  <2>2. QED
    BY <1>1, <1>3, <2>1 DEF Heard, NoNotice
<1>4. CASE ExecuteRequest(r)
  <2> HIDE DEF r, msg
  <2>1. PICK response \in Responses(r) : back' = Append(back, SerializeResponse(response))
    BY <1>4 DEF ExecuteRequest
  <2>2. PICK e \in ErrorCodes \cup {Null} : response = [id |-> get_id(msg), result |-> Null, error |-> e]
    BY <1>2, <2>1 DEF Responses, ErrorCodes
  <2> DEFINE answer == SerializeResponse(response)
  <2>3. answer \in Answers
    BY <1>2, <2>2, NewAnswer
  <2>4. server'.told = server.told
    BY <1>1, <1>4 DEF ExecuteRequest, Server
  <2>5. back' = Append(back, answer)
    BY <2>1
  <2> HIDE DEF answer
  <2>6. QED
    BY <1>1, <2>3, <2>4, <2>5, AnswerHears
<1>5. QED
  BY <1>2, <1>3, <1>4 DEF Serve

LEMMA NotifyHears ==
    ASSUME RpcInv, Heard, NEW n \in Notifications, Notify(n)
    PROVE  Heard'
<1> DEFINE msg == SerializeNotify([method |-> n, params |-> Null])
<1>1. /\ back' = Append(back, msg) /\ server'.told = n
      /\ back \in Seq(Answers \cup Notices)
  BY InvFacts DEF Notify, ClientTypes
<1>2. msg \in Notices /\ msg["method"] = n
  <2>1. msg = [method |-> n]
    BY DEF SerializeNotify
  <2>2. msg["method"] = n
    BY <2>1
  <2>3. msg \in Notices
    BY DEF Notices
  <2>4. QED
    BY <2>2, <2>3
<1>3. isJsonRpcNotify(msg)
  BY <1>2, NoticeFacts
<1> HIDE DEF msg
<1>4. Len(back) \in Nat /\ Len(back') = Len(back) + 1 /\ back'[Len(back) + 1] = msg
  <2>1. Len(back) \in Nat /\ msg \in Answers \cup Notices
    BY <1>1, <1>2
  <2>2. QED
    BY <1>1, <2>1, PushFacts
<1>5. ~NoNotice(back', 1)
  <2>1. Len(back) + 1 \in 1..Len(back')
    BY <1>4
  <2>2. QED
    BY <1>3, <1>4, <2>1 DEF NoNotice
<1>6. ASSUME NEW k \in 1..Len(back'), NoNotice(back', k + 1)
      PROVE  back'[k]["method"] = server'.told
  <2>1. k = Len(back) + 1
    <3>1. SUFFICES ASSUME k # Len(back) + 1 PROVE FALSE
      OBVIOUS
    <3>2. Len(back) + 1 \in k + 1..Len(back')
      BY <1>4, <3>1
    <3>3. QED
      BY <1>3, <1>4, <1>6, <3>2 DEF NoNotice
  <2>2. QED
    BY <1>1, <1>2, <1>4, <2>1
<1>7. QED
  BY <1>5, <1>6 DEF Heard

(* When nothing is on its way the status is what the server said last.     *)
THEOREM StatusAlwaysTold == Spec => []StatusTold
<1>1. Init => Heard
  <2>1. Init => status = server.told /\ back = <<>> /\ Len(<<>>) = 0
    BY DEF Init
  <2>2. QED
    BY <2>1 DEF Heard
<1>2. RpcInv /\ Heard /\ [Next]_vars => Heard'
  <2>1. SUFFICES ASSUME RpcInv, Heard, [Next]_vars PROVE Heard'
    OBVIOUS
  <2>2. CASE Deliver
    BY <2>1, <2>2, DeliverHears
  <2>3. CASE Serve
    BY <2>1, <2>3, ServeHears
  <2>4. CASE ConnectedDone \/ Paused \/ Running \/ Exit
    BY <2>1, <2>4, NotifyHears DEF ConnectedDone, Paused, Running, Exit, Notifications
  <2>5. CASE \/ \E use \in Uses : Send(use[1], use[2])
             \/ End \/ Connect \/ Flush \/ Fail \/ Close \/ Drop \/ UNCHANGED vars
    <3>1. server \in Server
      BY <2>1, InvFacts DEF ClientTypes
    <3>2. status' = status /\ back' = back /\ server'.told = server.told
      BY <2>5, <3>1 DEF Send, End, Connect, Flush, Fail, Close, Drop, Server, vars,
                        clientVars, serverVars
    <3>3. QED
      BY <2>1, <3>2 DEF Heard, NoNotice
  <2>6. QED
    BY <2>1, <2>2, <2>3, <2>4, <2>5 DEF Next
<1>3. RpcInv /\ Heard => StatusTold
  <2>1. SUFFICES ASSUME Heard, back = <<>> PROVE status = server.told
    BY DEF StatusTold
  <2>2. Len(back) = 0
    BY <2>1
  <2>3. QED
    BY <2>1, <2>2 DEF Heard, NoNotice
<1>4. QED
  BY <1>1, <1>2, <1>3, RpcInvariant, PTL DEF Spec
=============================================================================
