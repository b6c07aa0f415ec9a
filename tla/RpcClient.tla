----------------------------- MODULE RpcClient ------------------------------
(***************************************************************************)
(* The Node client (Client.ts) over its two adapters, and the server's     *)
(* answers (basic_server.hpp).                                             *)
(*                                                                         *)
(* A call writes a request and waits, with a listener on the adapter's     *)
(* onMessage and one on its onError, for the answer with its id.  The      *)
(* server executes requests in order and sends notifications in between.   *)
(***************************************************************************)
EXTENDS Naturals, Sequences

CONSTANTS
    Null, Values,
    Uses,        \* the calls users make, of ClientCalls below
    MaxRequests, \* bound: the calls made
    HighWater    \* messages in the buffer at which write() returns false

(* DebugRequest: the methods, by what their type says of parameters.       *)
Plain == {"step", "step_in", "step_out", "continue", "pause", "get_breakpoints",
          "get_stacktrace"}
WithParams == {"add_breakpoint", "clear_breakpoints", "get_local_variable",
               "get_upvalues", "eval"}
MayHaveParams == {"get_global"}
Methods == Plain \cup WithParams \cup MayHaveParams
ClientCalls == (Plain \X {Null}) \cup (WithParams \X Values)
                 \cup (MayHaveParams \X (Values \cup {Null}))

(* DebuggerNotify.                                                         *)
Notifications == {"connected", "paused", "running", "exit"}

Ids == 0..MaxRequests - 1
INSTANCE JsonRpc WITH Strings <- Methods \cup Notifications

ASSUME RpcAssumption ==
    /\ MaxRequests \in Nat /\ HighWater \in Nat
    /\ Null \notin Methods \cup Notifications /\ Null \notin Values /\ Null \notin Nat
    /\ Uses \subseteq ClientCalls

VARIABLES
    adapter,   \* "tcp" (TcpAdapter) or "child" (ChildProcessAdapter)
    link,      \* the client's end of the connection
    seqId,     \* seqId of Client
    promise,   \* what has become of the promise of each call
    onMessage, \* the listeners of calls on the adapter's onMessage
    onError,   \* and on its onError
    status,    \* currentStatus_
    out,       \* requests in the buffer of the client's socket
    net,       \* requests on their way
    back,      \* messages of the server on their way
    server,    \* the server's session
    executed   \* the ids of the requests executed, in order (history)

clientVars == <<seqId, promise, onMessage, onError, status>>
serverVars == <<server, executed>>
vars == <<adapter, link, clientVars, out, net, back, serverVars>>

Outcomes == {"unsent", "pending", "resolved", "rejected", "failed", "refused"}
Server ==
    [state : {"up", "thrown", "closed"},      \* thrown: by an exception, out of the handler
     told : Notifications \cup {Null},        \* the last notification
     resuming : BOOLEAN]                      \* a request has ended the pause

Init ==
    /\ \/ adapter = "tcp" /\ link = "connecting"
       \/ adapter = "child" /\ link = "open"
    /\ seqId = 0
    /\ promise = [i \in Ids |-> "unsent"]
    /\ onMessage = <<>> /\ onError = <<>>
    /\ status = Null
    /\ out = <<>> /\ net = <<>> /\ back = <<>>
    /\ server = [state |-> "up", told |-> Null, resuming |-> FALSE]
    /\ executed = <<>>

-----------------------------------------------------------------------------
(* TypedEventEmitter.  Only listeners that are called for may leave.       *)

On(listeners, id) == Append(listeners, id)

IndexOf(listeners, id) ==
    CHOOSE k \in DOMAIN listeners : listeners[k] = id /\ \A j \in 1..k - 1 : listeners[j] # id

(* off(): indexOf and splice.                                              *)
Off(listeners, id) ==
    LET k == IndexOf(listeners, id)
    IN  IF \E j \in DOMAIN listeners : listeners[j] = id
          THEN [j \in 1..Len(listeners) - 1 |-> IF j < k THEN listeners[j] ELSE listeners[j + 1]]
          ELSE listeners

(* emit() maps over the live array: a listener that removes itself makes   *)
(* map pass over the one behind it.  When all do, as on an error, those at *)
(* the odd places are called and the others stay.                          *)
Called(listeners) == {listeners[j] : j \in {k \in DOMAIN listeners : k % 2 = 1}}
AfterError(listeners) == [j \in 1..Len(listeners) \div 2 |-> listeners[2 * j]]

-----------------------------------------------------------------------------
(* The client.                                                             *)

Writable == link \in {"connecting", "open"}

(* What send() of the adapter returns: net.Socket.write and                *)
(* ChildProcess.send return false also when they have taken the message    *)
(* but their buffer is full.                                               *)
AdapterSend == Writable /\ Len(out) + 1 < HighWater

(* Mutant of NextId: the id is the number of calls outstanding.            *)
NextIdReused == Len(onMessage)

NextId == seqId

(* step() to getGlobal(), by send().                                       *)
Send(method, params) ==
    /\ seqId < MaxRequests
    /\ LET id == NextId
       IN  /\ seqId' = seqId + 1
           /\ out' = IF Writable
                       THEN Append(out, SerializeRequest([id |-> id, method |-> method,
                                                          params |-> params]))
                       ELSE out
           /\ IF AdapterSend
                THEN /\ promise' = [promise EXCEPT ![id] = "pending"]
                     /\ onMessage' = On(onMessage, id) /\ onError' = On(onError, id)
                ELSE /\ promise' = [promise EXCEPT ![id] = "refused"]
                     /\ UNCHANGED <<onMessage, onError>>
    /\ UNCHANGED <<adapter, link, status, net, back, serverVars>>

(* onReceiveMessage of the call with that id; no other listener acts.      *)
Answered(msg) ==
    /\ promise' = [promise EXCEPT ![msg["id"]] =
                     IF Get(msg, "error") = Null THEN "resolved" ELSE "rejected"]
    /\ onMessage' = Off(onMessage, msg["id"])
    /\ onError' = Off(onError, msg["id"])

Listening(id) == \E i \in DOMAIN onMessage : onMessage[i] = id

(* Mutant of Deliver: an id that counts as false is no id.                 *)
DeliverTruthy ==
    /\ link \in {"open", "ended"} /\ back # <<>>
    /\ back' = Tail(back)
    /\ LET msg == Head(back)
       IN  IF isJsonRpcResponse(msg) /\ msg["id"] # 0 /\ Listening(msg["id"])
             THEN Answered(msg) /\ UNCHANGED status
             ELSE /\ status' = IF isJsonRpcNotify(msg) THEN msg["method"] ELSE status
                  /\ UNCHANGED <<promise, onMessage, onError>>
    /\ UNCHANGED <<adapter, link, seqId, out, net, serverVars>>

(* A message of the server: the adapter's handler emits it to the          *)
(* constructor's listener and to those of the calls.                       *)
Deliver ==
    /\ link \in {"open", "ended"} /\ back # <<>>
    /\ back' = Tail(back)
    /\ LET msg == Head(back)
       IN  IF isJsonRpcResponse(msg) /\ Listening(msg["id"])
             THEN Answered(msg) /\ UNCHANGED status
             ELSE /\ status' = IF isJsonRpcNotify(msg) THEN msg["method"] ELSE status
                  /\ UNCHANGED <<promise, onMessage, onError>>
    /\ UNCHANGED <<adapter, link, seqId, out, net, serverVars>>

(* end(): what has been written still goes out, or the child is killed.    *)
End ==
    /\ Writable
    /\ link' = "ended"
    /\ UNCHANGED <<adapter, clientVars, out, net, back, serverVars>>

-----------------------------------------------------------------------------
(* The connection.                                                         *)

Connect ==
    /\ link = "connecting"
    /\ link' = "open"
    /\ UNCHANGED <<adapter, clientVars, out, net, back, serverVars>>

Flush ==
    /\ link \in {"open", "ended"} /\ out # <<>>
    /\ net' = Append(net, Head(out)) /\ out' = Tail(out)
    /\ UNCHANGED <<adapter, link, clientVars, back, serverVars>>

(* Mutant of Fail: the listeners that are called stay with onMessage.      *)
FailHalf ==
    /\ adapter = "tcp" /\ link \in {"connecting", "open", "ended"}
    /\ link' = "failed"
    /\ promise' = [i \in Ids |-> IF i \in Called(onError) THEN "failed" ELSE promise[i]]
    /\ onError' = AfterError(onError)
    /\ out' = <<>> /\ net' \in {net, <<>>}
    /\ UNCHANGED <<adapter, seqId, status, onMessage, back, serverVars>>

(* The "error" event of the socket: refused, reset or timed out.  The      *)
(* requests on their way may be lost.  The listeners that are called leave *)
(* onMessage too, where they have the same places.  ChildProcessAdapter    *)
(* emits no errors.                                                        *)
Fail ==
    /\ adapter = "tcp" /\ link \in {"connecting", "open", "ended"}
    /\ link' = "failed"
    /\ promise' = [i \in Ids |-> IF i \in Called(onError) THEN "failed" ELSE promise[i]]
    /\ onError' = AfterError(onError) /\ onMessage' = AfterError(onMessage)
    /\ out' = <<>> /\ net' \in {net, <<>>}
    /\ UNCHANGED <<adapter, seqId, status, back, serverVars>>

(* The "close" event.  No call listens to it.                              *)
Close ==
    /\ link # "closed"
    /\ link = "failed" \/ (server.state = "closed" /\ back = <<>>)
    /\ link' = "closed"
    /\ out' = <<>>
    /\ UNCHANGED <<adapter, clientVars, net, back, serverVars>>

-----------------------------------------------------------------------------
(* The server.                                                             *)

Announced == adapter = "child" \/ server.told # Null

(* Handlers that look into the parameters before they know that there are  *)
(* any: picojson throws.                                                   *)
Throws(r) ==
    r.params = Null /\ r.method \in {"add_breakpoint", "clear_breakpoints", "eval", "get_global"}

(* The responses of a handler, or of a method that there is none for.      *)
Responses(r) ==
    IF r.method \notin Methods
      THEN {[id |-> r.id, result |-> Null, error |-> "MethodNotFound"]}
      ELSE {[id |-> r.id, result |-> Null, error |-> e] :
               e \in {Null} \cup {x \in {"InvalidParams"} : r.method \in WithParams}}

EndsPause(r) ==
    server.told = "paused" /\ r.method \in {"step", "step_in", "step_out", "continue"}

(* Mutant of ExecuteRequest: a failing handler sends no response.          *)
ExecuteRequestSilent(r) ==
    /\ \E response \in Responses(r) :
         back' = IF response.error = Null THEN Append(back, SerializeResponse(response)) ELSE back
    /\ executed' = Append(executed, r.id)
    /\ server' = [server EXCEPT !.resuming = @ \/ EndsPause(r)]

(* execute_request(): the handler of the method, which sends its response. *)
ExecuteRequest(r) ==
    /\ \E response \in Responses(r) : back' = Append(back, SerializeResponse(response))
    /\ executed' = Append(executed, r.id)
    /\ server' = [server EXCEPT !.resuming = @ \/ EndsPause(r)]

(* execute_message().                                                      *)
Serve ==
    /\ server.state = "up" /\ Announced /\ ~server.resuming /\ net # <<>>
    /\ net' = Tail(net)
    /\ LET msg == Head(net)
       IN  IF is_request(msg)
             THEN LET r == ParseRequest(msg)
                  IN  IF Throws(r)
                        THEN server' = [server EXCEPT !.state = "thrown"] /\ UNCHANGED <<back, executed>>
                        ELSE ExecuteRequest(r)
             ELSE UNCHANGED <<back, serverVars>>
    /\ UNCHANGED <<adapter, link, clientVars, out>>

(* send_notify().                                                          *)
Notify(n) ==
    /\ server.state = "up"
    /\ back' = Append(back, SerializeNotify([method |-> n, params |-> Null]))
    /\ server' = [state |-> IF n = "exit" THEN "closed" ELSE "up", told |-> n, resuming |-> FALSE]
    /\ UNCHANGED <<adapter, link, clientVars, out, net, executed>>

ConnectedDone == adapter = "tcp" /\ server.told = Null /\ link # "connecting" /\ Notify("connected")
Paused == Announced /\ server.told # "paused" /\ Notify("paused")
Running == server.resuming /\ Notify("running")
Exit == Announced /\ Notify("exit")

(* The server, or its process, ends the session without a word.            *)
Drop ==
    /\ server.state # "closed"
    /\ server' = [server EXCEPT !.state = "closed"]
    /\ UNCHANGED <<adapter, link, clientVars, out, net, back, executed>>

-----------------------------------------------------------------------------
Next ==
    \/ \E use \in Uses : Send(use[1], use[2])
    \/ Deliver \/ End \/ Connect \/ Flush \/ Fail \/ Close
    \/ Serve \/ ConnectedDone \/ Paused \/ Running \/ Exit \/ Drop

(* A connection is made or fails, the kernel carries bytes, Node runs its  *)
(* event loop, and the game keeps calling the hook or waits in a pause.    *)
Fairness ==
    /\ WF_vars(Connect) /\ WF_vars(Flush) /\ WF_vars(Deliver) /\ WF_vars(Close)
    /\ WF_vars(Serve) /\ WF_vars(ConnectedDone) /\ WF_vars(Running)

Spec == Init /\ [][Next]_vars /\ Fairness

-----------------------------------------------------------------------------
(* Properties.                                                             *)

(* Every part of the state has its type, and calls have ids in their order. *)
TypeOK ==
    /\ adapter \in {"tcp", "child"}
    /\ link \in {"connecting", "open", "ended", "failed", "closed"}
    /\ seqId \in 0..MaxRequests
    /\ promise \in [Ids -> Outcomes]
    /\ onMessage \in Seq(Ids) /\ onError \in Seq(Ids)
    /\ status \in Notifications \cup {Null}
    /\ server \in Server
    /\ executed \in Seq(Ids)
    /\ \A i \in Ids : promise[i] = "unsent" <=> i >= seqId

(* The listeners of both events are those of the pending calls, in the     *)
(* order of the calls: none is left behind by an answer or an error, and   *)
(* none is taken for another call's.                                       *)
ListenersExact ==
    /\ onMessage = onError
    /\ \A i \in Ids : promise[i] = "pending" <=> \E k \in DOMAIN onError : onError[k] = i
    /\ \A j, k \in DOMAIN onError : j < k => onError[j] < onError[k]

Asking(queue, i) == {k \in DOMAIN queue : is_request(queue[k]) /\ get_id(queue[k]) = i}
Answering(i) == {k \in DOMAIN back : isJsonRpcResponse(back[k]) /\ get_id(back[k]) = i}

(* While the connection stands, the request of a pending call or its       *)
(* answer is on its way, in a form the receiver understands.               *)
NothingVanishes ==
    link \in {"connecting", "open", "ended"} /\ server.state = "up" =>
        \A i \in Ids : promise[i] = "pending" =>
            Asking(out, i) \cup Asking(net, i) \cup Answering(i) # {}

(* When no message is on its way currentStatus is what the server said     *)
(* last, in spite of the answers in between.                               *)
StatusTold ==
    link \in {"open", "ended"} /\ back = <<>> => status = server.told

RpcCallsImplemented ==
    INSTANCE RpcCalls WITH Calls <- Ids, executed <- {executed[k] : k \in DOMAIN executed}
CallsImplemented == RpcCallsImplemented!CallsSpec

(* A pending call is settled, or the connection or the server fails.       *)
Settled ==
    \A i \in Ids : promise[i] = "pending" ~>
        (promise[i] # "pending" \/ link \notin {"connecting", "open"} \/ server.state # "up")
=============================================================================
