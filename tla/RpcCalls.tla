------------------------------ MODULE RpcCalls ------------------------------
(***************************************************************************)
(* What a user of the Node client is promised of the calls: each call is   *)
(* executed at most once and in the order of the calls, its promise is     *)
(* settled at most once, and settled by an answer only after the execution *)
(* that the answer reports.                                                *)
(***************************************************************************)
EXTENDS Naturals

CONSTANT Calls      \* the numbers of the calls
VARIABLES
    promise,        \* what has become of each call's promise
    executed        \* the calls the server has executed

callVars == <<promise, executed>>

Outcomes == {"unsent", "pending", "resolved", "rejected", "failed", "refused"}

CallsInit ==
    /\ promise = [c \in Calls |-> "unsent"]
    /\ executed = {}

(* A call is sent, or refused at once.                                     *)
Ask(c) ==
    /\ promise[c] = "unsent"
    /\ \E out \in {"pending", "refused"} : promise' = [promise EXCEPT ![c] = out]
    /\ UNCHANGED executed

(* Also of a call that was refused, or has failed meanwhile.               *)
Execute(c) ==
    /\ promise[c] \notin {"unsent", "resolved", "rejected"}
    /\ \A d \in executed : d < c
    /\ executed' = executed \cup {c}
    /\ UNCHANGED promise

Settle(c) ==
    /\ promise[c] = "pending" /\ c \in executed
    /\ \E out \in {"resolved", "rejected"} : promise' = [promise EXCEPT ![c] = out]
    /\ UNCHANGED executed

(* The connection reports an error: some of the calls fail.                *)
Break ==
    /\ \E S \in SUBSET {c \in Calls : promise[c] = "pending"} :
         promise' = [c \in Calls |-> IF c \in S THEN "failed" ELSE promise[c]]
    /\ UNCHANGED executed

CallsNext == Break \/ \E c \in Calls : Ask(c) \/ Execute(c) \/ Settle(c)
CallsSpec == CallsInit /\ [][CallsNext]_callVars
=============================================================================
