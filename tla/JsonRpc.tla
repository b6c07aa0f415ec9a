------------------------------ MODULE JsonRpc -------------------------------
(***************************************************************************)
(* The messages between a client and the server, as each side writes and   *)
(* reads them: lrdb::message (message.hpp) on the server's side, JsonRpc.ts *)
(* on the Node client's.                                                   *)
(*                                                                         *)
(* A JSON object is a function from the names it has to their values.      *)
(* "jsonrpc", which nobody reads, and the text of the values are left out. *)
(***************************************************************************)
CONSTANTS
    Null,      \* the JSON value null, and the value of a name that is absent
    Strings,   \* the strings that are used as methods
    Ids,       \* the ids clients use
    Values     \* the other values: parameters and results

Has(msg, name) == name \in DOMAIN msg
Get(msg, name) == IF Has(msg, name) THEN msg[name] ELSE Null

(* The structures of message.hpp.  An error is its code, or Null for none. *)
ErrorCodes == {"ParseError", "InvalidRequest", "MethodNotFound", "InvalidParams",
               "InternalError", "ServerNotInitialized", "UnknownErrorCode"}
RequestMessage == [id : Ids \cup {Null}, method : Strings, params : Values \cup {Null}]
ResponseMessage == [id : Ids \cup {Null}, result : Values \cup {Null},
                    error : ErrorCodes \cup {Null}]
NotifyMessage == [method : Strings, params : Values \cup {Null}]

-----------------------------------------------------------------------------
(* message.hpp, reading.                                                   *)

is_notify(msg) == ~Has(msg, "id")
is_request(msg) == Has(msg, "method") /\ msg["method"] \in Strings
is_response(msg) == ~Has(msg, "method") /\ Has(msg, "id")

(* Both spellings of the parameters are read, "param" first.               *)
Params(msg) == IF Has(msg, "param") THEN msg["param"] ELSE Get(msg, "params")

ParseRequest(msg) ==
    [id |-> Get(msg, "id"), method |-> msg["method"], params |-> Params(msg)]
ParseNotify(msg) == [method |-> msg["method"], params |-> Params(msg)]

(* The error of a response is not read.                                    *)
ParseResponse(msg) ==
    [id |-> Get(msg, "id"), result |-> Get(msg, "result"), error |-> Null]

get_method(msg) == IF Get(msg, "method") \in Strings THEN msg["method"] ELSE Null
get_param(msg) == Get(msg, "params")
get_id(msg) == Get(msg, "id")

(* message.hpp, writing.                                                   *)

SerializeRequest(r) ==
    IF r.params = Null THEN [method |-> r.method, id |-> r.id]
                       ELSE [method |-> r.method, params |-> r.params, id |-> r.id]

SerializeResponse(r) ==
    IF r.error = Null THEN [result |-> r.result, id |-> r.id]
                      ELSE [result |-> r.result, error |-> r.error, id |-> r.id]

SerializeNotify(n) ==
    IF n.params = Null THEN [method |-> n.method]
                       ELSE [method |-> n.method, params |-> n.params]

-----------------------------------------------------------------------------
(* JsonRpc.ts.  "!= null" is false of null and of an absent name.          *)

isJsonRpcRequest(msg) == Get(msg, "id") # Null /\ Get(msg, "method") \in Strings
isJsonRpcResponse(msg) == Get(msg, "id") # Null /\ ~isJsonRpcRequest(msg)

(* Mutant of isJsonRpcNotify: a notification has parameters.               *)
isJsonRpcNotifyFull(msg) == Get(msg, "method") \in Strings /\ Has(msg, "params")

isJsonRpcNotify(msg) ==
    Get(msg, "method") \in Strings /\ ~isJsonRpcRequest(msg) /\ ~isJsonRpcResponse(msg)
isJsonRpcMessage(msg) ==
    isJsonRpcRequest(msg) \/ isJsonRpcResponse(msg) \/ isJsonRpcNotify(msg)
=============================================================================
