----------------------------- MODULE EvalStack ------------------------------
(***************************************************************************)
(* The Lua stack while requests read Lua data in a pause: eval,            *)
(* get_local_variable, get_upvalues, get_global and the conversion to JSON *)
(* (debugger.hpp, utility::to_json and class debug_info).                  *)
(*                                                                         *)
(* The functions push and pop on the one stack the hook has been given,    *)
(* LUA_MINSTACK slots, and never ask for more.  The stack is a sequence of *)
(* slots, each with what it is there for; calls are the activations of     *)
(* to_json.  What Lua code evaluates to is a choice over a fixed heap.     *)
(* The conditions of a breakpoint are evaluated on the same stack, before  *)
(* the pause.                                                              *)
(***************************************************************************)
EXTENDS Naturals, Sequences

CONSTANTS
    Values,      \* the Lua values
    Type,        \* their types
    Fields,      \* of a table: the types of its keys and its values, in the order of lua_next
    Arrays,      \* the tables of a length above 0
    MetaString,    \* what the metamethod __tostring returns: a value, "none" or "raises"
    MetaTable,     \* the same of __totable
    Lists,       \* the lists of variables that a frame or a function may have
    Frames,      \* the size of the call stack
    Depths,      \* the depths requests ask for
    MaxResults,  \* bound: the results of a chunk
    MaxFailed,   \* bound: failing evaluations in a call of the hook
    MaxCalls     \* bound: nested calls of to_json

Types == {"nil", "boolean", "number", "string", "table", "userdata",
          "lightuserdata", "thread", "function"}
KeyTypes == {"number", "string", "boolean"}
Variable == [temporary : BOOLEAN, val : Values]

ASSUME EvalAssumption ==
    /\ Type \in [Values -> Types]
    /\ Fields \in [Values -> Seq(KeyTypes \X Values)]
    /\ Arrays \subseteq Values
    /\ MetaString \in [Values -> Values \cup {"none", "raises"}]
    /\ MetaTable \in [Values -> Values \cup {"none", "raises"}]
    /\ "none" \notin Values /\ "raises" \notin Values
    /\ Values # {}
    /\ Lists \subseteq Seq(Variable)
    /\ Frames \in Nat /\ Depths \subseteq Nat
    /\ MaxResults \in Nat /\ MaxFailed \in Nat /\ MaxCalls \in Nat

VARIABLES
    lua,     \* the hook's part of the Lua stack
    calls,   \* the activations of to_json
    pc,      \* where the handler of the request is
    req,     \* its local variables
    high,    \* the highest stack the request has needed (history)
    failed   \* failed evaluations in this call of the hook (history)

vars == <<lua, calls, pc, req, high, failed>>

Tags == {"chunk", "env", "result", "error", "function", "variable", "key", "value", "meta"}
Slot == [tag : Tags, val : Values]
Anything == CHOOSE v \in Values : TRUE
Mark(tag) == [tag |-> tag, val |-> Anything]
Hold(tag, v) == [tag |-> tag, val |-> v]

Front(s) == SubSeq(s, 1, Len(s) - 1)
Top == Len(lua)
Higher(n) == IF n > high THEN n ELSE high

Request == [base : Nat, depth : Nat, next : Nat, rest : Seq(Variable)]
NoRequest == [base |-> 0, depth |-> 0, next |-> 0, rest |-> <<>>]

Activation == [idx : Nat, depth : Nat, at : {"start", "next", "value", "meta"},
               pos : Nat, top : Nat]    \* pos: fields visited; top: the stack at the call
ToJson(idx, depth, top) == [idx |-> idx, depth |-> depth, at |-> "start", pos |-> 0, top |-> top]
Current == calls[Len(calls)]
Subject == lua[Current.idx].val

Init ==
    /\ lua = <<>> /\ calls = <<>>
    /\ pc = "idle" /\ req = NoRequest
    /\ high = 0 /\ failed = 0

(* The pause and the hook end, by a request or because an error has left   *)
(* the hook, and the hook is called for another one.                       *)
NextPause ==
    /\ pc \in {"idle", "left"}
    /\ lua' = <<>> /\ calls' = <<>>
    /\ pc' = "idle" /\ req' = NoRequest
    /\ high' = 0 /\ failed' = 0

(* A frame the request names: get_call_stack() has its stack_info.         *)
HasFrame(stack_no) == stack_no < Frames

-----------------------------------------------------------------------------
(* eval.                                                                   *)

(* luaL_loadstring, of the chunk as an expression and then as it is.  The  *)
(* error of a chunk that is neither stays on the stack.  A condition is    *)
(* evaluated in frame 0 to the depth 1.                                    *)
Eval(stack_no, depth) ==
    /\ pc = "idle" /\ HasFrame(stack_no)
    /\ req' = [NoRequest EXCEPT !.base = Top, !.depth = depth + 1]
    /\ high' = Top + 1
    /\ \/ lua' = Append(lua, Mark("chunk")) /\ pc' = "env" /\ UNCHANGED failed
       \/ /\ failed < MaxFailed
          /\ lua' = Append(lua, Mark("error"))
          /\ failed' = failed + 1
          /\ UNCHANGED pc
    /\ UNCHANGED calls

(* create_eval_env(): at most the table, its metatable, the function, an   *)
(* upvalue and a copy of it are on the stack; the table is left.           *)
CreateEvalEnv ==
    /\ pc = "env"
    /\ lua' = Append(lua, Mark("env"))
    /\ high' = Higher(Top + 5)
    /\ pc' = "call"
    /\ UNCHANGED <<calls, req, failed>>

Results == UNION {[1..n -> Values] : n \in 0..MaxResults}

(* lua_setfenv and lua_pcall take the environment and the chunk.  An error *)
(* that is no string has no message: assigning the null pointer ends the   *)
(* process.                                                                *)
Call ==
    /\ pc = "call"
    /\ \/ \E vs \in Results :
            /\ lua' = SubSeq(lua, 1, Top - 2) \o [i \in 1..Len(vs) |-> Hold("result", vs[i])]
            /\ pc' = "results" /\ req' = [req EXCEPT !.next = req.base + 1]
            /\ high' = Higher(Top - 2 + Len(vs))
            /\ UNCHANGED failed
       \/ /\ failed < MaxFailed
          /\ lua' = Append(SubSeq(lua, 1, Top - 2), Mark("error"))
          /\ pc' \in {"idle", "crashed"}
          /\ failed' = failed + 1
          /\ UNCHANGED <<req, high>>
    /\ UNCHANGED calls

(* Mutant of ConvertResult: the loop goes one slot too far.                *)
ConvertResultPast ==
    /\ pc = "results" /\ calls = <<>>
    /\ IF req.next > Top + 1
         THEN /\ lua' = SubSeq(lua, 1, req.base)
              /\ pc' = "idle"
              /\ UNCHANGED <<calls, req>>
         ELSE /\ calls' = <<ToJson(req.next, req.depth, Top)>>
              /\ req' = [req EXCEPT !.next = @ + 1]
              /\ UNCHANGED <<lua, pc>>
    /\ UNCHANGED <<high, failed>>

(* The results, one after the other; then lua_settop.                      *)
ConvertResult ==
    /\ pc = "results" /\ calls = <<>>
    /\ IF req.next > Top
         THEN /\ lua' = SubSeq(lua, 1, req.base)
              /\ pc' = "idle"
              /\ UNCHANGED <<calls, req>>
         ELSE /\ calls' = <<ToJson(req.next, req.depth, Top)>>
              /\ req' = [req EXCEPT !.next = @ + 1]
              /\ UNCHANGED <<lua, pc>>
    /\ UNCHANGED <<high, failed>>

-----------------------------------------------------------------------------
(* get_local_vars(), get_upvalues() and get_global_table().                *)

GetLocalVariable(stack_no, depth, vars_) ==
    /\ pc = "idle" /\ HasFrame(stack_no)
    /\ pc' = "list"
    /\ req' = [NoRequest EXCEPT !.base = Top, !.depth = depth, !.rest = vars_]
    /\ high' = Top
    /\ UNCHANGED <<lua, calls, failed>>

(* The function whose upvalues are listed stays below them.                *)
GetUpvalues(stack_no, depth, vars_) ==
    /\ pc = "idle" /\ HasFrame(stack_no)
    /\ lua' = Append(lua, Mark("function"))
    /\ pc' = "list"
    /\ req' = [NoRequest EXCEPT !.base = Top, !.depth = depth, !.rest = vars_]
    /\ high' = Top + 1
    /\ UNCHANGED <<calls, failed>>

GetGlobal(depth) ==
    /\ pc = "idle"
    /\ \E v \in Values :
         /\ Type[v] = "table"
         /\ req' = [NoRequest EXCEPT !.base = Top, !.depth = depth + 1,
                                     !.rest = <<[temporary |-> FALSE, val |-> v]>>]
    /\ pc' = "list" /\ high' = Top
    /\ UNCHANGED <<lua, calls, failed>>

(* The next variable is pushed; a temporary, whose name begins with "(",   *)
(* is popped again.  After the last one the function goes, if any.         *)
ConvertVariable ==
    /\ pc = "list" /\ calls = <<>>
    /\ IF req.rest = <<>>
         THEN /\ lua' = IF Top > req.base THEN Front(lua) ELSE lua
              /\ pc' = "idle"
              /\ UNCHANGED <<calls, req, high>>
         ELSE /\ req' = [req EXCEPT !.rest = Tail(@)]
              /\ high' = Higher(Top + 1)
              /\ IF Head(req.rest).temporary
                   THEN UNCHANGED <<lua, calls, pc>>
                   ELSE /\ lua' = Append(lua, Hold("variable", Head(req.rest).val))
                        /\ calls' = <<ToJson(Top + 1, req.depth, Top + 1)>>
                        /\ pc' = "variable"
    /\ UNCHANGED failed

PopVariable ==
    /\ pc = "variable" /\ calls = <<>>
    /\ lua' = Front(lua)
    /\ pc' = "list"
    /\ UNCHANGED <<calls, req, high, failed>>

-----------------------------------------------------------------------------
(* to_json().                                                              *)

Converting == calls # <<>>
Starting(kind) == Converting /\ Current.at = "start" /\ Type[Subject] = kind

(* The innermost activation goes on at another place, or calls to_json     *)
(* for the value on top of the stack s.                                    *)
GoTo(at, pos) == Append(Front(calls), [Current EXCEPT !.at = at, !.pos = pos])
Nest(at, pos, s, depth) == Append(GoTo(at, pos), ToJson(Len(s), depth, Len(s)))

Plain ==
    /\ \E kind \in {"nil", "boolean", "number", "string"} : Starting(kind)
    /\ calls' = Front(calls)
    /\ UNCHANGED <<lua, pc, req, high, failed>>

(* __name, if there is one, is pushed and popped.                          *)
Name ==
    /\ calls' = Front(calls)
    /\ high' = Higher(Top + 1)
    /\ UNCHANGED <<lua, pc, req, failed>>

(* A table at depth 0, and what JSON has nothing for.                      *)
Opaque == Starting("table") /\ Current.depth = 0 /\ Name
Other ==
    /\ \/ \E kind \in {"lightuserdata", "thread", "function"} : Starting(kind)
       \/ Starting("userdata") /\ MetaString[Subject] = "none" /\ MetaTable[Subject] = "none"
    /\ Name

Open ==
    /\ Starting("table") /\ Current.depth > 0
    /\ lua' = Append(lua, Mark("key"))
    /\ calls' = GoTo("next", 0)
    /\ high' = Higher(Top + 1)
    /\ UNCHANGED <<pc, req, failed>>

(* A table with a length is an array of what is at its numbers, others are *)
(* objects of what is at their strings.                                    *)
Fits(key) == key = IF Subject \in Arrays THEN "number" ELSE "string"

(* Mutant of Inner: the depth of the call is passed on.                    *)
InnerSame(a) == a.depth

Inner(a) == a.depth - 1

(* Mutant of Next: only values that are converted are popped.              *)
NextUnpopped ==
    /\ Converting /\ Current.at = "next"
    /\ LET n == Current.pos + 1
           pair == Append(lua, Hold("value", Fields[Subject][n][2]))
       IN  IF n > Len(Fields[Subject])
             THEN /\ lua' = Front(lua) /\ calls' = Front(calls)
                  /\ UNCHANGED high
             ELSE /\ high' = Higher(Top + 1)
                  /\ lua' = pair
                  /\ IF Fits(Fields[Subject][n][1])
                       THEN Len(calls) < MaxCalls /\ calls' = Nest("value", n, pair, Inner(Current))
                       ELSE calls' = GoTo("next", n)
    /\ UNCHANGED <<pc, req, failed>>

(* lua_next: the key on top gives way to the next one and its value, or    *)
(* goes.                                                                   *)
Next_ ==
    /\ Converting /\ Current.at = "next"
    /\ LET n == Current.pos + 1
           pair == Append(lua, Hold("value", Fields[Subject][n][2]))
       IN  IF n > Len(Fields[Subject])
             THEN /\ lua' = Front(lua) /\ calls' = Front(calls)
                  /\ UNCHANGED high
             ELSE /\ high' = Higher(Top + 1)
                  /\ IF Fits(Fields[Subject][n][1])
                       THEN /\ Len(calls) < MaxCalls
                            /\ lua' = pair /\ calls' = Nest("value", n, pair, Inner(Current))
                       ELSE calls' = GoTo("next", n) /\ UNCHANGED lua
    /\ UNCHANGED <<pc, req, failed>>

PopValue ==
    /\ Converting /\ Current.at = "value"
    /\ lua' = Front(lua)
    /\ calls' = GoTo("next", Current.pos)
    /\ UNCHANGED <<pc, req, high, failed>>

(* What the first metamethod that v has of the two returns, if v is a      *)
(* userdata with one.                                                      *)
Returned(v) == IF MetaString[v] # "none" THEN MetaString[v] ELSE MetaTable[v]
MetaMethod == Returned(Subject)

(* luaL_callmeta: the object is passed on a slot above the method.  Its    *)
(* result is converted to the same depth.                                  *)
CallMeta ==
    /\ Starting("userdata") /\ MetaMethod \in Values
    /\ Len(calls) < MaxCalls
    /\ LET s == Append(lua, Hold("meta", MetaMethod))
       IN  lua' = s /\ calls' = Nest("meta", 0, s, Current.depth)
    /\ high' = Higher(Top + 2)
    /\ UNCHANGED <<pc, req, failed>>

PopMeta ==
    /\ Converting /\ Current.at = "meta"
    /\ lua' = Front(lua) /\ calls' = Front(calls)
    /\ UNCHANGED <<pc, req, high, failed>>

(* The metamethod raises an error that nobody catches: it leaves the hook, *)
(* past the pause handler.                                                 *)
Raise ==
    /\ Starting("userdata") /\ MetaMethod = "raises"
    /\ lua' = <<>> /\ calls' = <<>> /\ pc' = "left"
    /\ UNCHANGED <<req, high, failed>>

Convert == Plain \/ Opaque \/ Other \/ Open \/ Next_ \/ PopValue \/ CallMeta \/ PopMeta \/ Raise
Handle == CreateEvalEnv \/ Call \/ ConvertResult \/ ConvertVariable \/ PopVariable \/ Convert

Begin ==
    \E depth \in Depths :
        \/ \E stack_no \in 0..Frames :
             \/ Eval(stack_no, depth)
             \/ \E vs \in Lists : \/ GetLocalVariable(stack_no, depth, vs)
                                  \/ GetUpvalues(stack_no, depth, vs)
        \/ GetGlobal(depth)

Next == NextPause \/ Begin \/ Handle
Spec == Init /\ [][Next]_vars /\ WF_vars(Handle)

-----------------------------------------------------------------------------
(* Properties.                                                             *)

(* Every part of the state has its type, and each activation of to_json    *)
(* converts a value that is on the stack.                                  *)
TypeOK ==
    /\ lua \in Seq(Slot) /\ calls \in Seq(Activation)
    /\ pc \in {"idle", "env", "call", "results", "list", "variable", "left", "crashed"}
    /\ req \in Request
    /\ high \in Nat /\ failed \in 0..MaxFailed
    /\ \A k \in DOMAIN calls : calls[k].idx \in 1..Top

(* Between two requests of a pause the stack holds an error for each       *)
(* evaluation that failed, and nothing else.                               *)
Balanced ==
    pc = "idle" => /\ calls = <<>>
                   /\ Top = failed
                   /\ \A i \in DOMAIN lua : lua[i].tag = "error"

(* What a pop removes, or lua_next replaces, is what it is meant for.      *)
PopsItsOwn ==
    /\ Converting =>
         /\ Current.at = "next" => lua[Top].tag = "key"
         /\ Current.at = "value" => lua[Top].tag = "value" /\ lua[Top - 1].tag = "key"
         /\ Current.at = "meta" => lua[Top].tag = "meta"
    /\ pc = "variable" /\ ~Converting => lua[Top].tag = "variable"
    /\ pc = "list" /\ ~Converting /\ Top > req.base => lua[Top].tag = "function"
    /\ pc = "call" => lua[Top].tag = "env" /\ lua[Top - 1].tag = "chunk"

(* What a metamethod returns is no userdata with such a metamethod itself. *)
Delegates(v) == Type[v] = "userdata" /\ Returned(v) \in Values
ShortChains == \A v \in Values : Delegates(v) => ~Delegates(Returned(v))

(* The slots a request needs, above those of the failed evaluations before *)
(* it: six to compile a chunk and make its environment, or its results (or *)
(* a variable above a function) and, for each level of the depth, a key, a *)
(* value and what a metamethod returns, and two for the last call.         *)
HighBounded ==
    LET most == IF MaxResults > 2 THEN MaxResults ELSE 2
    IN  pc \notin {"left", "crashed"} =>
            \/ high <= req.base + 6
            \/ high <= req.base + most + 3 * req.depth + 2

(* Every request comes to its end.                                         *)
Answers == pc # "idle" ~> pc \in {"idle", "left", "crashed"}
=============================================================================
