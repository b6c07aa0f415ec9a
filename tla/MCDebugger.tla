----------------------------- MODULE MCDebugger -----------------------------
(* Debugger on small Lua programs.                                         *)
EXTENDS Debugger, TLC

Nowhere == {}
Parts == BreakFiles \X Sources
Unconditional == {[op |-> "none", n |-> 1]}
EveryOperator == [op : Operators, n : {2}]
=============================================================================
