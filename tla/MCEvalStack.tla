---------------------------- MODULE MCEvalStack -----------------------------
(* EvalStack on a heap with a table that holds itself, an array, a         *)
(* userdata of each kind, and variables of a loop.                         *)
EXTENDS EvalStack, TLC

Heap == {"s", "self", "array", "named", "broken", "f"}
HeapType == "s" :> "string" @@ "self" :> "table" @@ "array" :> "table"
              @@ "named" :> "userdata" @@ "broken" :> "userdata" @@ "f" :> "function"
HeapFields == [v \in Heap |->
    CASE v = "self" -> <<<<"string", "self">>, <<"number", "s">>, <<"string", "named">>>>
      [] v = "array" -> <<<<"number", "named">>, <<"string", "s">>, <<"number", "self">>>>
      [] OTHER -> <<>>]
HeapMetaString == [v \in Heap |-> IF v = "broken" THEN "raises" ELSE "none"]
HeapMetaTable == [v \in Heap |-> IF v = "named" THEN "array" ELSE "none"]
ASSUME HeapAssumption == ShortChains

OfLoop == {<<>>, <<[temporary |-> TRUE, val |-> "s"], [temporary |-> FALSE, val |-> "array"],
                   [temporary |-> FALSE, val |-> "f"]>>}
=============================================================================
