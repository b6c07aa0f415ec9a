---------------------------- MODULE MCRpcClient -----------------------------
(* RpcClient with one call of each kind that the server treats differently. *)
EXTENDS RpcClient

SomeUses == {<<"step", Null>>, <<"eval", "params">>, <<"get_global", Null>>}
=============================================================================
