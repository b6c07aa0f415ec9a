---------------------------- MODULE MCLrdbServer ----------------------------
(***************************************************************************)
(* Instances of LrdbServer for TLC.                                        *)
(***************************************************************************)
EXTENDS LrdbServer, TLC

Symmetry == Permutations(Clients) \cup Permutations(LuaStates)
=============================================================================
