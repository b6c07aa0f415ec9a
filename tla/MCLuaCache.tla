----------------------------- MODULE MCLuaCache -----------------------------
(* LuaCache on a small game: every start, crash and update of it.          *)
EXTENDS LuaCache, TLC

CacheSymmetry == Permutations(Chunks) \cup Permutations(Versions)
=============================================================================
