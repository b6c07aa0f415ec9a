---------------------------- MODULE MCStdStream -----------------------------
(* StdStream with few lines of every kind.                                 *)
EXTENDS StdStream
=============================================================================
