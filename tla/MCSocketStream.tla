--------------------------- MODULE MCSocketStream ---------------------------
(* SocketStream on small sets of clients and requests.                     *)
EXTENDS SocketStream, TLC
=============================================================================
