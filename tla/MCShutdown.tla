----------------------------- MODULE MCShutdown -----------------------------
(* TLC instance of Shutdown: three client connections.                     *)
EXTENDS Shutdown

CONSTANTS c1, c2, c3

MCConn == {c1, c2, c3}
=============================================================================
