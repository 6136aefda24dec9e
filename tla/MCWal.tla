------------------------------- MODULE MCWal -------------------------------
(* TLC instance of Wal: two connections, two exchanges, and process runs   *)
(* that may or may not have the same process id.                           *)
EXTENDS Wal, TLC

CONSTANTS c1, c2, x1, x2, p1, p2

MCConn == {c1, c2}
MCExchange == {x1, x2}
MCPid == {p1, p2}

\* No property compares members of these sets, and no run checks liveness.
MCSymmetry ==
    Permutations(MCConn) \cup Permutations(MCExchange) \cup Permutations(MCPid)
=============================================================================
