--------------------------- MODULE MCRecoveryLock ---------------------------
(***************************************************************************)
(* TLC instance of RecoveryLock: three processes, and as many inodes as    *)
(* the processes and the path can refer to at once.                        *)
(***************************************************************************)
EXTENDS RecoveryLock

CONSTANTS p1, p2, p3, i1, i2, i3, i4

MCProc == {p1, p2, p3}
MCInode == {i1, i2, i3, i4}
=============================================================================
