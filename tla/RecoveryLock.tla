---------------------------- MODULE RecoveryLock ----------------------------
(***************************************************************************)
(* The cross-process lock of orphan recovery: acquire_recovery_lock opens  *)
(* or creates <data_dir>/.recovery.lock, takes flock on the open file and  *)
(* then checks that the path still names the file it locked, because an    *)
(* operator may have removed the path in between.                          *)
(*                                                                         *)
(* The operator follows the runbook of the startup warning: look for a     *)
(* holder with lsof, and rm the file when there is none.  With             *)
(* Atomic = TRUE nobody holds the flock of the file at the rm either.      *)
(***************************************************************************)
EXTENDS FiniteSets

CONSTANTS
    Proc,   \* processes that run recovery: gateways and `reprocess` commands
    Inode,  \* inode numbers; a number may be reused once nothing refers to it
    Atomic, \* whether what lsof showed still holds at the rm
    None

ASSUME LockAssumption ==
    /\ Atomic \in BOOLEAN
    /\ None \notin Proc \cup Inode

VARIABLES
    path,   \* inode that .recovery.lock names, None when it does not exist
    fd,     \* inode each process has open
    flock,  \* process that holds the flock of each inode
    pc,     \* step of acquire_recovery_lock each process is at
    late,   \* processes whose 30 s deadline has passed
    rm      \* the operator saw no holder and is about to rm

vars == << path, fd, flock, pc, late, rm >>

Step == {"idle", "open", "create", "lock", "stat", "hold"}
Trying == {"open", "create", "lock", "stat"}

Init ==
    /\ path \in Inode \cup {None}
    /\ fd = [p \in Proc |-> None]
    /\ flock = [i \in Inode |-> None]
    /\ pc = [p \in Proc |-> "idle"]
    /\ late = {}
    /\ rm = FALSE

Goto(p, step) == pc' = [pc EXCEPT ![p] = step]

\* Mutant of Close: only the file descriptor is forgotten.
CloseOnly(p) ==
    /\ fd' = [fd EXCEPT ![p] = None]
    /\ UNCHANGED flock

\* The file is unlocked, if it was locked, and closed.
Close(p) ==
    /\ fd' = [fd EXCEPT ![p] = None]
    /\ flock' = [i \in Inode |-> IF flock[i] = p THEN None ELSE flock[i]]

\* acquire_recovery_lock returns, or recovery ends.
Leave(p) ==
    /\ Close(p)
    /\ Goto(p, "idle")
    /\ late' = late \ {p}

\* Mutant of Again: the deadline is not looked at.
AlwaysAgain(p) ==
    /\ Close(p)
    /\ Goto(p, "open")
    /\ UNCHANGED late

\* Drop the file, and sleep and start over unless the deadline has passed.
Again(p) ==
    IF p \in late
    THEN Leave(p)
    ELSE Close(p) /\ Goto(p, "open") /\ UNCHANGED late

-----------------------------------------------------------------------------
(* acquire_recovery_lock, one system call at a time.                       *)

Begin(p) ==
    /\ pc[p] = "idle"
    /\ Goto(p, "open")
    /\ UNCHANGED << path, fd, flock, late, rm >>

\* open without O_CREAT.
Open(p) ==
    /\ pc[p] = "open"
    /\ fd' = [fd EXCEPT ![p] = path]
    /\ Goto(p, IF path = None THEN "create" ELSE "lock")
    /\ UNCHANGED << path, flock, late, rm >>

Unused(i) == path # i /\ \A p \in Proc : fd[p] # i

\* open with O_CREAT and O_EXCL.
CreateNew(p) ==
    /\ pc[p] = "create"
    /\ path = None
    /\ \E i \in Inode : /\ Unused(i)
                        /\ path' = i
                        /\ fd' = [fd EXCEPT ![p] = i]
    /\ Goto(p, "lock")
    /\ UNCHANGED << flock, late, rm >>

AlreadyExists(p) ==
    /\ pc[p] = "create"
    /\ path # None
    /\ Again(p)
    /\ UNCHANGED << path, rm >>

\* Any other error of the two opens is returned.
OpenFails(p) ==
    /\ pc[p] \in {"open", "create"}
    /\ Leave(p)
    /\ UNCHANGED << path, rm >>

\* try_lock_exclusive, which does not wait.
TryLock(p) ==
    /\ pc[p] = "lock"
    /\ flock[fd[p]] = None
    /\ flock' = [flock EXCEPT ![fd[p]] = p]
    /\ Goto(p, "stat")
    /\ UNCHANGED << path, fd, late, rm >>

\* Held by another process, or the call fails.
TryLockFails(p) ==
    /\ pc[p] = "lock"
    /\ Again(p)
    /\ UNCHANGED << path, rm >>

\* Mutant of SameInode: the check is left out.
AnyInode(p) == TRUE

SameInode(p) == path = fd[p]

\* The path names the locked file: the guard is handed out.
Acquired(p) ==
    /\ pc[p] = "stat"
    /\ SameInode(p)
    /\ Goto(p, "hold")
    /\ late' = late \ {p}
    /\ UNCHANGED << path, fd, flock, rm >>

\* The path names another file or none, or fstat or stat fails.
StatFails(p) ==
    /\ pc[p] = "stat"
    /\ Again(p)
    /\ UNCHANGED << path, rm >>

\* RecoveryLockGuard is dropped when recovery ends.
Release(p) ==
    /\ pc[p] = "hold"
    /\ Leave(p)
    /\ UNCHANGED << path, rm >>

-----------------------------------------------------------------------------
(* The clock, the kernel and the operator.                                 *)

Deadline(p) ==
    /\ pc[p] \in Trying
    /\ p \notin late
    /\ late' = late \cup {p}
    /\ UNCHANGED << path, fd, flock, pc, rm >>

\* The process dies anywhere; the kernel closes its file.
Die(p) ==
    /\ pc[p] # "idle"
    /\ Leave(p)
    /\ UNCHANGED << path, rm >>

NoHolder == path # None /\ flock[path] = None

\* lsof shows no holder.
Look ==
    /\ NoHolder
    /\ ~rm /\ rm' = TRUE
    /\ UNCHANGED << path, fd, flock, pc, late >>

\* rm, after the look; with Atomic nobody has locked the file since.
Remove ==
    /\ rm /\ path # None
    /\ Atomic => NoHolder
    /\ path' = None /\ rm' = FALSE
    /\ UNCHANGED << fd, flock, pc, late >>

-----------------------------------------------------------------------------
Acquire(p) ==
    \/ Open(p)
    \/ CreateNew(p) \/ AlreadyExists(p) \/ OpenFails(p)
    \/ TryLock(p) \/ TryLockFails(p)
    \/ Acquired(p) \/ StatFails(p)

Next ==
    \/ \E p \in Proc : Begin(p) \/ Acquire(p) \/ Deadline(p) \/ Release(p) \/ Die(p)
    \/ Look \/ Remove

Spec == Init /\ [][Next]_vars

\* acquire_recovery_lock is a synchronous loop, and time passes.
FairSpec ==
    /\ Spec
    /\ \A p \in Proc : WF_vars(Acquire(p)) /\ WF_vars(Deadline(p))
-----------------------------------------------------------------------------
(* Properties.                                                             *)

\* Types; a flock belongs to the process that has the file open and is past
\* try_lock_exclusive, and to no process that gave up or died.
TypeOK ==
    /\ path \in Inode \cup {None}
    /\ fd \in [Proc -> Inode \cup {None}]
    /\ flock \in [Inode -> Proc \cup {None}]
    /\ pc \in [Proc -> Step]
    /\ late \subseteq Proc
    /\ rm \in BOOLEAN
    /\ \A i \in Inode : flock[i] # None =>
            fd[flock[i]] = i /\ pc[flock[i]] \in {"stat", "hold"}

\* Two recovery runs are never in progress at once, although the lock file
\* may be removed and created again while other processes are between their
\* open and their flock.  ("If the operator follows the runbook ... no race
\* occurs.")
MutualExclusion ==
    \A p, q \in Proc : pc[p] = "hold" /\ pc[q] = "hold" => p = q

\* While a recovery runs, the path names the file it has locked: lsof on the
\* path, which the runbook relies on, shows the holder.
HolderIsVisible ==
    \A p \in Proc : pc[p] = "hold" => path = fd[p] /\ flock[path] = p

\* acquire_recovery_lock returns, with the lock or without it, however long
\* the lock is held and however often the file is replaced.
AcquireEnds ==
    \A p \in Proc : pc[p] \in Trying ~> pc[p] \in {"hold", "idle"}
=============================================================================
