------------------------- MODULE RecoveryLockProofs -------------------------
(***************************************************************************)
(* Mutual exclusion of RecoveryLock for any number of processes and        *)
(* inodes, when the operator removes the lock file only while nobody holds *)
(* it (Atomic).                                                            *)
(*                                                                         *)
(* MutualExclusion follows from HolderIsVisible: the path has one value    *)
(* and an inode has one holder.  HolderIsVisible is kept by Acquired       *)
(* because the flock of a process past try_lock_exclusive is its own       *)
(* (Locked), and by the operator because that flock is what he looks for.  *)
(***************************************************************************)
EXTENDS RecoveryLock, TLAPS

\* A process past the flock has a file open and holds its flock.
Locked ==
    \A p \in Proc : pc[p] \in {"stat", "hold"} => fd[p] \in Inode /\ flock[fd[p]] = p

\* A process about to lock has a file open.
Opened == \A p \in Proc : pc[p] = "lock" => fd[p] \in Inode

IInv == TypeOK /\ Locked /\ Opened /\ HolderIsVisible

-----------------------------------------------------------------------------

\* Every way to give up or finish, with or without another try, leaves the
\* invariant intact: only locks of the process itself go.
LEMMA CloseInv ==
    ASSUME IInv, NEW p \in Proc, Close(p),
           NEW s \in {"idle", "open"}, Goto(p, s),
           late' \subseteq Proc, UNCHANGED << path, rm >>
    PROVE  IInv'
<1> USE LockAssumption DEF IInv, Close, Goto
<1>1. TypeOK'
  BY DEF TypeOK, Step
<1>2. Locked'
  BY DEF TypeOK, Locked
<1>3. Opened'
  BY DEF TypeOK, Opened
<1>4. HolderIsVisible'
  BY DEF TypeOK, HolderIsVisible, Locked
<1>5. QED
  BY <1>1, <1>2, <1>3, <1>4

LEMMA LeaveInv ==
    ASSUME IInv, NEW p \in Proc, Leave(p), UNCHANGED << path, rm >>
    PROVE  IInv'
<1>1. late' \subseteq Proc
  BY DEF IInv, TypeOK, Leave
<1>2. QED
  BY <1>1, CloseInv DEF Leave

LEMMA AgainInv ==
    ASSUME IInv, NEW p \in Proc, Again(p), UNCHANGED << path, rm >>
    PROVE  IInv'
<1>1. CASE p \in late
  BY <1>1, LeaveInv DEF Again
<1>2. CASE p \notin late
  <2>1. late' \subseteq Proc
    BY <1>2 DEF IInv, TypeOK, Again
  <2>2. QED
    BY <1>2, <2>1, CloseInv DEF Again
<1>3. QED
  BY <1>1, <1>2

\* The initial states satisfy the invariant.
LEMMA InitInv == Init => IInv
<1> USE LockAssumption
<1> SUFFICES ASSUME Init PROVE IInv
  OBVIOUS
<1>1. TypeOK
  BY DEF Init, TypeOK, Step
<1>2. Locked /\ Opened /\ HolderIsVisible
  BY DEF Init, Locked, Opened, HolderIsVisible
<1>3. QED
  BY <1>1, <1>2 DEF IInv

\* acquire_recovery_lock keeps the invariant.
LEMMA AcquireInv ==
    ASSUME IInv, NEW p \in Proc, Acquire(p)
    PROVE  IInv'
<1> USE LockAssumption DEF Goto
<1>1. CASE Open(p)
  BY <1>1 DEF Open, IInv, TypeOK, Step, Locked, Opened, HolderIsVisible
<1>2. CASE CreateNew(p)
  <2>1. PICK i \in Inode : Unused(i) /\ path' = i /\ fd' = [fd EXCEPT ![p] = i]
    BY <1>2 DEF CreateNew
  <2>2. \A q \in Proc : pc[q] # "hold"
    BY <1>2 DEF CreateNew, IInv, Locked, HolderIsVisible
  <2>3. TypeOK'
    BY <1>2, <2>1 DEF CreateNew, IInv, TypeOK, Step, Unused
  <2>4. Locked' /\ Opened'
    BY <1>2, <2>1 DEF CreateNew, IInv, TypeOK, Locked, Opened
  <2>5. HolderIsVisible'
    BY <1>2, <2>2 DEF CreateNew, IInv, TypeOK, HolderIsVisible
  <2>6. QED
    BY <2>3, <2>4, <2>5 DEF IInv
<1>3. CASE AlreadyExists(p)
  BY <1>3, AgainInv DEF AlreadyExists
<1>4. CASE OpenFails(p)
  BY <1>4, LeaveInv DEF OpenFails
<1>5. CASE TryLock(p)
  <2>1. fd[p] \in Inode
    BY <1>5 DEF TryLock, IInv, Opened
  <2>2. TypeOK'
    BY <1>5, <2>1 DEF TryLock, IInv, TypeOK, Step
  <2>3. Locked' /\ Opened'
    BY <1>5, <2>1 DEF TryLock, IInv, TypeOK, Locked, Opened
  <2>4. HolderIsVisible'
    BY <1>5, <2>1 DEF TryLock, IInv, TypeOK, Locked, HolderIsVisible
  <2>5. QED
    BY <2>2, <2>3, <2>4 DEF IInv
<1>6. CASE TryLockFails(p)
  BY <1>6, AgainInv DEF TryLockFails
<1>7. CASE Acquired(p)
  BY <1>7 DEF Acquired, SameInode, IInv, TypeOK, Step, Locked, Opened, HolderIsVisible
<1>8. CASE StatFails(p)
  BY <1>8, AgainInv DEF StatFails
<1>9. QED
  BY <1>1, <1>2, <1>3, <1>4, <1>5, <1>6, <1>7, <1>8 DEF Acquire

\* So does every other step, the operator's removal included.
LEMMA StepInv ==
    ASSUME Atomic PROVE IInv /\ [Next]_vars => IInv'
<1> USE LockAssumption DEF Goto
<1> SUFFICES ASSUME IInv, [Next]_vars PROVE IInv'
  OBVIOUS
<1>1. ASSUME NEW p \in Proc, Begin(p) PROVE IInv'
  BY <1>1 DEF Begin, IInv, TypeOK, Step, Locked, Opened, HolderIsVisible
<1>2. ASSUME NEW p \in Proc, Deadline(p) PROVE IInv'
  BY <1>2 DEF Deadline, IInv, TypeOK, Locked, Opened, HolderIsVisible
<1>3. ASSUME NEW p \in Proc, Release(p) \/ Die(p) PROVE IInv'
  BY <1>3, LeaveInv DEF Release, Die
<1>4. CASE Remove
  <2>1. \A p \in Proc : pc[p] # "hold"
    BY <1>4 DEF Remove, NoHolder, IInv, HolderIsVisible
  <2>2. QED
    BY <1>4, <2>1 DEF Remove, IInv, TypeOK, Locked, Opened, HolderIsVisible
<1>5. CASE UNCHANGED vars
  BY <1>5 DEF vars, IInv, TypeOK, Locked, Opened, HolderIsVisible
<1>6. CASE Look
  BY <1>6 DEF Look, IInv, TypeOK, Locked, Opened, HolderIsVisible
<1>7. QED
  BY <1>1, <1>2, <1>3, <1>4, <1>5, <1>6, AcquireInv DEF Next

-----------------------------------------------------------------------------

\* Type correctness, with the discipline of flock ownership, whenever
\* what the operator saw still holds at the rm.
THEOREM TypeCorrect == ASSUME Atomic PROVE Spec => []TypeOK
<1>1. IInv => TypeOK
  BY DEF IInv
<1>2. QED
  BY InitInv, StepInv, <1>1, PTL DEF Spec

\* While a recovery runs, the path names the file it has locked.
THEOREM VisibleHolder == ASSUME Atomic PROVE Spec => []HolderIsVisible
<1>1. IInv => HolderIsVisible
  BY DEF IInv
<1>2. QED
  BY InitInv, StepInv, <1>1, PTL DEF Spec

\* Two recovery runs are never in progress at once.
THEOREM Exclusion == ASSUME Atomic PROVE Spec => []MutualExclusion
<1>1. IInv => MutualExclusion
  BY DEF IInv, HolderIsVisible, MutualExclusion
<1>2. QED
  BY InitInv, StepInv, <1>1, PTL DEF Spec
=============================================================================
