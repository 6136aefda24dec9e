-------------------------- MODULE TurnStoreProofs --------------------------
(***************************************************************************)
(* Proofs about TurnStore for any number of writers, sessions, retries and *)
(* recovery runs, on both backends.                                        *)
(*                                                                         *)
(* SlotUnique and GapFree are not inductive: a commit keeps them only      *)
(* because the writer's slot is at most MAX + 1 (Ranked) and is not taken  *)
(* (Reserved), and Reserved survives the other writers only because a live *)
(* writer holds the lock of its session (Exclusive) and an INSERT of       *)
(* recovery waits for it (Blocked).                                        *)
(***************************************************************************)
EXTENDS TurnStore, Sequences, TLAPS

\* Recovery writers use neither the lock nor the live steps.
RecoverySteps ==
    \A t \in RecoveredTurn : pc[t] \in {"idle", "ranked"} \cup Ended

\* A live writer inside its transaction holds the lock of its session.
Exclusive ==
    \A t \in LiveTurn : pc[t] \in InTransaction => holder[LockOf(t)] = t

\* Sequence numbers of a session are an initial segment of the naturals.
Segment == \A s \in Session : \E n \in Nat : SeqsOf(s) = 0 .. n

\* A slot that was read is never more than one above the committed rows.
Ranked ==
    \A t \in Turn : pc[t] \in {"ranked", "inserted"} =>
                        slot[t] >= 1 /\ slot[t] \in {n + 1 : n \in SeqsOf(SessionOf[t])}

\* An inserted, uncommitted row owns its slot.
Reserved == \A t \in LiveTurn : (pc[t] = "inserted" /\ seqOf[t] = 0) => ~Taken(t)

IInv == /\ TypeOK /\ RecoverySteps /\ Exclusive /\ Segment /\ SlotUnique
        /\ Ranked /\ Reserved /\ LiveNeverCollide

-----------------------------------------------------------------------------
(* Facts about the operators.                                              *)

\* The maximum of an initial segment of the naturals is its upper bound.
LEMMA MaxOfInterval ==
    ASSUME NEW n \in Nat, NEW S, S = 0 .. n
    PROVE  (CHOOSE k \in S : \A m \in S : m <= k) = n
<1>1. n \in S /\ \A m \in S : m <= n
  OBVIOUS
<1>2. ASSUME NEW k \in S, \A m \in S : m <= k
      PROVE  k = n
  BY <1>1, <1>2
<1> QED
  BY <1>1, <1>2

LEMMA MaxOfSegment ==
    ASSUME NEW n \in Nat, NEW s, SeqsOf(s) = 0 .. n
    PROVE  MaxSeq(s) = n
BY MaxOfInterval DEF MaxSeq

\* Every lock is in the domain of holder.
LEMMA LockTyped ==
    ASSUME TypeOK, NEW t \in Turn
    PROVE  LockOf(t) \in Lock
BY TurnAssumption DEF TypeOK, LockOf, Lock, Turn

\* Two live writers are never both inside a transaction of one session.
LEMMA OneInTransaction ==
    ASSUME IInv, NEW t \in LiveTurn, NEW u \in LiveTurn,
           SessionOf[t] = SessionOf[u],
           pc[t] \in InTransaction, pc[u] \in InTransaction
    PROVE  t = u
<1>1. LockOf(t) = LockOf(u)
  BY DEF LockOf
<1> QED
  BY <1>1 DEF IInv, Exclusive

-----------------------------------------------------------------------------
(* A step that writes no turn row keeps what is said of the rows.          *)

LEMMA RowsUnchanged ==
    ASSUME UNCHANGED seqOf
    PROVE  /\ Segment => Segment'
           /\ SlotUnique => SlotUnique'
           /\ \A s \in Session : SeqsOf(s)' = SeqsOf(s)
BY DEF Segment, SlotUnique, SeqsOf

\* A commit into a free slot extends the session's segment by one; a commit of
\* a turn that has its row already changes nothing.
LEMMA CommitKeepsRows ==
    ASSUME IInv, NEW t \in Turn, CommitRow(t),
           pc[t] \in {"ranked", "inserted"}, seqOf[t] # 0 \/ ~Taken(t)
    PROVE  /\ Segment' /\ SlotUnique'
           /\ \A s \in Session : SeqsOf(s) \subseteq SeqsOf(s)'
           /\ \A u \in Turn : seqOf[u] # 0 => seqOf'[u] = seqOf[u]
<1> USE DEF IInv
<1>1. CASE seqOf[t] # 0
  <2>1. seqOf' = seqOf
    BY <1>1 DEF CommitRow, TypeOK
  <2> QED
    BY <2>1, RowsUnchanged
<1>2. CASE seqOf[t] = 0
  <2> DEFINE s0 == SessionOf[t]
  <2>1. s0 \in Session
    BY TurnAssumption
  <2>2. PICK n \in Nat : SeqsOf(s0) = 0 .. n
    BY <2>1 DEF Segment
  <2>3. slot[t] \in 1 .. n + 1
    BY <2>2 DEF Ranked, TypeOK
  <2>4. ASSUME slot[t] \in 1 .. n PROVE FALSE
    <3>1. PICK u \in Turn : SessionOf[u] = s0 /\ seqOf[u] = slot[t]
      BY <2>2, <2>4 DEF SeqsOf
    <3>2. u # t
      BY <1>2, <2>4, <3>1
    <3> QED
      BY <1>2, <3>1, <3>2 DEF Taken
  <2>5. slot[t] = n + 1
    BY <2>3, <2>4
  <2>6. seqOf' = [seqOf EXCEPT ![t] = n + 1]
    BY <1>2, <2>5 DEF CommitRow
  <2>7. SeqsOf(s0)' = SeqsOf(s0) \cup {n + 1}
    BY <1>2, <2>6 DEF SeqsOf, TypeOK
  <2>8. SeqsOf(s0)' = 0 .. n + 1
    BY <2>2, <2>7
  <2>9. \A s \in Session \ {s0} : SeqsOf(s)' = SeqsOf(s)
    BY <2>6 DEF SeqsOf, TypeOK
  <2>10. Segment'
    BY <2>8, <2>9 DEF Segment
  <2>11. \A u \in Turn : SessionOf[u] = s0 => seqOf[u] # n + 1
    BY <2>2 DEF SeqsOf
  <2>12. SlotUnique'
    BY <2>6, <2>11 DEF SlotUnique, TypeOK
  <2> QED
    BY <1>2, <2>6, <2>7, <2>9, <2>10, <2>12 DEF TypeOK
<1> QED
  BY <1>1, <1>2
-----------------------------------------------------------------------------
(* Type correctness.                                                       *)

LEMMA TypeInit == Init => TypeOK
BY TurnAssumption DEF Init, TypeOK, Step

\* A maximum that was read is a natural number.
LEMMA MaxTyped ==
    ASSUME Segment, NEW s \in Session
    PROVE  MaxSeq(s) \in Nat /\ MaxSeq(s) \in SeqsOf(s)
           /\ \A m \in SeqsOf(s) : m <= MaxSeq(s)
<1>1. PICK n \in Nat : SeqsOf(s) = 0 .. n
  BY DEF Segment
<1> QED
  BY <1>1, MaxOfSegment

LEMMA TypeNext ==
    ASSUME IInv, NEW t \in Turn, Progress(t) \/ Crash(t)
    PROVE  TypeOK'
<1> USE TurnAssumption, LockTyped, MaxTyped
    DEF IInv, TypeOK, storeVars, Goto, Release, AttemptFails, CommitRow, Step, Turn
<1>1. CASE WriteSession(t) \/ BeginLocked(t) \/ InsertTurn(t) \/ WriteToolCalls(t)
  BY <1>1 DEF WriteSession, BeginLocked, InsertTurn, WriteToolCalls
<1>2. CASE ReadNextSeq(t) \/ RecoverReadMax(t)
  BY <1>2 DEF ReadNextSeq, RecoverReadMax
<1>3. CASE InsertCollides(t) \/ StatementFails(t) \/ RecoverFails(t) \/ Crash(t)
  BY <1>3 DEF InsertCollides, StatementFails, RecoverFails, Crash
<1>4. CASE CommitTurn(t) \/ CommitUnacknowledged(t) \/ RecoverInsert(t)
  BY <1>4 DEF CommitTurn, CommitUnacknowledged, RecoverInsert
<1> QED
  BY <1>1, <1>2, <1>3, <1>4 DEF Progress
-----------------------------------------------------------------------------
(* The inductive step, one lemma per kind of step.                         *)

\* Steps outside the transaction and the plain reads: no row changes.
LEMMA ReadStepInv ==
    ASSUME IInv, NEW t \in Turn,
           \/ WriteSession(t) \/ BeginLocked(t) \/ ReadNextSeq(t)
           \/ RecoverReadMax(t) \/ WriteToolCalls(t)
    PROVE  IInv'
<1> USE TurnAssumption DEF Turn
<1>1. TypeOK'
  BY TypeNext DEF Progress
<1>2. UNCHANGED << backend, seqOf >>
  BY DEF WriteSession, BeginLocked, ReadNextSeq, RecoverReadMax, WriteToolCalls, storeVars
<1>3. Segment' /\ SlotUnique' /\ \A s \in Session : SeqsOf(s)' = SeqsOf(s)
  BY <1>2, RowsUnchanged DEF IInv
<1> USE DEF IInv, TypeOK, Goto, InTransaction, Ended
<1>4. RecoverySteps'
  BY DEF RecoverySteps, WriteSession, BeginLocked, ReadNextSeq, RecoverReadMax, WriteToolCalls
<1>5. Exclusive'
  BY <1>2, LockTyped DEF Exclusive, LockOf, RecoverySteps, WriteSession, BeginLocked, ReadNextSeq,
     RecoverReadMax, WriteToolCalls
<1>6. Ranked'
  BY <1>3, MaxTyped DEF Ranked, WriteSession, BeginLocked, ReadNextSeq, RecoverReadMax,
     WriteToolCalls
<1>7. Reserved'
  BY <1>2 DEF Reserved, Taken, WriteSession, BeginLocked, ReadNextSeq, RecoverReadMax,
     WriteToolCalls
<1>8. LiveNeverCollide'
  <2>1. CASE ReadNextSeq(t)
    <3>1. \A u \in LiveTurn : SessionOf[u] = SessionOf[t] => seqOf[u] # slot'[t]
      BY <2>1, MaxTyped DEF ReadNextSeq, SeqsOf
    <3> QED
      BY <2>1, <3>1 DEF LiveNeverCollide, ReadNextSeq, storeVars
  <2>2. CASE ~ReadNextSeq(t)
    BY <2>2, <1>2 DEF LiveNeverCollide, RecoverySteps, WriteSession, BeginLocked,
       RecoverReadMax, WriteToolCalls
  <2> QED
    BY <2>1, <2>2
<1> QED
  BY <1>1, <1>3, <1>4, <1>5, <1>6, <1>7, <1>8

\* The INSERT succeeds only in a free slot (or does nothing).
LEMMA InsertInv ==
    ASSUME IInv, NEW t \in Turn, InsertTurn(t)
    PROVE  IInv'
<1> USE TurnAssumption DEF Turn
<1>1. TypeOK'
  BY TypeNext DEF Progress
<1>2. UNCHANGED << backend, seqOf, slot, holder >> /\ pc' = [pc EXCEPT ![t] = "inserted"]
  BY DEF InsertTurn, storeVars, Goto
<1>3. Segment' /\ SlotUnique' /\ \A s \in Session : SeqsOf(s)' = SeqsOf(s)
  BY <1>2, RowsUnchanged DEF IInv
<1> USE DEF IInv, TypeOK, InTransaction, Ended, InsertTurn
<1>4. RecoverySteps' /\ Exclusive'
  BY <1>2 DEF RecoverySteps, Exclusive, LockOf
<1>5. Ranked'
  BY <1>2, <1>3 DEF Ranked
<1>6. Reserved'
  BY <1>2 DEF Reserved, Taken
<1>7. LiveNeverCollide'
  BY <1>2 DEF LiveNeverCollide
<1> QED
  BY <1>1, <1>3, <1>4, <1>5, <1>6, <1>7

\* A failed attempt or a crash gives up the lock and the slot, and no row.
LEMMA FailInv ==
    ASSUME IInv, NEW t \in Turn,
           InsertCollides(t) \/ StatementFails(t) \/ RecoverFails(t) \/ Crash(t)
    PROVE  IInv'
<1> USE TurnAssumption DEF Turn
<1>1. TypeOK'
  BY TypeNext DEF Progress
<1>2. /\ UNCHANGED << backend, seqOf >> /\ Release(t)
      /\ \E step \in {"idle", "dead", "crashed"} : pc' = [pc EXCEPT ![t] = step]
  BY DEF InsertCollides, StatementFails, RecoverFails, Crash, storeVars, AttemptFails, Goto
<1>3. Segment' /\ SlotUnique' /\ \A s \in Session : SeqsOf(s)' = SeqsOf(s)
  BY <1>2, RowsUnchanged DEF IInv
<1> USE DEF IInv, TypeOK, InTransaction, Ended, Release
<1>4. RecoverySteps'
  BY <1>2 DEF RecoverySteps
<1>5. Exclusive'
  BY <1>2, LockTyped DEF Exclusive, LockOf
<1>6. Ranked'
  BY <1>2, <1>3 DEF Ranked
<1>7. Reserved'
  BY <1>2 DEF Reserved, Taken
<1>8. LiveNeverCollide'
  BY <1>2 DEF LiveNeverCollide
<1> QED
  BY <1>1, <1>3, <1>4, <1>5, <1>6, <1>7, <1>8

\* A commit takes a slot that is reserved, or that an INSERT of recovery finds
\* free while no live transaction holds it.
LEMMA CommitInv ==
    ASSUME IInv, NEW t \in Turn,
           CommitTurn(t) \/ CommitUnacknowledged(t) \/ RecoverInsert(t)
    PROVE  IInv'
<1> USE TurnAssumption DEF Turn
<1>1. TypeOK'
  BY TypeNext DEF Progress
<1>2. /\ backend' = backend /\ CommitRow(t) /\ Release(t)
      /\ pc[t] \in {"ranked", "inserted"}
      /\ \E step \in {"committed", "idle", "dead", "done"} :
            /\ pc' = [pc EXCEPT ![t] = step]
            /\ t \in RecoveredTurn => step = "done"
  BY DEF CommitTurn, CommitUnacknowledged, RecoverInsert, AttemptFails, Goto, IInv,
     RecoverySteps, Ended
<1>3. seqOf[t] # 0 \/ ~Taken(t)
  BY DEF CommitTurn, CommitUnacknowledged, RecoverInsert, IInv, Reserved, RecoverySteps, Ended
<1>4. /\ Segment' /\ SlotUnique'
      /\ \A s \in Session : SeqsOf(s) \subseteq SeqsOf(s)'
  BY <1>2, <1>3, CommitKeepsRows
<1> USE DEF IInv, TypeOK, InTransaction, Ended, Release
<1>5. RecoverySteps' /\ Ranked'
  BY <1>2, <1>4 DEF RecoverySteps, Ranked
<1>6. Exclusive'
  BY <1>2, LockTyped DEF Exclusive, LockOf
<1>7. /\ \A u \in Turn \ {t} : seqOf'[u] = seqOf[u] /\ slot'[u] = slot[u] /\ pc'[u] = pc[u]
      /\ seqOf[t] = 0 => seqOf'[t] = slot[t]
      /\ seqOf[t] # 0 => seqOf'[t] = seqOf[t]
  BY <1>2 DEF CommitRow
<1>8. pc'[t] \notin InTransaction
  BY <1>2
\* The new row takes no slot that another live writer has inserted.
<1>9. ASSUME NEW u \in LiveTurn, u # t, SessionOf[u] = SessionOf[t],
             pc[u] = "inserted", seqOf[u] = 0, seqOf[t] = 0
      PROVE  slot[t] # slot[u]
  <2>1. CASE t \in LiveTurn
    BY <1>9, <1>2, <2>1, OneInTransaction
  <2>2. CASE t \in RecoveredTurn
    <3>1. RecoverInsert(t)
      BY <2>2 DEF CommitTurn, CommitUnacknowledged, RecoverySteps
    <3> QED
      BY <3>1, <1>9 DEF RecoverInsert, Blocked
  <2> QED
    BY <2>1, <2>2
<1>10. Reserved'
  <2> SUFFICES ASSUME NEW u \in LiveTurn, pc'[u] = "inserted", seqOf'[u] = 0
               PROVE  ~Taken(u)'
    BY DEF Reserved
  <2>1. u # t /\ pc[u] = "inserted" /\ seqOf[u] = 0 /\ slot'[u] = slot[u]
    BY <1>7, <1>8
  <2>2. ~Taken(u)
    BY <2>1 DEF Reserved
  <2>3. SessionOf[u] = SessionOf[t] => seqOf'[t] # slot[u]
    BY <1>7, <1>9, <2>1, <2>2 DEF Taken
  <2> QED
    BY <1>7, <2>1, <2>2, <2>3 DEF Taken
<1>11. LiveNeverCollide'
  <2> SUFFICES ASSUME NEW u \in LiveTurn, NEW v \in LiveTurn, u # v,
                      pc'[u] \in {"ranked", "inserted"}, seqOf'[u] = 0,
                      SessionOf[u] = SessionOf[v]
               PROVE  seqOf'[v] # slot'[u]
    BY DEF LiveNeverCollide
  <2>1. u # t /\ pc[u] \in {"ranked", "inserted"} /\ seqOf[u] = 0 /\ slot'[u] = slot[u]
    BY <1>7, <1>8
  <2>2. seqOf[v] # slot[u]
    BY <2>1 DEF LiveNeverCollide
  <2>3. v = t => seqOf[t] # 0
    BY <1>2, <2>1, OneInTransaction
  <2> QED
    BY <1>7, <2>1, <2>2, <2>3
<1> QED
  BY <1>1, <1>4, <1>5, <1>6, <1>10, <1>11

LEMMA InitInv == Init => IInv
<1> SUFFICES ASSUME Init PROVE IInv
  OBVIOUS
<1>1. TypeOK
  BY TypeInit
<1>2. ASSUME NEW s \in Session PROVE SeqsOf(s) = 0 .. 0
  BY DEF Init, SeqsOf
<1>3. Segment
  BY <1>2 DEF Segment
<1>4. RecoverySteps /\ Exclusive /\ SlotUnique /\ Ranked /\ Reserved /\ LiveNeverCollide
  BY DEF Init, RecoverySteps, Exclusive, SlotUnique, Ranked, Reserved, LiveNeverCollide,
     InTransaction, Turn
<1> QED
  BY <1>1, <1>3, <1>4 DEF IInv

LEMMA StepInv == IInv /\ [Next]_vars => IInv'
<1> SUFFICES ASSUME IInv, [Next]_vars PROVE IInv'
  OBVIOUS
<1>1. ASSUME NEW t \in Turn, Progress(t) \/ Crash(t) PROVE IInv'
  BY <1>1, ReadStepInv, InsertInv, FailInv, CommitInv DEF Progress
<1>2. CASE UNCHANGED vars
  BY <1>2 DEF vars, IInv, TypeOK, RecoverySteps, Exclusive, Segment, SlotUnique, Ranked,
     Reserved, LiveNeverCollide, SeqsOf, Taken, LockOf
<1> QED
  BY <1>1, <1>2 DEF Next

LEMMA Invariance == Spec => []IInv
BY InitInv, StepInv, PTL DEF Spec
-----------------------------------------------------------------------------
(* The theorems.                                                           *)

\* The store and the writers stay well-typed: write_graph, its two backends
\* and replay_orphan never produce a value outside its column or its step.
THEOREM TypeCorrect == Spec => []TypeOK
<1>1. IInv => TypeOK
  BY DEF IInv
<1> QED
  BY <1>1, Invariance, PTL

\* write_turn_atomic_seq and the plain write_turn of recovery never give two
\* turns of a session the same sequence_num.
THEOREM SlotUniqueAlways == Spec => []SlotUnique
<1>1. IInv => SlotUnique
  BY DEF IInv
<1> QED
  BY <1>1, Invariance, PTL

\* The sequence numbers of a session are 1 .. n, whatever failed on the way.
THEOREM GapFreeAlways == Spec => []GapFree
<1>1. ASSUME IInv PROVE GapFree
  <2>1. ASSUME NEW s \in Session PROVE SeqsOf(s) = 0 .. MaxSeq(s)
    <3>1. PICK n \in Nat : SeqsOf(s) = 0 .. n
      BY <1>1 DEF IInv, Segment
    <3> QED
      BY <3>1, MaxOfSegment
  <2> QED
    BY <2>1 DEF GapFree
<1> QED
  BY <1>1, Invariance, PTL

\* Live writers serialize at the lock of the backend: no live INSERT loses its
\* slot to another live writer.
THEOREM LiveNeverCollideAlways == Spec => []LiveNeverCollide
<1>1. IInv => LiveNeverCollide
  BY DEF IInv
<1> QED
  BY <1>1, Invariance, PTL

\* A committed turn row keeps its sequence_num for ever: retries, recovery and
\* crashes never move or remove it.
THEOREM RowsAreImmutable == Spec => RowsImmutable
<1>1. ASSUME IInv, [Next]_vars
      PROVE  [\A t \in Turn : seqOf[t] # 0 => seqOf'[t] = seqOf[t]]_vars
  <2>1. ASSUME NEW t \in Turn, Progress(t) \/ Crash(t)
        PROVE  \A u \in Turn : seqOf[u] # 0 => seqOf'[u] = seqOf[u]
    <3>1. CASE CommitTurn(t) \/ CommitUnacknowledged(t) \/ RecoverInsert(t)
      BY <1>1, <3>1 DEF IInv, TypeOK, CommitRow, CommitTurn, CommitUnacknowledged, RecoverInsert
    <3>2. CASE ~(CommitTurn(t) \/ CommitUnacknowledged(t) \/ RecoverInsert(t))
      BY <2>1, <3>2 DEF Progress, Crash, WriteSession, BeginLocked, ReadNextSeq, InsertTurn,
         InsertCollides, WriteToolCalls, StatementFails, RecoverReadMax, RecoverFails, storeVars
    <3> QED
      BY <3>1, <3>2
  <2> QED
    BY <1>1, <2>1 DEF Next
<1> QED
  BY <1>1, Invariance, PTL DEF Spec, RowsImmutable
-----------------------------------------------------------------------------
(* What an Ok of write_graph means.                                        *)

\* What a live writer has already persisted at each of its steps.
Persisted ==
    \A t \in LiveTurn :
        /\ pc[t] \in {"opened", "committed", "done"} \cup InTransaction
                => SessionOf[t] \in sessions
        /\ pc[t] \in {"committed", "done"} => seqOf[t] # 0
        /\ pc[t] = "done" => t \in toolRows

LEMMA PersistedStep == IInv /\ Persisted /\ [Next]_vars => Persisted'
<1> SUFFICES ASSUME IInv, Persisted, [Next]_vars PROVE Persisted'
  OBVIOUS
<1> USE TurnAssumption
    DEF IInv, TypeOK, Persisted, InTransaction, Ended, Goto, Turn, storeVars
<1>1. ASSUME NEW t \in Turn, Progress(t) \/ Crash(t) PROVE Persisted'
  <2>1. CASE CommitTurn(t) \/ CommitUnacknowledged(t) \/ RecoverInsert(t)
    <3>1. \A u \in Turn : seqOf[u] # 0 => seqOf'[u] # 0
      BY <2>1 DEF CommitTurn, CommitUnacknowledged, RecoverInsert, CommitRow
    <3>2. CASE CommitTurn(t)
      <4>1. seqOf'[t] # 0 /\ t \in LiveTurn
        BY <3>2 DEF CommitTurn, CommitRow, Ranked, RecoverySteps
      <4> QED
        BY <3>1, <3>2, <4>1 DEF CommitTurn
    <3>3. CASE CommitUnacknowledged(t)
      BY <3>1, <3>3 DEF CommitUnacknowledged, AttemptFails
    <3>4. CASE RecoverInsert(t)
      BY <3>1, <3>4 DEF RecoverInsert
    <3> QED
      BY <2>1, <3>2, <3>3, <3>4
  <2>2. CASE WriteSession(t) \/ BeginLocked(t) \/ ReadNextSeq(t) \/ InsertTurn(t)
    BY <2>2 DEF WriteSession, BeginLocked, ReadNextSeq, InsertTurn
  <2>3. CASE WriteToolCalls(t) \/ RecoverReadMax(t)
    BY <2>3 DEF WriteToolCalls, RecoverReadMax, RecoverySteps
  <2>4. CASE InsertCollides(t) \/ StatementFails(t) \/ RecoverFails(t) \/ Crash(t)
    BY <2>4 DEF InsertCollides, StatementFails, RecoverFails, Crash, AttemptFails
  <2> QED
    BY <1>1, <2>1, <2>2, <2>3, <2>4 DEF Progress
<1>2. CASE UNCHANGED vars
  BY <1>2 DEF vars
<1> QED
  BY <1>1, <1>2 DEF Next

\* When write_graph returned Ok, the session row, the turn row and the
\* tool-call rows are in the store, whatever attempts failed before.
THEOREM OkIsPersisted == Spec => []OkMeansPersisted
<1>1. Init => Persisted
  BY DEF Init, Persisted, Turn, InTransaction
<1>2. Persisted => OkMeansPersisted
  BY DEF Persisted, OkMeansPersisted
<1> QED
  BY <1>1, <1>2, PersistedStep, Invariance, PTL DEF Spec
-----------------------------------------------------------------------------
(* Refinement of the append-only log.                                      *)

\* The turn at position i of a session is the one row with that number.
LEMMA TurnAtUnique ==
    ASSUME IInv, NEW t \in Turn, seqOf[t] # 0
    PROVE  TurnAt(SessionOf[t], seqOf[t]) = t
BY DEF IInv, SlotUnique, TurnAt

LEMMA LogTyped ==
    ASSUME IInv, NEW s \in Session
    PROVE  /\ MaxSeq(s) \in Nat
           /\ \A i \in 1 .. MaxSeq(s) :
                /\ TurnAt(s, i) \in Turn /\ SessionOf[TurnAt(s, i)] = s
                /\ seqOf[TurnAt(s, i)] = i
           /\ LogOf[s] \in Seq(Turn) /\ Len(LogOf[s]) = MaxSeq(s)
<1>1. PICK n \in Nat : SeqsOf(s) = 0 .. n
  BY DEF IInv, Segment
<1>2. MaxSeq(s) = n
  BY <1>1, MaxOfSegment
<1>3. ASSUME NEW i \in 1 .. n
      PROVE  TurnAt(s, i) \in Turn /\ SessionOf[TurnAt(s, i)] = s /\ seqOf[TurnAt(s, i)] = i
  <2>1. \E t \in Turn : SessionOf[t] = s /\ seqOf[t] = i
    BY <1>1 DEF SeqsOf
  <2> QED
    BY <2>1 DEF TurnAt
<1>4. LogOf[s] = [i \in 1 .. n |-> TurnAt(s, i)]
  BY <1>2 DEF LogOf
<1> QED
  BY <1>2, <1>3, <1>4

\* A commit of a new row is AppendTurn of TurnLog.
LEMMA CommitAppends ==
    ASSUME IInv, IInv', NEW t \in Turn, CommitRow(t), seqOf[t] = 0, slot[t] # 0, slot[t] \in Nat
    PROVE  TL!AppendTurn(t)
<1> DEFINE s0 == SessionOf[t]
<1>1. s0 \in Session
  BY TurnAssumption
<1>2. seqOf' = [seqOf EXCEPT ![t] = slot[t]]
  BY DEF CommitRow
<1>3. ~TL!InLog(t)
  <2> SUFFICES ASSUME NEW i \in 1 .. Len(LogOf[s0]), LogOf[s0][i] = t PROVE FALSE
    BY DEF TL!InLog
  <2>1. i \in 1 .. MaxSeq(s0)
    BY <1>1, LogTyped
  <2>2. TurnAt(s0, i) = t
    BY <1>1, <2>1 DEF LogOf
  <2>3. seqOf[t] = i
    BY <1>1, <2>1, <2>2, LogTyped
  <2> QED
    BY <2>1, <2>3
<1>4. PICK n \in Nat : SeqsOf(s0) = 0 .. n /\ MaxSeq(s0) = n
  BY <1>1, MaxOfSegment DEF IInv, Segment
<1>5. PICK m \in Nat : SeqsOf(s0)' = 0 .. m /\ MaxSeq(s0)' = m
  <2>1. PICK m \in Nat : SeqsOf(s0)' = 0 .. m
    BY <1>1 DEF IInv, Segment
  <2>2. MaxSeq(s0)' = m
    BY <2>1, MaxOfInterval DEF MaxSeq
  <2> QED
    BY <2>1, <2>2
<1>6. SeqsOf(s0)' = SeqsOf(s0) \cup {slot[t]}
  BY <1>2 DEF IInv, TypeOK, SeqsOf
<1>7. \A u \in Turn : SessionOf[u] = s0 => seqOf[u] # slot[t]
  <2> SUFFICES ASSUME NEW u \in Turn, SessionOf[u] = s0, seqOf[u] = slot[t] PROVE FALSE
    OBVIOUS
  <2>1. u # t /\ seqOf'[u] = seqOf'[t] /\ seqOf'[u] # 0
    BY <1>2 DEF IInv, TypeOK
  <2>2. SlotUnique'
    BY DEF IInv
  <2> QED
    BY <2>1, <2>2 DEF SlotUnique
<1>8. slot[t] \notin SeqsOf(s0)
  BY <1>7 DEF SeqsOf
<1>9. m = n + 1 /\ slot[t] = n + 1
  <2> DEFINE x == slot[t]
  <2>1. 0 .. m = (0 .. n) \cup {x} /\ x \notin 0 .. n /\ x \in Nat
    BY <1>4, <1>5, <1>6, <1>8
  <2> HIDE DEF x
  <2>2. x > n /\ x <= m
    <3>1. x \in 0 .. m
      BY <2>1
    <3> QED
      BY <2>1, <3>1
  <2>3. n + 1 \in 0 .. m
    BY <2>1, <2>2
  <2>4. n + 1 = x
    <3>1. n + 1 \in (0 .. n) \cup {x}
      BY <2>1, <2>3
    <3> QED
      BY <3>1
  <2>5. m \in (0 .. n) \cup {x}
    BY <2>1
  <2>6. m = x
    BY <2>1, <2>2, <2>5
  <2> QED
    BY <2>4, <2>6 DEF x
<1>10. ASSUME NEW i \in 1 .. n PROVE TurnAt(s0, i)' = TurnAt(s0, i)
  <2> DEFINE u == TurnAt(s0, i)
  <2>1. u \in Turn /\ SessionOf[u] = s0 /\ seqOf[u] = i
    BY <1>1, <1>4, LogTyped
  <2>2. seqOf'[u] = i
    BY <1>2, <2>1 DEF IInv, TypeOK
  <2>3. \A v \in Turn : SessionOf[v] = s0 /\ seqOf'[v] = i => v = u
    BY <2>1, <2>2 DEF IInv, SlotUnique
  <2>4. \A v \in Turn : SessionOf[v] = s0 /\ seqOf[v] = i => v = u
    BY <2>1 DEF IInv, SlotUnique
  <2> QED
    BY <2>1, <2>2, <2>3, <2>4 DEF TurnAt
<1>11. TurnAt(s0, n + 1)' = t
  <2>1. seqOf'[t] = n + 1
    BY <1>2, <1>9 DEF IInv, TypeOK
  <2>2. \A v \in Turn : SessionOf[v] = s0 /\ seqOf'[v] = n + 1 => v = t
    BY <2>1 DEF IInv, SlotUnique
  <2> QED
    BY <2>1, <2>2 DEF TurnAt
<1>12. LogOf'[s0] = Append(LogOf[s0], t)
  <2>1. LogOf[s0] = [i \in 1 .. n |-> TurnAt(s0, i)]
    BY <1>1, <1>4 DEF LogOf
  <2>2. LogOf'[s0] = [i \in 1 .. n + 1 |-> TurnAt(s0, i)']
    BY <1>1, <1>5, <1>9 DEF LogOf
  <2>3. LogOf'[s0] = [i \in 1 .. n + 1 |-> IF i = n + 1 THEN t ELSE TurnAt(s0, i)]
    BY <2>2, <1>10, <1>11
  <2>4. LogOf[s0] \in Seq(Turn) /\ Len(LogOf[s0]) = n
    BY <1>1, <1>4, LogTyped
  <2>5. Append(LogOf[s0], t) = [i \in 1 .. n + 1 |-> IF i = n + 1 THEN t ELSE TurnAt(s0, i)]
    BY <2>1, <2>4
  <2> QED
    BY <2>3, <2>5
<1>13. ASSUME NEW s \in Session, s # s0 PROVE LogOf'[s] = LogOf[s]
  <2>1. \A v \in Turn : SessionOf[v] = s => seqOf'[v] = seqOf[v]
    BY <1>2, <1>13 DEF IInv, TypeOK
  <2>2. SeqsOf(s)' = SeqsOf(s)
    BY <2>1 DEF SeqsOf
  <2>3. MaxSeq(s)' = MaxSeq(s)
    BY <2>2 DEF MaxSeq
  <2>4. \A i : TurnAt(s, i)' = TurnAt(s, i)
    BY <2>1 DEF TurnAt
  <2> QED
    BY <2>3, <2>4, <1>13 DEF LogOf
<1>14. LogOf' = [LogOf EXCEPT ![s0] = Append(@, t)]
  BY <1>1, <1>12, <1>13 DEF LogOf
<1> QED
  BY <1>3, <1>14 DEF TL!AppendTurn

\* write_graph and replay_orphan, on either backend, with retries, crashes and
\* lost acknowledgements, implement the append-only log of TurnLog.
THEOREM Refinement == Spec => ImplementsTurnLog
<1>1. Init => TL!Init
  <2> SUFFICES ASSUME Init PROVE TL!Init
    OBVIOUS
  <2>1. ASSUME NEW s \in Session PROVE LogOf[s] = << >>
    <3>1. SeqsOf(s) = 0 .. 0
      BY DEF Init, SeqsOf
    <3>2. MaxSeq(s) = 0
      BY <3>1, MaxOfSegment
    <3> QED
      BY <3>2 DEF LogOf
  <2> QED
    BY <2>1 DEF TL!Init, LogOf
<1>2. ASSUME IInv, IInv', [Next]_vars PROVE [TL!Next]_LogOf
  <2>1. CASE UNCHANGED seqOf
    <3>1. \A s \in Session : MaxSeq(s)' = MaxSeq(s)
      BY <2>1 DEF MaxSeq, SeqsOf
    <3>2. \A s, i : TurnAt(s, i)' = TurnAt(s, i)
      BY <2>1 DEF TurnAt
    <3> QED
      BY <3>1, <3>2 DEF LogOf
  <2>2. ASSUME NEW t \in Turn, CommitTurn(t) \/ CommitUnacknowledged(t) \/ RecoverInsert(t),
               seqOf' # seqOf
        PROVE  TL!Next
    <3>1. CommitRow(t) /\ pc[t] \in {"ranked", "inserted"}
      BY <2>2 DEF CommitTurn, CommitUnacknowledged, RecoverInsert
    <3>2. seqOf[t] = 0
      BY <1>2, <2>2, <3>1 DEF CommitRow, IInv, TypeOK
    <3>3. slot[t] \in Nat /\ slot[t] # 0
      BY <1>2, <3>1 DEF IInv, TypeOK, Ranked
    <3> QED
      BY <1>2, <3>1, <3>2, <3>3, CommitAppends DEF TL!Next
  <2>3. ASSUME NEW t \in Turn, Progress(t) \/ Crash(t),
               ~(CommitTurn(t) \/ CommitUnacknowledged(t) \/ RecoverInsert(t))
        PROVE  UNCHANGED seqOf
    BY <2>3 DEF Progress, Crash, WriteSession, BeginLocked, ReadNextSeq, InsertTurn,
       InsertCollides, WriteToolCalls, StatementFails, RecoverReadMax, RecoverFails, storeVars
  <2> QED
    BY <1>2, <2>1, <2>2, <2>3 DEF Next, vars
<1> QED
  BY <1>1, <1>2, Invariance, PTL DEF Spec, ImplementsTurnLog, TL!Spec
=============================================================================
