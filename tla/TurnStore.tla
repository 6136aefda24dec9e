----------------------------- MODULE TurnStore -----------------------------
(***************************************************************************)
(* How a turn reaches the graph store: WritePipeline::write_graph with its *)
(* retry loop, the per-session atomic sequence allocation of the two       *)
(* backends (GraphStore::write_turn_atomic_seq), and the plain write_turn  *)
(* of orphan recovery, which takes its sequence number from an earlier     *)
(* read.                                                                   *)
(*                                                                         *)
(* One writer per turn id: a live capture mints its id (a random UUID) and *)
(* retries with the same id, a recovered capture reuses the uuid of its    *)
(* metadata file.  Writers run on any number of connections and gateway    *)
(* processes; each step below is one database round trip, so writers       *)
(* interleave between them.                                                *)
(***************************************************************************)
EXTENDS Integers, FiniteSets

CONSTANTS
    LiveTurn,        \* turns written by live captures
    RecoveredTurn,   \* turns written by orphan recovery
    Session,
    SessionOf,       \* session of each turn
    HashText,        \* PostgreSQL hashtext(session_id): 32 bits, may collide
    MaxRetries,      \* attempts of write_capture before the dead-letter queue
    MaxRecoveryRuns, \* bound: recovery runs that try the same orphan
    Free             \* marks a lock nobody holds

Turn == LiveTurn \cup RecoveredTurn
SqliteLock == "sqlite"
Lock == {SqliteLock} \cup {HashText[s] : s \in Session}
Backend == {"sqlite", "postgres"}

ASSUME TurnAssumption ==
    /\ LiveTurn \cap RecoveredTurn = {}
    /\ SessionOf \in [Turn -> Session]
    /\ Free \notin Turn
    /\ SqliteLock \notin {HashText[s] : s \in Session}

ASSUME BoundAssumption ==
    /\ MaxRetries \in Nat \ {0}
    /\ MaxRecoveryRuns \in Nat \ {0}

VARIABLES
    backend,    \* RECONDO_STORE, read once at startup
    sessions,   \* rows of the sessions table
    seqOf,      \* sequence_num of each turn row, 0 while there is no row
    toolRows,   \* turns whose tool_calls rows are all written
    holder,     \* who holds each database lock
    pc,         \* step each writer is at
    slot,       \* next_seq a writer has read
    attempt     \* failed attempts of each writer

storeVars == << sessions, seqOf, toolRows >>
vars == << backend, sessions, seqOf, toolRows, holder, pc, slot, attempt >>

(***************************************************************************)
(* pc: "idle" before write_session, "opened" after it, "locked" inside the *)
(* transaction with its lock held, "ranked" after SELECT MAX, "inserted"   *)
(* after the INSERT, "committed" after COMMIT and before the tool calls,   *)
(* "done", "dead" once the capture is dead-lettered, "crashed" when the    *)
(* process died.  A recovery writer reads MAX first and is then "ranked".  *)
(***************************************************************************)
Step == {"idle", "opened", "locked", "ranked", "inserted", "committed",
         "done", "dead", "crashed"}
InTransaction == {"locked", "ranked", "inserted"}
Ended == {"done", "dead", "crashed"}

LockOf(t) == IF backend = "sqlite" THEN SqliteLock ELSE HashText[SessionOf[t]]

\* COALESCE(MAX(sequence_num), 0) over the committed rows of session s.
SeqsOf(s) == {0} \cup {seqOf[t] : t \in {u \in Turn : SessionOf[u] = s}}
MaxSeq(s) == CHOOSE n \in SeqsOf(s) : \A m \in SeqsOf(s) : m <= n

\* Mutant of Taken: the unique index is missing.
NeverTaken(t) == FALSE

\* UNIQUE(session_id, sequence_num) against committed rows of other turns.
Taken(t) == \E u \in Turn \ {t} :
                SessionOf[u] = SessionOf[t] /\ seqOf[u] = slot[t]

Init ==
    /\ backend \in Backend
    /\ sessions = {}
    /\ seqOf = [t \in Turn |-> 0]
    /\ toolRows = {}
    /\ holder = [l \in Lock |-> Free]
    /\ pc = [t \in Turn |-> "idle"]
    /\ slot = [t \in Turn |-> 0]
    /\ attempt = [t \in Turn |-> 0]

-----------------------------------------------------------------------------
(* Bookkeeping shared by the failure paths.                                *)

\* The transaction is over: its lock is free and its next_seq is forgotten.
Release(t) ==
    /\ holder' = [l \in Lock |-> IF holder[l] = t THEN Free ELSE holder[l]]
    /\ slot' = [slot EXCEPT ![t] = 0]

Limit(t) == IF t \in LiveTurn THEN MaxRetries ELSE MaxRecoveryRuns

\* Mutant of AttemptFails: a failed attempt is not counted.
AttemptUncounted(t) ==
    /\ Release(t)
    /\ pc' = [pc EXCEPT ![t] = IF attempt[t] + 1 < Limit(t) THEN "idle" ELSE "dead"]
    /\ UNCHANGED << backend, attempt >>

\* An attempt failed: the transaction is rolled back, its lock is released,
\* and the caller tries again from the start or gives up.
AttemptFails(t) ==
    /\ Release(t)
    /\ attempt' = [attempt EXCEPT ![t] = @ + 1]
    /\ pc' = [pc EXCEPT ![t] = IF attempt[t] + 1 < Limit(t) THEN "idle" ELSE "dead"]
    /\ UNCHANGED backend

Goto(t, step) == pc' = [pc EXCEPT ![t] = step]

-----------------------------------------------------------------------------
(* write_graph for a live capture.                                         *)

\* write_session: a duplicate key is swallowed, the row stays as it was.
WriteSession(t) ==
    /\ t \in LiveTurn
    /\ pc[t] = "idle"
    /\ sessions' = sessions \cup {SessionOf[t]}
    /\ Goto(t, "opened")
    /\ UNCHANGED << backend, seqOf, toolRows, holder, slot, attempt >>

\* Mutant of BeginLocked: a deferred BEGIN, without the advisory lock.
BeginUnlocked(t) ==
    /\ pc[t] = "opened"
    /\ Goto(t, "locked")
    /\ UNCHANGED << backend, storeVars, holder, slot, attempt >>

\* BEGIN IMMEDIATE, or BEGIN and pg_advisory_xact_lock(hashtext(session_id)).
BeginLocked(t) ==
    /\ pc[t] = "opened"
    /\ holder[LockOf(t)] = Free
    /\ holder' = [holder EXCEPT ![LockOf(t)] = t]
    /\ Goto(t, "locked")
    /\ UNCHANGED << backend, storeVars, slot, attempt >>

\* Mutant of ReadNextSeq: a counter that failed attempts advance too.
ReadNextSeqBurning(t) ==
    /\ pc[t] = "locked"
    /\ slot' = [slot EXCEPT ![t] = MaxSeq(SessionOf[t]) + 1 + attempt[t]]
    /\ Goto(t, "ranked")
    /\ UNCHANGED << backend, storeVars, holder, attempt >>

\* Mutant of ReadNextSeq: subtracts, so that an empty session yields -1.
ReadPreviousSeq(t) ==
    /\ pc[t] = "locked"
    /\ slot' = [slot EXCEPT ![t] = MaxSeq(SessionOf[t]) - 1]
    /\ Goto(t, "ranked")
    /\ UNCHANGED << backend, storeVars, holder, attempt >>

\* SELECT COALESCE(MAX(sequence_num), 0) + 1, a statement of its own.
ReadNextSeq(t) ==
    /\ pc[t] = "locked"
    /\ slot' = [slot EXCEPT ![t] = MaxSeq(SessionOf[t]) + 1]
    /\ Goto(t, "ranked")
    /\ UNCHANGED << backend, storeVars, holder, attempt >>

\* INSERT ... ON CONFLICT (id) DO NOTHING: a row of an earlier attempt makes
\* it a no-op; otherwise the slot must be free.
InsertTurn(t) ==
    /\ t \in LiveTurn
    /\ pc[t] = "ranked"
    /\ seqOf[t] # 0 \/ ~Taken(t)
    /\ Goto(t, "inserted")
    /\ UNCHANGED << backend, storeVars, holder, slot, attempt >>

\* The slot was taken since SELECT MAX: UniqueViolation ends the attempt.
InsertCollides(t) ==
    /\ t \in LiveTurn
    /\ pc[t] = "ranked"
    /\ seqOf[t] = 0 /\ Taken(t)
    /\ AttemptFails(t)
    /\ UNCHANGED storeVars

\* Mutant of CommitRow: ON CONFLICT (id) DO UPDATE.
CommitOverwrites(t) == seqOf' = [seqOf EXCEPT ![t] = slot[t]]

CommitRow(t) ==
    seqOf' = [seqOf EXCEPT ![t] = IF seqOf[t] = 0 THEN slot[t] ELSE seqOf[t]]

\* Mutant of CommitTurn: returns before the tool calls.
CommitAndReturn(t) ==
    /\ pc[t] = "inserted"
    /\ CommitRow(t)
    /\ Release(t)
    /\ Goto(t, "done")
    /\ UNCHANGED << backend, sessions, toolRows, attempt >>

CommitTurn(t) ==
    /\ pc[t] = "inserted"
    /\ CommitRow(t)
    /\ Release(t)
    /\ Goto(t, "committed")
    /\ UNCHANGED << backend, sessions, toolRows, attempt >>

\* The server committed but the client saw an error (connection lost).
CommitUnacknowledged(t) ==
    /\ pc[t] = "inserted"
    /\ CommitRow(t)
    /\ AttemptFails(t)
    /\ UNCHANGED << sessions, toolRows >>

\* write_tool_call for each call, duplicates swallowed.
WriteToolCalls(t) ==
    /\ pc[t] = "committed"
    /\ toolRows' = toolRows \cup {t}
    /\ Goto(t, "done")
    /\ UNCHANGED << backend, sessions, seqOf, holder, slot, attempt >>

\* Mutant of StatementFails: the failure path removes the committed row.
StatementFailsAndDeletes(t) ==
    /\ t \in LiveTurn
    /\ pc[t] \in {"idle", "opened", "committed"} \cup InTransaction
    /\ AttemptFails(t)
    /\ seqOf' = [seqOf EXCEPT ![t] = 0]
    /\ UNCHANGED << sessions, toolRows >>

\* Any statement of the attempt fails; what was committed stays.
StatementFails(t) ==
    /\ t \in LiveTurn
    /\ pc[t] \in {"idle", "opened", "committed"} \cup InTransaction
    /\ AttemptFails(t)
    /\ UNCHANGED storeVars

-----------------------------------------------------------------------------
(* replay_orphan of orphan recovery.                                       *)

\* get_turns_for_session: max + 1 from a read outside any transaction.
RecoverReadMax(t) ==
    /\ t \in RecoveredTurn
    /\ pc[t] = "idle"
    /\ slot' = [slot EXCEPT ![t] = MaxSeq(SessionOf[t]) + 1]
    /\ Goto(t, "ranked")
    /\ UNCHANGED << backend, storeVars, holder, attempt >>

\* An uncommitted live row in the same slot: the unique index (or SQLite's
\* single writer) makes a plain INSERT wait for that transaction to end.
Blocked(t) ==
    \/ backend = "sqlite" /\ holder[SqliteLock] # Free
    \/ \E u \in LiveTurn : /\ pc[u] = "inserted" /\ seqOf[u] = 0
                           /\ SessionOf[u] = SessionOf[t] /\ slot[u] = slot[t]

\* write_session, then write_turn (ON CONFLICT (id) DO NOTHING), then the
\* tool calls, whose failures are only logged.
RecoverInsert(t) ==
    /\ t \in RecoveredTurn
    /\ pc[t] = "ranked"
    /\ ~Blocked(t)
    /\ seqOf[t] # 0 \/ ~Taken(t)
    /\ sessions' = sessions \cup {SessionOf[t]}
    /\ CommitRow(t)
    /\ toolRows' \in {toolRows, toolRows \cup {t}}
    /\ Release(t)
    /\ Goto(t, "done")
    /\ UNCHANGED << backend, attempt >>

\* The replay fails (collision or any error before the turn row): the report
\* lists it and a later run tries again.
RecoverFails(t) ==
    /\ t \in RecoveredTurn
    /\ pc[t] = "ranked"
    /\ sessions' \in {sessions, sessions \cup {SessionOf[t]}}
    /\ AttemptFails(t)
    /\ UNCHANGED << seqOf, toolRows >>

-----------------------------------------------------------------------------
\* The process of the writer dies; the server rolls its transaction back.
Crash(t) ==
    /\ pc[t] \notin Ended
    /\ Release(t)
    /\ Goto(t, "crashed")
    /\ UNCHANGED << backend, storeVars, attempt >>

\* Steps the code and the database take by themselves once a write started.
Progress(t) ==
    \/ WriteSession(t)
    \/ BeginLocked(t)
    \/ ReadNextSeq(t)
    \/ InsertTurn(t)
    \/ InsertCollides(t)
    \/ CommitTurn(t)
    \/ CommitUnacknowledged(t)
    \/ WriteToolCalls(t)
    \/ StatementFails(t)
    \/ RecoverReadMax(t)
    \/ RecoverInsert(t)
    \/ RecoverFails(t)

Next == \E t \in Turn : Progress(t) \/ Crash(t)

Spec == Init /\ [][Next]_vars

\* A write call runs until it returns: tokio keeps polling the task and every
\* statement ends with a result, an error or a lost connection.
FairSpec == Spec /\ \A t \in Turn : WF_vars(Progress(t))
-----------------------------------------------------------------------------
(* Properties.                                                             *)

\* Type correctness of the store and of the writers.
TypeOK ==
    /\ backend \in Backend
    /\ sessions \in SUBSET Session
    /\ seqOf \in [Turn -> Nat]
    /\ toolRows \in SUBSET Turn
    /\ holder \in [Lock -> Turn \cup {Free}]
    /\ pc \in [Turn -> Step]
    /\ slot \in [Turn -> Nat]
    /\ attempt \in [Turn -> Nat]

\* Two turns of one session never share a sequence_num, whichever writers,
\* processes and retries put them there (write_turn_atomic_seq, write_turn).
SlotUnique ==
    \A t, u \in Turn :
        (t # u /\ SessionOf[t] = SessionOf[u] /\ seqOf[t] # 0) => seqOf[t] # seqOf[u]

\* The sequence numbers of a session are 1 .. n without a gap: rollbacks,
\* retries and recovery never burn a number (SELECT MAX inside the lock).
GapFree ==
    \A s \in Session : SeqsOf(s) = 0 .. MaxSeq(s)

\* "Concurrent gateway processes / threads writing into the same session
\* serialize at the lock": a live insert can lose its slot only to orphan
\* recovery, which takes no lock, never to another live writer.
LiveNeverCollide ==
    \A t, u \in LiveTurn :
        (/\ t # u /\ pc[t] \in {"ranked", "inserted"} /\ seqOf[t] = 0
         /\ SessionOf[t] = SessionOf[u])
            => seqOf[u] # slot[t]

\* write_graph's Ok means what the caller relies on: session row, turn row and
\* tool-call rows are there, however many attempts failed before.
OkMeansPersisted ==
    \A t \in LiveTurn :
        pc[t] = "done" => SessionOf[t] \in sessions /\ seqOf[t] # 0 /\ t \in toolRows

\* No step changes or removes a committed turn row: a retry of a turn that is
\* already there keeps its sequence_num (ON CONFLICT (id) DO NOTHING).
RowsImmutable ==
    [][\A t \in Turn : seqOf[t] # 0 => seqOf'[t] = seqOf[t]]_vars

\* The sessions' turns in sequence_num order, as TurnLog sees them.
TurnAt(s, i) == CHOOSE t \in Turn : SessionOf[t] = s /\ seqOf[t] = i
LogOf == [s \in Session |-> [i \in 1 .. MaxSeq(s) |-> TurnAt(s, i)]]
TL == INSTANCE TurnLog WITH log <- LogOf

\* write_graph and replay_orphan, with retries, crashes and lost
\* acknowledgements, implement the append-only log of TurnLog.
ImplementsTurnLog == TL!Spec

\* Every write ends: it succeeds, is dead-lettered, or its process died.
EveryWriteEnds == \A t \in Turn : <>[](pc[t] \in Ended)
=============================================================================
