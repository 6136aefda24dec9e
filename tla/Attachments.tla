---------------------------- MODULE Attachments ----------------------------
(***************************************************************************)
(* How the attachments of a turn are stored, after the turn row: an object *)
(* per content hash, shared by every turn that sends the same bytes, and a *)
(* row per attachment (WritePipeline::write_attachment), the dead-letter   *)
(* queue for what cannot be written, the removal of an object nobody       *)
(* refers to, and the correction of turns.attachment_count at the end      *)
(* (reconcile_turn_attachment_count).  A turn that a replay of recovery    *)
(* writes has its objects put before the turn row, and its attachment rows *)
(* inserted plainly, all of it in one attempt whose errors are logged      *)
(* (replay_one_orphan).                                                    *)
(*                                                                         *)
(* Captures and replays of several turns run on several connections and    *)
(* processes; a step is one database statement or one file operation.      *)
(***************************************************************************)
EXTENDS Naturals, Sequences, FiniteSets

CONSTANTS
    Turn,
    Blob,        \* content hashes (sha256)
    BlobsOf,     \* for each turn, the hashes of its attachments in order
    UrlOnly,     \* in place of a hash: a remote image without bytes
    MaxRetries,
    Free         \* marks a lock or a temporary file nobody holds

ASSUME AttachmentAssumption ==
    /\ BlobsOf \in [Turn -> Seq(Blob \cup {UrlOnly})]
    /\ UrlOnly \notin Blob
    /\ MaxRetries \in Nat \ {0}
    /\ Free \notin Turn
    /\ "sqlite" \notin Blob

VARIABLES
    backend,  \* graph store, chosen at startup
    store,    \* object store, chosen at startup
    replayed, \* turns that a replay writes, the others are captured
    objects,  \* objects in the store
    stored,   \* history: objects that were ever in the store
    tmp,      \* writer of the temporary file of each object; it stays in a crash
    unput,    \* history: attachments that went on without their object, when
              \* a replay's put failed or a put was content with a temporary file
    rows,     \* committed attachment rows, << turn, position >>
    letters,  \* dead-letter files, << turn, position >>
    count,    \* turns.attachment_count
    drifted,  \* turns whose count could not be corrected
    holder,   \* holder of each database lock
    pc,       \* step of each capture
    at,       \* position of the attachment it is at
    tries,    \* attempts at the current put or insert
    put,      \* object_put_succeeded
    seen,     \* blob_present
    persisted \* number of rows it was told are written

config == << backend, store, replayed >>
disk == << objects, stored, tmp, unput >>
tables == << rows, letters, count, drifted >>
local == << at, tries, put, seen, persisted >>
vars == << config, disk, tables, holder, pc, local >>

Step == {"turn", "put", "rename", "insert", "probed", "locked", "letter",
         "unrefer", "count", "delete", "reconcile", "done", "crashed"}
Ended == {"done", "crashed"}

\* BEGIN IMMEDIATE locks the database; pg_advisory_xact_lock locks
\* hashtext(sha256), here the hash itself.
Lock == Blob \cup {"sqlite"}
LockOf(b) == IF backend = "sqlite" THEN "sqlite" ELSE b

Here(t) == BlobsOf[t][at[t]]
Row(t) == << t, at[t] >>

\* SELECT COUNT( * ) FROM attachments WHERE sha256 = b
References(b) == {r \in rows : BlobsOf[r[1]][r[2]] = b}

RowsOf(t) == {r \in rows : r[1] = t}

Goto(t, step) == pc' = [pc EXCEPT ![t] = step]
Acquire(t, l) == holder[l] = Free /\ holder' = [holder EXCEPT ![l] = t]
Release(t) == holder' = [l \in Lock |-> IF holder[l] = t THEN Free ELSE holder[l]]

Init ==
    /\ backend \in {"sqlite", "postgres"}
    /\ store \in {"local", "s3"}
    /\ replayed \in SUBSET Turn
    /\ objects = {} /\ stored = {} /\ unput = {}
    /\ tmp = [b \in Blob |-> Free]
    /\ rows = {} /\ letters = {} /\ drifted = {}
    /\ count = [t \in Turn |-> 0]
    /\ holder = [l \in Lock |-> Free]
    /\ pc = [t \in Turn |-> IF t \in replayed /\ BlobsOf[t] # << >> THEN "put" ELSE "turn"]
    /\ at = [t \in Turn |-> 1]
    /\ tries = [t \in Turn |-> 0]
    /\ put = [t \in Turn |-> FALSE]
    /\ seen = [t \in Turn |-> FALSE]
    /\ persisted = [t \in Turn |-> 0]

-----------------------------------------------------------------------------
(* The loop over the attachments of a turn.                                *)

\* The step an attachment starts with after the turn row: a replay has put
\* its object before.
First(t) == IF t \in replayed THEN "insert" ELSE "put"

\* Mutant of Reset: the attempts of the last attachment are counted on.
CountOn(t) ==
    /\ put' = [put EXCEPT ![t] = FALSE]
    /\ seen' = [seen EXCEPT ![t] = FALSE]
    /\ UNCHANGED tries

Reset(t) ==
    /\ tries' = [tries EXCEPT ![t] = 0]
    /\ put' = [put EXCEPT ![t] = FALSE]
    /\ seen' = [seen EXCEPT ![t] = FALSE]

\* Mutant of After: the count is never compared.
AfterUnchecked(t, n) == "done"

\* After the last attachment the count is corrected when it is too high.
After(t, n) == IF n = Len(BlobsOf[t]) THEN "done" ELSE "reconcile"

\* write_attachment returned, with a row (Ok(true)) when k = 1 and without
\* one (Ok(false) or Err) when k = 0; the loop goes on.
Returned(t, k) ==
    /\ persisted' = [persisted EXCEPT ![t] = @ + k]
    /\ IF at[t] < Len(BlobsOf[t])
       THEN Goto(t, First(t)) /\ at' = [at EXCEPT ![t] = @ + 1]
       ELSE Goto(t, After(t, persisted[t] + k)) /\ UNCHANGED at
    /\ Reset(t)

\* write_capture, or write_turn of a replay, with the number of extracted
\* attachments as the count.
WriteTurn(t) ==
    /\ pc[t] = "turn"
    /\ count' = [count EXCEPT ![t] = Len(BlobsOf[t])]
    /\ Goto(t, IF BlobsOf[t] = << >> THEN "done" ELSE First(t))
    /\ UNCHANGED << config, disk, rows, letters, drifted, holder, local >>

\* It gave up; a commit without an answer leaves the row.
WriteTurnFails(t) ==
    /\ pc[t] = "turn"
    /\ count' \in {count, [count EXCEPT ![t] = Len(BlobsOf[t])]}
    /\ Goto(t, "done")
    /\ drifted' = drifted \cup {t}
    /\ UNCHANGED << config, disk, rows, letters, holder, local >>

-----------------------------------------------------------------------------
(* ObjectStore::put, at most MaxRetries times, or once in a replay.         *)

\* A replay goes on to the next attachment and then to the turn row.
NextPut(t) ==
    /\ IF at[t] < Len(BlobsOf[t])
       THEN at' = [at EXCEPT ![t] = @ + 1] /\ Goto(t, "put")
       ELSE at' = [at EXCEPT ![t] = 1] /\ Goto(t, "turn")
    /\ UNCHANGED << tries, put, seen, persisted >>

Stored(t) ==
    IF t \in replayed
    THEN NextPut(t)
    ELSE /\ put' = [put EXCEPT ![t] = TRUE]
         /\ tries' = [tries EXCEPT ![t] = 0]
         /\ Goto(t, "insert")
         /\ UNCHANGED << at, seen, persisted >>

\* A remote image has no bytes to put.
PutNothing(t) ==
    /\ pc[t] = "put"
    /\ Here(t) = UrlOnly
    /\ IF t \in replayed THEN NextPut(t) ELSE Goto(t, "insert") /\ UNCHANGED local
    /\ UNCHANGED << config, disk, tables, holder >>

HasBytes(t) == Here(t) # UrlOnly

\* The object is there already (exists, HeadObject).  The local store also
\* returns Ok when only the temporary file is: another writer's, it says.
PutFinds(t) ==
    /\ pc[t] = "put" /\ HasBytes(t)
    /\ \/ Here(t) \in objects /\ UNCHANGED unput
       \/ /\ Here(t) \notin objects /\ store = "local" /\ tmp[Here(t)] # Free
          /\ unput' = unput \cup {Row(t)}
    /\ Stored(t)
    /\ UNCHANGED << config, objects, stored, tmp, tables, holder >>

\* Local store: the temporary file is created with create_new.
PutCreates(t) ==
    /\ pc[t] = "put" /\ HasBytes(t)
    /\ store = "local"
    /\ Here(t) \notin objects /\ tmp[Here(t)] = Free
    /\ tmp' = [tmp EXCEPT ![Here(t)] = t]
    /\ Goto(t, "rename")
    /\ UNCHANGED << config, objects, stored, unput, tables, holder, local >>

Store(b) == objects' = objects \cup {b} /\ stored' = stored \cup {b}

PutRenames(t) ==
    /\ pc[t] = "rename"
    /\ Store(Here(t))
    /\ tmp' = [tmp EXCEPT ![Here(t)] = Free]
    /\ Stored(t)
    /\ UNCHANGED << config, unput, tables, holder >>

\* S3: PutObject is one request.
PutUploads(t) ==
    /\ pc[t] = "put" /\ HasBytes(t)
    /\ store = "s3"
    /\ Store(Here(t))
    /\ Stored(t)
    /\ UNCHANGED << config, tmp, unput, tables, holder >>

\* An attempt failed; the local store removes its temporary file.  A replay
\* warns that its row will reference a missing object.
PutFails(t) ==
    /\ pc[t] \in {"put", "rename"} /\ HasBytes(t)
    /\ tmp' = [b \in Blob |-> IF tmp[b] = t THEN Free ELSE tmp[b]]
    /\ IF t \in replayed
       THEN unput' = unput \cup {Row(t)} /\ NextPut(t)
       ELSE /\ tries' = [tries EXCEPT ![t] = @ + 1]
            /\ Goto(t, IF tries[t] + 1 < MaxRetries THEN "put" ELSE "letter")
            /\ UNCHANGED << unput, at, put, seen, persisted >>
    /\ UNCHANGED << config, objects, stored, tables, holder >>

-----------------------------------------------------------------------------
(* write_attachment_with_blob_check, at most MaxRetries times, or          *)
(* write_attachment once in a replay.                                      *)

\* Mutant of AttemptFails: the attempts are not counted.
AttemptUncounted(t) ==
    /\ Release(t)
    /\ Goto(t, "insert")
    /\ UNCHANGED local

\* An attempt failed: a transaction is rolled back.  After a permanent error
\* (schema, privilege, constraint) there is no other attempt.
AttemptFails(t) ==
    /\ Release(t)
    /\ IF t \in replayed
       THEN Returned(t, 0)
       ELSE /\ tries' = [tries EXCEPT ![t] = @ + 1]
            /\ \/ Goto(t, "letter")
               \/ tries[t] + 1 < MaxRetries /\ Goto(t, "insert")
            /\ UNCHANGED << at, put, seen, persisted >>

\* The insert of SQLite, of a replay and of an attachment without bytes has
\* no check.
Plain(t) == backend = "sqlite" \/ t \in replayed \/ Here(t) = UrlOnly

Waits(t) == backend = "sqlite" => holder["sqlite"] = Free

\* INSERT OR IGNORE, ON CONFLICT (id) DO NOTHING: once is enough.
InsertPlain(t) ==
    /\ pc[t] = "insert"
    /\ Plain(t)
    /\ Waits(t)
    /\ rows' = rows \cup {Row(t)}
    /\ Returned(t, 1)
    /\ UNCHANGED << config, disk, letters, count, drifted, holder >>

\* PostgreSQL evaluates blob_exists before it takes the lock.
Probe(t) ==
    /\ pc[t] = "insert"
    /\ ~Plain(t)
    /\ seen' = [seen EXCEPT ![t] = Here(t) \in objects]
    /\ Goto(t, "probed")
    /\ UNCHANGED << config, disk, tables, holder, at, tries, put, persisted >>

\* Mutant of LockBlob: the plain write_attachment of the first version.
LockNothing(t) ==
    /\ pc[t] = "probed"
    /\ Goto(t, "locked")
    /\ UNCHANGED << config, disk, tables, holder, local >>

LockBlob(t) ==
    /\ pc[t] = "probed"
    /\ Acquire(t, LockOf(Here(t)))
    /\ Goto(t, "locked")
    /\ UNCHANGED << config, disk, tables, local >>

\* Mutant of Present: the answer of the probe is not looked at.
PresentOrNot(t) == TRUE

Present(t) == seen[t]

CommitRow(t) ==
    /\ pc[t] = "locked"
    /\ Present(t)
    /\ rows' = rows \cup {Row(t)}
    /\ Release(t)
    /\ Returned(t, 1)
    /\ UNCHANGED << config, disk, letters, count, drifted >>

\* The server committed and the answer was lost.
CommitUnanswered(t) ==
    /\ backend = "postgres"
    /\ \/ pc[t] = "locked" /\ Present(t)
       \/ pc[t] = "insert" /\ Plain(t)
    /\ rows' = rows \cup {Row(t)}
    /\ AttemptFails(t)
    /\ UNCHANGED << config, disk, letters, count, drifted >>

\* An error of any statement or of blob_exists, or the insert was refused
\* because the probe saw no object.
InsertFails(t) ==
    /\ pc[t] \in {"insert", "probed", "locked"}
    /\ AttemptFails(t)
    /\ UNCHANGED << config, disk, tables >>

-----------------------------------------------------------------------------
(* Dead-lettering, and the removal of an object without references.        *)

DeadLetter(t) ==
    /\ pc[t] = "letter"
    /\ letters' = letters \cup {Row(t)}
    /\ Returned(t, 0)
    /\ UNCHANGED << config, disk, rows, count, drifted, holder >>

\* The letter cannot be written either: an object that was put for it is
\* removed unless somebody refers to it.
DeadLetterFails(t) ==
    /\ pc[t] = "letter"
    /\ IF put[t]
       THEN Goto(t, "unrefer") /\ UNCHANGED local
       ELSE Returned(t, 0)
    /\ UNCHANGED << config, disk, tables, holder >>

\* with_sha256_orphan_delete_lock takes the lock the inserts take.
LockForDelete(t) ==
    /\ pc[t] = "unrefer"
    /\ Acquire(t, LockOf(Here(t)))
    /\ Goto(t, "count")
    /\ UNCHANGED << config, disk, tables, local >>

\* Mutant of Unreferenced: the object is deleted whoever refers to it.
UnreferencedOrNot(b) == TRUE

Unreferenced(b) == References(b) = {}

CountReferences(t) ==
    /\ pc[t] = "count"
    /\ IF Unreferenced(Here(t))
       THEN Goto(t, "delete") /\ UNCHANGED << holder, local >>
       ELSE Release(t) /\ Returned(t, 0)
    /\ UNCHANGED << config, disk, tables >>

DeleteObject(t) ==
    /\ pc[t] = "delete"
    /\ objects' = objects \ {Here(t)}
    /\ Release(t)
    /\ Returned(t, 0)
    /\ UNCHANGED << config, stored, tmp, unput, tables >>

\* The lock, the count or the delete fails: the object stays.
DeleteFails(t) ==
    /\ pc[t] \in {"unrefer", "count", "delete"}
    /\ Release(t)
    /\ Returned(t, 0)
    /\ UNCHANGED << config, disk, tables >>

-----------------------------------------------------------------------------
(* reconcile_turn_attachment_count.                                        *)

\* The UPDATE only works on SQLite: PostgreSQL refuses every change of a
\* turn row (trigger turns_immutable).
Corrected(t) == backend = "sqlite"

Reconcile(t) ==
    /\ pc[t] = "reconcile"
    /\ Corrected(t)
    /\ count' = [count EXCEPT ![t] = persisted[t]]
    /\ Goto(t, "done")
    /\ UNCHANGED << config, disk, rows, letters, drifted, holder, local >>

\* All attempts failed, or the one of a replay; the drift is dead-lettered, or
\* only logged.
ReconcileFails(t) ==
    /\ pc[t] = "reconcile"
    /\ drifted' = drifted \cup {t}
    /\ Goto(t, "done")
    /\ UNCHANGED << config, disk, rows, letters, count, holder, local >>

\* The process dies: its transaction is rolled back, its temporary file stays.
Crash(t) ==
    /\ pc[t] \notin Ended
    /\ Release(t)
    /\ Goto(t, "crashed")
    /\ UNCHANGED << config, disk, tables, local >>

-----------------------------------------------------------------------------
Progress(t) ==
    \/ WriteTurn(t) \/ WriteTurnFails(t)
    \/ PutNothing(t) \/ PutFinds(t) \/ PutCreates(t) \/ PutRenames(t) \/ PutUploads(t) \/ PutFails(t)
    \/ InsertPlain(t) \/ Probe(t) \/ LockBlob(t) \/ CommitRow(t)
    \/ CommitUnanswered(t) \/ InsertFails(t)
    \/ DeadLetter(t) \/ DeadLetterFails(t)
    \/ LockForDelete(t) \/ CountReferences(t) \/ DeleteObject(t) \/ DeleteFails(t)
    \/ Reconcile(t) \/ ReconcileFails(t)

Next == \E t \in Turn : Progress(t) \/ Crash(t)

Spec == Init /\ [][Next]_vars

\* A capture is a synchronous call whose statements and requests return.
FairSpec == Spec /\ \A t \in Turn : WF_vars(Progress(t))

-----------------------------------------------------------------------------
(* Properties.                                                             *)

\* Types of the variables.
TypeOK ==
    /\ backend \in {"sqlite", "postgres"}
    /\ store \in {"local", "s3"}
    /\ replayed \subseteq Turn
    /\ objects \subseteq Blob /\ stored \subseteq Blob
    /\ unput \subseteq Turn \X Nat
    /\ tmp \in [Blob -> Turn \cup {Free}]
    /\ rows \subseteq Turn \X Nat /\ letters \subseteq Turn \X Nat
    /\ count \in [Turn -> Nat] /\ persisted \in [Turn -> Nat]
    /\ drifted \subseteq Turn
    /\ holder \in [Lock -> Turn \cup {Free}]
    /\ pc \in [Turn -> Step]
    /\ at \in [Turn -> Nat] /\ tries \in [Turn -> 0 .. MaxRetries]
    /\ put \in [Turn -> BOOLEAN] /\ seen \in [Turn -> BOOLEAN]

\* A row whose insert neither checks for the object nor takes its lock.
Unchecked(r) == backend = "postgres" /\ r[1] \in replayed

\* An object that a committed row refers to is never deleted, whichever turn
\* wrote the row (with_sha256_orphan_delete_lock), unless a replay wrote it
\* on PostgreSQL, where its plain insert does not wait for the deleter.
ReferencedObjectsKept ==
    [][\A b \in objects \ objects' : \A r \in References(b) : Unchecked(r)]_vars

\* Every row names an object that was in the store at some time, except one of
\* a replay that put none, on either backend, and on SQLite, where nobody
\* looks again (write_attachment_with_blob_check), one whose put took the
\* temporary file of another writer for the object.
RowsHadTheirObject ==
    \A r \in rows :
        \/ BlobsOf[r[1]][r[2]] \in stored \cup {UrlOnly}
        \/ r \in unput /\ (r[1] \in replayed \/ backend = "sqlite")

\* "The raw attachment bytes must already be in the object store"
\* (storage/graph.rs:489-490), of what a capture writes.
BytesWereStored ==
    \A r \in rows : r[1] \notin replayed => BlobsOf[r[1]][r[2]] \in stored \cup {UrlOnly}

\* "Invoke blob_exists() while the lock is held ... refuse to commit a dangling
\* row" (storage/graph.rs:522-525): every captured row of PostgreSQL has its object.
NoDanglingRow ==
    backend = "postgres" =>
        \A r \in rows : r[1] \notin replayed => BlobsOf[r[1]][r[2]] \in objects \cup {UrlOnly}

\* attachment_count is never below the number of rows, even when a commit is
\* not acknowledged, and it is exact once the capture is done, unless its
\* correction failed.
CountIsTrue ==
    \A t \in Turn :
        /\ Cardinality(RowsOf(t)) <= count[t]
        /\ pc[t] = "done" /\ t \notin drifted => count[t] = Cardinality(RowsOf(t))
=============================================================================
