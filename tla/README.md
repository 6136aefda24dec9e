# A TLA+ verification of the recondo gateway

recondo is an intercepting gateway for LLM traffic. It sits between agents and
providers, forwards every exchange, and keeps each request/response pair as an
immutable *turn* of a *session*. Around the Rust gateway there are a GraphQL/REST
API, an MCP server, a terminal UI and a dashboard, all of them readers of the
tables the gateway writes. What has to be right is the gateway's capture path:
an exchange that went through must end up in the store, once, in order,
whatever connections, processes, retries and crashes do. That path is modelled
first and in most detail; the parts it leans on (TLS, streaming, WebSocket
relay, attachments) and the terminal UI, with its late answers, follow.

## Inventory

Paths are relative to `src/gateway/src/` unless they begin with `src/`.

| Component | State | Operations | What makes it correct |
|---|---|---|---|
| Turn persistence: `storage/pipeline.rs`, `storage/graph.rs`, `storage/postgres.rs`, `db/mod.rs` | tables sessions, turns, tool_calls; dead-letter files; database locks | `write_capture`, `write_graph`, `write_turn_atomic_seq`, `write_turn` | rows never change; sequence numbers unique and without gaps; Ok means persisted; retries end |
| Capture: `capture/mod.rs`, `gateway/capture_pipeline.rs`, `session/mod.rs` | metadata files and objects on disk; one `SessionManager` per connection; session totals | `record_capture`, `process_capture_with_pipeline`, `resolve`, `update_session_totals`, backfills | one turn per exchange; the predicted sequence number is the stored one when it is used; totals only count turns that exist |
| Orphan recovery: `capture/recovery.rs` | the scan, the report | startup recovery, `reprocess` | every capture on disk gets its turn, none gets two; it ends |
| Recovery lock: `capture/recovery.rs` | the lock file's inode, flocks | `acquire_recovery_lock`, guard drop | one holder, visible at the path; every attempt returns |
| Write-ahead log: `wal/mod.rs` | `.wal` and `.wal.flushed` files; per connection a counter and a count | `open_with_mode`, `append_entry`, `mark_flushed` | an entry stays unflushed until its exchange is stored |
| Shutdown: `gateway/mod.rs`, `gateway/run_listener.rs` | `shutting_down`, `active_count` | `register_active`, `deregister_active`, `wait_for_drain` | no live connection is uncounted; the process ends |
| Attachments, object store: `storage/pipeline.rs`, `storage/object.rs`, `store/mod.rs`, `capture/attachments.rs` | objects shared by hash, attachment rows, `attachment_count`, temporary files | `put`, `write_attachment`, orphan clean-up, reconciliation | an object with a row is never deleted; no row without its object; count = rows |
| Deltas and drift: `drift/mod.rs`, `providers/anthropic.rs`, `gateway/capture_pipeline.rs` | recorded lengths, prompt and tools hashes of the session, anomaly events | `compute_true_delta`, `detect_drift_via_graph`, `detect_tool_drift_via_graph` | every message in one delta; no change of a baseline without its event |
| Connection: `gateway/run_listener.rs`, `gateway/connect.rs`, `gateway/intercept.rs` | bytes read, the request and the response at work, the capture buffer | first bytes, CONNECT, SNI, `read_http_request`, `stream_to_client_and_accumulate`, timeouts, upgrade | what the client got whole is captured once; an exchange ends |
| WebSocket, Codex: `websocket/mod.rs`, `providers/codex.rs`, `gateway/run_listener.rs` | message being assembled, turn being accumulated, requests it belongs to | `parse_frame`, `push`, `feed`, capture of a turn | messages whole and in order; each answer one turn; total = rows |
| TLS: `tls/mod.rs` | CA files with their lock, LRU of leaf certificates | `ensure_ca`, `CertCache::new`, `get_or_generate` | what is shown verifies against the CA on disk; one leaf per host |
| Terminal UI: `src/tui/src` | history, selection, filters, what each lens shows, channels | keys, polling tasks, `apply_update` | the screen comes to show what was asked for; the cursor stays on its turn |
| API: `src/api` | rate-limit windows, export schedules | `checkRateLimit`, evaluate | at most *limit* requests in a window |
| Parsers, metrics, health, alerts, operator, config, CLI, MCP, dashboard, deployment | none that others depend on | | |

How they interact: a connection task (spawned by the accept loop, counted by
the `ShutdownController`) takes a leaf certificate from the `CertCache`,
terminates TLS, forwards an exchange and, when it is complete, calls
`record_capture` (files) and then `process_capture_with_pipeline` (WAL append,
session resolution against the tables, `write_capture` with its attachments,
totals, drift, WAL mark). All of that is synchronous in the task; other
connections and other gateway processes run between any two of its file
operations and database statements. After a 101 the same task relays WebSocket
frames, and records Codex turns through the same pipeline. Startup recovery runs
the files through the same tables before the listener binds, and the `reprocess`
command does it from another process at any time. Recovery runs exclude each
other by the file lock. The terminal UI talks to the API only.

Hard behaviours: interleavings of writers between statements; commits whose
acknowledgement is lost; retries of what already happened; crashes at every
point and recovery from files; state that is read before a write and used
after it; locks made of paths that people delete; objects shared by hash and
removed when nobody seems to refer to them; counters kept in step by hand;
the end of a response or of a turn that has to be guessed from a stream;
answers that arrive after the question has changed. `PROJECT.json` lists each as
a hazard with its line and the properties that cover it.

## Modules

| Module | Models | Depends on |
|---|---|---|
| `TurnLog` | abstract: per session an append-only log, each turn at most once | |
| `TurnStore` | how turns are written, statement by statement, on SQLite or PostgreSQL | refines `TurnLog` |
| `Capture` | an exchange from the complete response to its turn, crash, recovery | uses the log that `TurnLog` promises |
| `Conversation` | one session: deltas, totals, backfills, drift | uses the same log |
| `Attachments` | objects, attachment rows, dead letters, clean-up, counts | after the turn row of `TurnStore` |
| `Wal` | the write-ahead log directory | |
| `RecoveryLock` | the lock file, system call by system call | |
| `Shutdown` | Ctrl+C, connection tasks, drain | |
| `Connection` | the task of a connection, from its first bytes to its end | EXTENDS `Relay` |
| `Relay` | the WebSocket relay: messages to turns | messages as `Frames` hands them on |
| `Frames` | bytes to WebSocket messages | |
| `Certificates` | CA files and leaf certificates | |
| `Tui` | the terminal UI and its polling tasks | |
| `Parts` | six components that share no state, of which one runs | EXTENDS `Attachments`, INSTANCEs of the others |
| `MC*` | the TLC instances | the module of their name |
| `TurnStoreProofs`, `ShutdownProofs`, `RecoveryLockProofs`, `AttachmentsProofs`, `CaptureProofs`, `ConnectionProofs` | theorems | the module of their name |
| `PartsProofs`, `ConversationProofs` | theorems about the components of `Parts` | `Parts` |

**TurnStore.** `seqOf[t]` is the `sequence_num` of the row of turn `t` (0: no
row), `sessions` and `toolRows` stand for the other tables, `holder` for the
database locks. A live writer goes through `WriteSession`, `BeginLocked`,
`ReadNextSeq`, `InsertTurn` or `InsertCollides`, `CommitTurn` or
`CommitUnacknowledged`, `WriteToolCalls`; `StatementFails` ends an attempt
anywhere, and `Crash` the writer. `AttemptFails` is the retry loop of
`write_capture`. A recovery writer does `RecoverReadMax` outside any
transaction and later `RecoverInsert` or `RecoverFails`. The backend is chosen
initially: with SQLite there is one lock, with PostgreSQL one for each
`hashtext(session_id)`, which may be the same for two sessions.

**Capture.** `meta` holds the exchanges whose files are on disk, `log` the
turns of each session (as `<<exchange, "live" | "recovered">>`, because the two
paths use different turn ids), `total` the `total_turns` column, `manager` each
connection's `SessionManager`. `RecordCapture`, `Resolve`, `WriteSessionRow`,
`AppendTurn`, `UpdateTotals` are the steps of the live path; `RefuseCapture` and
`WriteFails` its failures, the latter with or without a commit that reached the
server. `Crash`, `Boot`, `Probe`, `ReplayInsert`, `ReplayFails`, `ReplayTotals`
are recovery, `RejectFile` the files the scan refuses. The retries of
`write_graph` are inside `TurnStore` and one step here.

**Conversation.** What a capture does for its session beside the turn.
`Resolve` predicts the number of the turn, from the connection's own counter or
from the database, which may fail; `ReadPrefix` sums the recorded lengths and
`FirstNew` is `compute_true_delta` on lengths; `WriteTurn` inserts the session
row unless it is there; `Upkeep` is the totals and the columns filled in later;
`Compare`, `Tell` and `Move` are the three statements of drift detection, once
for the system prompt and once for the tools. Messages are numbers, a request a
sequence of them, so that a request can grow, shrink or be the quota probe. With
PostgreSQL the tools hash is neither written nor read.

**Attachments.** Each turn has a list of hashes (`BlobsOf`), shared between
turns, or `UrlOnly`. `PutFinds`, `PutCreates`, `PutRenames`, `PutUploads` and
`PutFails` are `ObjectStore::put` of the local store (a temporary file opened
with `create_new`, then a rename) and of S3; `Probe`, `LockBlob` and `CommitRow`
are the checked insert of PostgreSQL in the order of the code, `InsertPlain` the
one of SQLite; `DeadLetter` and `DeadLetterFails` what follows the last attempt;
`LockForDelete`, `CountReferences` and `DeleteObject` the removal of an
unreferenced object; `Reconcile` the correction of `attachment_count`, which the
trigger on `turns` refuses on PostgreSQL. `replayed` has the turns that a replay of
recovery writes: their objects are put before the turn row, once each, and a put that
fails is only logged (`NextPut`, `PutFails`); their rows are inserted plainly, on
PostgreSQL too (`Plain`). `unput` is the history of the attachments that went on
without an object.

**Wal.** `wal` and `flushed` map file names `<<seq, pid>>` to entries; each
connection opens a log of its own, with its own `next_seq` (its count of unflushed
entries, which nobody reads, is left out). `Seen` is
what its scan comes upon: with `ScanFails` any part of the files, as
`open_with_mode` takes a directory it cannot read for an empty one and leaves out
entries it cannot read. `acked` and `stored` are history: what the pipeline was told.
`exposed` has the entries whose file some other log of the process did not find,
as it was open already or as its scan overlooked it; nothing in the code protects them.

**RecoveryLock.** `path` is the inode the lock path names, `fd` what each process
has open, `flock` who holds each inode. Each system call of
`acquire_recovery_lock` is an action; `Deadline` is the 30 s clock, `Look` and
`Remove` the operator, who with `Atomic` removes only a file nobody holds. The
runbook asks for exactly that (`lsof`, then `rm`); that nobody locks the file
between the two is an assumption about the operator, not about the code.

**Shutdown.** `loop` is the accept loop and the drain, `conn` the life of each
connection. `EarlyReturn` stands for the returns before `deregister_active`.

**Connection.** `arrival` is what the client's first bytes and host are,
`task` the await the task is in. A response is counted in pieces, the first its
headers; `Whole` is the test for its end, with the last-chunk marker that can
turn up in the middle ("lookalike") and trailers it does not see. `Kept` drops
what exceeds the capture limit, `ReadFails` and `ConnectFails` lead to a 502 or,
once something has arrived, to a capture of the part. `stray` is what a read of
a chunked or oversized request leaves behind for the next one. `TotalTimeout`
ends the task without a capture. Each act of a peer is an action of its own.

**Relay.** The `select` loop of `websocket_relay`. `acc` is the
`CodexFrameAccumulator`, `Feed` its transition, `counted`, `initial` and `latest`
the request side; `WriteTurn`, `WriteTurnFails`, `UpdateTotals` are the calls to
the store. A write that fails may leave nothing, the session row without the turn
(`write_graph` commits them one after the other), or both without an answer;
`phantom` records that a session row counts a first turn which has no row. Other
providers record each message. The upstream answers in the order of the Codex
protocol, with `rate_limits` between two answers.

**Frames.** A stream is a sequence of frames of some sizes, positions are byte
counts. `Read` forwards any number of bytes, `ParseFrame` and `Push` are
`parse_frame` and `MessageAssembler::push`, `ParseStops` drops a residue above
the limit, after which `ParseGarbage` reads bytes in the middle of a frame as a
header. `ReadHeaders` is the read that may swallow frames with the 101.

**Certificates.** A CA file is named by the process that made it. `Check`,
`Lock`, `Write`, `RenameKey`, `RenameCert`, `Unlock`, `Clean`, `Wait` are
`ensure_ca`, `LoadCert` and `LoadKey` `CertCache::new`; `Connect`, `Generate` and
`InsertLeaf` are the two critical sections of `get_or_generate` and what is
between them. The comment at `tls/mod.rs:42` speaks of an error when only one of
the two files exists; the code generates both again, and so does `Check`.

**Tui.** Each polling task has a watch channel (`watch`), answers under way
(`coming`) and what its lens holds (`shown`), all represented by the variables
of the query. Keys are navigation, pins, filters, the four drills, search,
movement and quit; after each `Sent` writes all channels.

**Parts.** `part` chooses at the start which of six components runs
(`Attachments`, `Wal`, `Conversation`, `Frames`, `Certificates`, `Tui`). They
share no state, so that nothing is lost by not interleaving them; each is
explored in full, and its properties are those of its own module. `MCParts` is
its instance for TLC, and the theorems of `PartsProofs` and `ConversationProofs`
are about its specification for any constants.

## Runs

| Run | Question | Result |
|---|---|---|
| `turn_store` | Do writers, retries, lost acknowledgements, recovery and crashes keep the table an append-only log? | holds |
| `capture` | Does every exchange end, with at most one turn, and does a clean boot cover what is on disk? | holds |
| `connection` | Is what the client got whole captured once, each Codex answer one turn, the total the number of rows but for a first turn that failed, and does an exchange end? | holds |
| `parts` | Attachments of captures and replays, WAL (two connections, scans that fail), conversation, frames, certificates, terminal UI: do their properties hold? | holds |
| `shutdown` | Does Ctrl+C end the process, and never under a connection after a clean drain? | holds |
| `recovery_lock` | One recovery at a time, visible at the path, and does every attempt end? | holds |
| `shutdown_drain` | Does the drain time out only on connections that exist (`gateway/mod.rs:230`)? | violated |
| `wal_collision` | Does the log keep entries with two connections open at once (`wal/mod.rs:126`)? | violated |
| `capture_reprocess` | Does the recovery lock keep `reprocess` from racing the live insert (`capture/recovery.rs:32`)? | violated |
| `capture_upgrade` | Does a WebSocket handshake stay out of the tables (`run_listener.rs:1115`)? | violated |
| `attachments_dangling` | Does PostgreSQL refuse a row without its object (`storage/graph.rs:518`)? | violated |
| `attachments_tempfile` | Are the bytes of a captured row stored before it (`storage/graph.rs:489`)? | violated |

The six violations are disagreements between a comment and the code, each
quoted in `PROJECT.json` under `findings`:

- *Drain.* Eleven paths of the connection task return before `deregister_active`,
  so after one probe of `/healthz` the gateway waits 120 s at Ctrl+C.
- *WAL names.* `run_listener.rs:1036` opens a `Wal` per connection. Two that are
  open at once scan to the same number and have the same pid, so one's append
  replaces the other's entry or its mark hides it. The `Concurrency assumption`
  of `wal/mod.rs` speaks of several processes; one is enough.
- *Reprocess.* The lock serialises recovery runs with each other only. A
  `reprocess` that probes while a capture has written its files and not yet its
  turn inserts a second turn of that exchange, as the ids differ.
- *Handshake.* `record_capture` writes the same metadata file for a 101 as for
  any capture, and the next boot replays it.
- *Dangling row.* The PostgreSQL store evaluates `blob_exists` before it takes the
  advisory lock, though its comment and the trait's ask for the opposite. An
  orphan delete that holds the lock in between removes the object, and the
  insert commits a row without it.
- *Temporary file.* The local store answers Ok when the temporary file of a content is
  there, also when the writer that made it has died. SQLite never looks at the object
  again, so the row is committed without its bytes having been stored.

Other departures met while modelling are kept as exceptions in the properties, where
their comments say so:

- `wal/mod.rs:163` takes a directory that cannot be read for an empty one, numbers
  start from 1 again, and an append replaces the file of an earlier run whose
  process id came back (`exposed` in `Wal`);
- the session row of a relay says `turns_captured` 1, is committed before the turn,
  and stays when the turn is not stored by any attempt (`phantom` in `Relay`);
- a replay inserts attachment rows without the lock of the orphan delete, so that on
  PostgreSQL a row comes between the count and the delete (`ReferencedObjectsKept`),
  though `storage/graph.rs:581` asks for the opposite;
- the PostgreSQL `INSERT INTO sessions` and `get_session` leave
  `tool_definitions_hash` out, so that no change of the tools is ever told there
  (`SessionAgrees`);
- a process that starts at the same time as another can replace the CA the other has
  loaded (`late` in `Certificates`), as the files are not looked at again under
  `.ca.lock`;
- a replay whose put fails writes its row all the same (`RowsHadTheirObject`);
- a request as long as what was recorded has an empty delta even if its last message
  was edited (`EveryMessageOnce`);
- a refresh under a search filter moves the cursor (`RefreshKeepsTurn`);
- an exchange cut by the total timeout is not captured, and neither is one whose
  request line comes after a stray CR LF (`AnsweredIsCaptured`).

### What the properties of the newer runs say

- `RowsHadTheirObject`, `ReferencedObjectsKept`, `CountIsTrue`, `CapturesEnd`: an
  object with a row is never removed, unless on PostgreSQL only replays wrote such
  rows; a row names an object that was in the store at some time, but for the puts of
  a replay that failed and, on SQLite, the puts that were content with a temporary
  file, a captured row of PostgreSQL always; `attachment_count` is never too low, and exact when its correction
  worked; every capture ends.
- `EveryMessageOnce`: the deltas of a growing conversation, joined, are its last
  request, on several connections and with failing captures. `SessionAgrees`: totals,
  filled columns and events are what the turns imply. `DriftIsTold`: a baseline
  never moves without an event.
- `CapturedExactly`: exactly the complete messages within the limit, whole and in
  order, for any cut of the stream into reads.
- `AnsweredIsCaptured`, `AnswersRecordedOnce`, `ExchangeEnds`: see the table.
  `TotalIsRows`: the total of a WebSocket session counts its rows and at most one turn
  more, the first, when only its session row was committed.
- `NothingBuried`, `EntriesSurvive`: an entry that every log of its process knows of is
  neither hidden nor replaced before, or after, its exchange is stored. For the other
  entries (`exposed`) nothing holds, which `wal_collision` shows with `OrphansKept`, the
  same statement for all entries.
- `ChainsVerify`, `OneLeafKept`: a client that trusts `ca.crt` accepts what it is
  shown, and threads that generate at the same time use one leaf.
- `Settles`, `RefreshKeepsTurn`: the screen comes to show what its present
  variables ask for, and a refresh does not move the cursor to another turn.

### Bounds and why they are enough

- `turn_store`: two live writers and one recovery writer in one session, three
  attempts (the code's number), two recovery runs. Conflicts are between two
  writers of a session: live/live and live/recovery both occur. More writers,
  more sessions and colliding lock keys are covered by the proofs.
- `shutdown`: three connections: one counted and gone, one alive, one arriving.
- `capture`: two exchanges of one session, on one or two connections, and a
  handshake in another session; one crash. `Overlap = FALSE` keeps `reprocess`
  to times when no live capture is in progress, because with it the run finds
  only what `capture_reprocess` (`Overlap = TRUE`) shows. Two exchanges are the
  least with which a predicted number can be stale and a total can be wrong; a
  second crash repeats the first, because a crash forgets everything but files
  and tables. The proofs cover any number of either.
- `recovery_lock`: three processes and four inodes, one for each process and one
  for the path, so that numbers are reused.
- `connection`: two requests (`MaxRequests`), so that one can leave a rest for the
  next; responses of up to three pieces of which two are kept (`MaxPieces`,
  `MaxResponse`), so that a piece can be the first, fit and exceed; only the first
  request may end in a relay (`MaxUpgrade`). In the relay two messages of the
  client, one item and one further frame in an answer, one delta kept (`MaxSaid`,
  `MaxItems`, `MaxNotes`, `MaxText`): an answer can be long or short of the limit,
  and a frame can come between two answers.
- `parts`, attachments: two turns that share a hash, one with a remote image too;
  two attempts; each turn may be captured or replayed. The races are between one that
  inserts and one that removes.
- `parts`, WAL: two exchanges with two entries each, two connections with logs open at
  once, scans that find any part of the files, and restarts under the process id that
  came back, as in a container, the case in which names repeat (`Pid`). An entry is
  replaced or marked by one other log, whose number is below what it should be by any
  amount. `wal_collision` has two process ids and scans that find everything, so that it
  shows what two open connections do by themselves.
- `parts`, conversation: three captures (a probe or a first request, then requests
  that grow, shrink and change their prompts), two connections, one failing
  statement.
- `parts`, frames: three frames of two sizes, reads of at most 2, a residue of 2, a
  message of 4: a frame can be cut by a read, be longer than the residue that is
  kept, and make a message exceed its limit. One frame read from misplaced bytes.
- `parts`, certificates: two processes, two threads of one of them, one host, a
  clock of four units with a cached age of two and a validity of four.
- `parts`, terminal UI: two sessions, one with two turns of which one matches a
  search; three of the polling tasks (session details, turn details, cost
  breakdown), two answers under way each, three keys, one failing answer. A misplaced answer needs a drill, a
  move away and the answer.

`turn_store`, `connection`, `parts` and the two `shutdown` runs do not check
deadlock: their writers, connections and clients are finite and the system comes
to rest. The violation runs of `capture` and of the attachments bound crashes and
captures and come to rest as well. In `wal_collision` a restart is always possible.

### Fairness

- `TurnStore`: weak fairness of each writer. The call is polled by tokio until
  it returns, and a statement ends with a result, an error or a lost connection.
  None of a crash.
- `Shutdown`: the listener reads the flag at the top of its loop and every
  100 ms, and the drain's deadline passes. None of clients or tasks: a tunnel may
  stay open for ever.
- `Capture`: each capture and the recovery run are synchronous calls. None of
  crashes, boots or the operator.
- `RecoveryLock`: the acquisition is a synchronous loop with a deadline, and time
  passes. None of holders: a recovery may hold the lock for ever.
- `Connection`: weak fairness of `TaskStep`, all that the task does by itself, as
  each of its awaits up to the end of an exchange has a timeout. None of the
  client, of the upstream, of a tunnel that is passed through or of the relay,
  which have no timeout.
- `Attachments`: each capture is a synchronous call whose statements and requests
  return.
- `Tui`: each polling task ticks and its request ends (`Ask`), and the loop takes
  what is in the update channel every 100 ms (`Apply`). None of keys or failures.
- `Wal`, `Conversation`, `Frames`, `Certificates` have no liveness property.

## Proofs

All theorems hold for every value of the constants that satisfies the modules'
named assumptions.

**TurnStoreProofs.** For any sets of writers and sessions, any number of retries
and any hash function: `TypeOK`, `SlotUnique`, `GapFree`, `LiveNeverCollide`,
`OkMeansPersisted`, `RowsImmutable` and `ImplementsTurnLog`. None of them is
inductive. `IInv` adds that a writer in a transaction holds its lock
(`Exclusive`), that a
slot a writer has read is one above a committed number (`Ranked`), that the slot
of a live writer's uncommitted row is taken by nobody else (`Reserved`), and that
the numbers of a session form
an initial segment (`Segment`), from which gap-freedom and the refinement's
append follow. `RecoverySteps` says at which steps a recovery writer can be. For
the refinement, a commit of a new row maps to `TurnLog!AppendTurn` and every
other step to a stutter.

**ShutdownProofs.** For any finite set of connections: `TypeOK`,
`ActiveCoversLive`, `CleanExitCutsNothing`. The count is above the live tasks
and at most the accepted connections (`CountedAccepted`); once drained, with
count zero, no task is left and no new one comes (`NoneLeft`); a cut connection
implies an exit after a timeout (`CutEarly`). Only `Deregister` needs care: the
set of live tasks loses one element.

**RecoveryLockProofs.** For any processes and inodes, assuming `Atomic`:
`TypeOK`, `HolderIsVisible`, `MutualExclusion`. The key is that a locked file is
open, that the file the holder checked is still the one at the path because only
an unheld path is removed, and that an open file's inode number is not reused
(`Opened`, `Locked`). Two holders would both have the path's inode locked.

**AttachmentsProofs.** For any turns, contents, attempts, stores and backends:
`TypeOK`, `RowsHadTheirObject`, `ReferencedObjectsKept` and `CountIsTrue`, with any of
the turns written by replays. Who counts
references, deletes or commits a checked row holds the lock of the hash
(`Holding`); with it, a count of zero is still true at the delete (`Unreferred`),
since a row of that hash can only be written by a holder, or by a replay on
PostgreSQL. A row is written after
its capture was told of the object, which was true at some time (`Told`), or the
attachment is in `unput`. For the
count, what a capture was told was persisted is never more than the rows it has,
and exactly these on SQLite, where alone the count is corrected (`Truthful`).

**CaptureProofs.** For any exchanges, connections, sessions and number of crashes:
`TypeOK` and `CleanBootCoversDisk`; assuming in addition that `reprocess` keeps
away from captures at work (`~Overlap`), `OneTurnPerExchange`; and for a finite set of
exchanges `TotalsNeverInvented`. `Covered` says that a file leaves the scan of a
boot only with a turn of its request or an entry among the failures. `ApartInv`
says that recovery runs beside captures that have ended only (`Still`), so that
what the probe did not find is still absent at the insert (`Fresh`), and that a
row has one place (`Unique`); the first two are a theorem of their own, `ProbeStaysTrue`.
`TotalsInv` is an accounting: a session's total, what a replay is about to add
to it and the captures that may still do so are together at most its turns and
the captures that have not succeeded (`Paid`).

`ResolvedIsAssigned` holds with and without `Overlap`: a connection has one capture
at work (`Sole`); its `SessionManager` knows a session only from a capture over it
(`Owner`); and in a session that one connection uses, without a failure, a crash
or a replay (`Quiet`, which once lost does not come back), the manager stands at the
last row between two captures and at the next one during a capture (`Numbering`).

`UsesTurnLog` is a refinement: `Capture` under `log` as it is implements `TurnLog`, with
`<<exchange, "live">>` and `<<exchange, "recovered">>` as its turns, since rows are only
appended, and each once (`LiveRows`). `TurnStore` implements the same module, so
that what `Capture` assumes of the tables is what the writers provide.

**ConnectionProofs.** For any number of requests, pieces, messages and any limits:
`TotalIsRows`, `AnsweredIsCaptured`, `AnswersRecordedOnce` and the types (`Typed`,
`RelayTyped`). For the first, an
update of the total is preceded by its row, and the session row itself can count one turn
without a row (`Booked`), and the relay runs in its
step of the task only (`InTask`). For the second, a request that is read has a
number above those of all captures and answers (`Numbered`), an exchange that goes
to its end without a capture was not answered (`Unanswered`), and a first capture
under a number is the only one (`FirstCapture`); probes never get past the first
bytes (`Served`). For the third, texts come in the order of the requests and of the
items of an answer (`Below`): what was recorded lies before the item under way, and
none of it is still gathered in the accumulator (`Listening`), so that the next
turn begins with new texts; and a message of the client is counted for one turn
(`CountedOnce`). `RelayAssumption` says that `None` is neither a text nor a message.

**PartsProofs.** About `PartsSpec`, that is, each component as it runs there.

- *Log* (`NothingBuried`, `EntriesSurvive`, for any number of connections open at once
  and scans that overlook any files). Neither is inductive. Call an entry safe when it is
  not `exposed`, that is, when every log of its process knows of it. The number that each
  open connection goes on with is above those of the safe entries of its process id
  (`Fits`); what a capture is about to mark is its own entry if it is a safe one
  (`Owned`); and a file with a safe entry is flushed or not (`Apart`). Numbers stay
  below twice the captured exchanges (`Enough`), so that a scan of the directory has a
  greatest one. `LogTyped` states that bound and the types.
- *Certificates* (`ChainsVerify`, `OneLeafKept`). Who makes a CA holds `.ca.lock`, and
  the temporary files are then its own (`Locked`); unless a process came late, the
  key at the path is that of the certificate, and who has loaded a certificate has
  loaded its key (`OneMaker`, `InTime`). For leaves: the cache has one entry per host,
  with the time of its leaf (`OnePerHost`, `Stamped`), and with room for all
  hosts what a thread serves is still in it (`Given`). `MaxAge <= Validity` is the
  code's 12 and 24 hours. Three more results, which no run checks, come from the same
  invariants: one process makes the CA at a time (`MakersExclude`), whichever
  processes die and whenever the operator removes the lock file of a dead one; a complete CA keeps its key and its
  certificate unless a process came late (`CaIsKept`, an action property); and no
  cache has more entries than its capacity, or two for one host (`CacheBounded`).
- *Frames* (`CapturedExactly`). A continuation in the stream always goes on with a
  message that has begun, by the order in which the peer sends (`Sent`). While no
  frame came with the headers and none exceeds the residue that is kept, the
  stream is parsed up to the end of a frame, as a residue is then less than a frame
  and is not dropped (`Aligned`). The messages up to there are handed on (`Exact`), and the
  assembler has the fragments of the one under way, or has given it up and it is too
  long already (`Gathered`), so that later fragments of it, which find no message to
  go on with, are rightly dropped. `EndOf`, `DataTo` and `SizeOf` are recursive
  functions; `EndOfFacts`, `DataToFacts` and `SizeOfAppend` give their equations.
- *Terminal UI* (`RefreshKeepsTurn`): an answer that refreshes a session finds the
  selected turn in its list, as every task has its lens (`AllShown`).

**ConversationProofs.** For any requests, connections and failures:

- types (`ConTypes`): in particular a capture past the writing of its turn finds the
  row of its session.
- `DriftIsTold`: a capture moves a baseline only after its event (`Telling`).
- `EveryMessageOnce`: while captures do not overlap (`Alone`), the connection of the
  last capture knows the number of the last turn (`Knows`), so that the lengths a
  capture adds up are those of all turns (`IsAhead`) and its delta starts where the
  last request ended (`Cuts`); hence the deltas, joined, are the last request (`Whole`).
  `Lengths` and `Joins` are recursive functions: `LengthsUnfold` and `JoinsUnfold`
  give their equations, from the existence of such functions (`IterationExists` in
  `PartsProofs`, by a least counterexample).
- `SessionAgrees`: while nothing fails either, the row agrees with all turns
  between captures (`Rest`), and during one with the turns and the columns it has dealt
  with (`Counted`, `Compared`, `Reported` under `During`).

The assumptions in `Parts` are about values: `None` is none of the others, a
request has a hash of each column (that of a sentinel when it has no prompt or no
tools), sets of exchanges and hosts are finite, the leaf cache has room for a leaf, a
frame has at least one byte.

Only model-checked:

- liveness (`EveryWriteEnds`, `SignalLeadsToExit`, `EveryExchangeEnds`, `BootEnds`,
  `AcquireEnds`, `CapturesEnd`, `ExchangeEnds`, `Settles`), which is out of the prover's
  reach;
- the properties of the runs that expect a violation, which do not hold.

## What the models leave out

- In `Capture` the session id is a function of the exchange. Sessions whose first
  message is only preamble get a random id, another one in `tentative_session_id`
  than in `resolve`; for them every turn starts a session.
- In `Capture` an object write, and in `Wal` an append, is one atomic step. The
  temporary file of an object is in `Attachments`; that of the WAL is not
  modelled, and neither is a WAL that fails to open.
- `Wal::flush` has no caller outside tests: nothing reads the log back. The
  properties say what a reader could rely on.
- Nobody reads the dead-letter files either; a dead-lettered capture comes back by
  its metadata file.
- A task's panic, which also skips `deregister_active`, is not modelled apart.
- In `Capture` a crash stops the machine, and with it a running `reprocess`.
- The attachments of a turn are a given list: the extraction from a request, the
  download of remote images and the attachments of Codex turns are left out. Compression and verification of objects as well.
- In `Relay` the contents of a turn are its texts; token estimates, tool calls and the
  columns that later Codex turns fill in are not modelled.
- In `Conversation` one session is modelled, and its supersession by another is not.
- In `Frames` a peer keeps to RFC 6455; masks are not modelled, as they change no
  length.
- In `Certificates` a certificate is its maker and its time. The trust stores of the
  system are left out.
- In `Tui` the rows of a lens other than the list of turns, the drawing and the
  parser of the command palette.
- Parsers and streams (`providers`, `stream`, `artifacts`) translate JSON field by
  field: no control state for a model. Metrics, health, alerts, configuration, CLI
  and deployment keep no state others depend on. The API, the MCP server and the
  dashboard query the tables; the API's rate limiter and its schedules are short
  sequential functions of one process. `RollingUpgrade` of the operator is a
  linear state machine that nothing drives.
- The comment at `storage/pipeline.rs:144` that sequence collisions are
  structurally impossible holds between live writers only
  (`LiveNeverCollide`); `InsertCollides` is a live writer that lost to recovery.

## Plan

Order of the whole project, the most important behaviour first. Done: 1 to 12.

1. `TurnStore` with `TurnLog`, proofs.
2. `Shutdown`, proofs.
3. `Wal`.
4. `Capture`, recovery, proofs of its safety.
5. `RecoveryLock`, proofs.
6. `Attachments` with the object store, proofs.
7. `Frames` and `Relay`: WebSocket messages and Codex turns.
8. `Conversation`: deltas, session upkeep, drift.
9. `Certificates`, `Tui`.
10. `Connection`: the task around `Relay`; proofs of its captures and totals.
11. Proofs of the numbers of `Capture`, of its use of `TurnLog`, of `CountIsTrue`,
    of the answers of `Relay`, and of `Wal`, `Conversation`, `Certificates` and `Tui`.
12. Proof of `CapturedExactly`.
13. Left: `RateLimit` of the API, the sliding window and its clean-up against a
    counting definition; the tool calls of a replay.
