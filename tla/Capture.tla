------------------------------ MODULE Capture ------------------------------
(***************************************************************************)
(* The life of an exchange, from the moment its response is complete:      *)
(* record_capture on disk, process_capture_with_pipeline (session          *)
(* resolution, write_capture, session totals), the dead-letter queue, a    *)
(* crash at any point, and orphan recovery at the next boot or from the    *)
(* `reprocess` command beside the running gateway.  With Overlap = FALSE   *)
(* the operator runs that command only while the gateway has nothing to    *)
(* capture, with Overlap = TRUE at any time; the code does not tell.       *)
(*                                                                         *)
(* The turns table is the append-only log of TurnLog, which TurnStore      *)
(* implements; the retries inside write_graph are there and not here.      *)
(***************************************************************************)
EXTENDS Naturals, Sequences, FiniteSets

CONSTANTS
    Exchange,   \* request/response pairs worth capturing
    Conn,       \* connections, each with its own SessionManager
    Session,
    SessionOf,  \* session id derived from each exchange
    RequestOf,  \* request_hash of each exchange: a repeated request repeats it
    Upgrade,    \* WebSocket handshakes: captured on disk only
    Overlap,    \* bound: whether `reprocess` and live captures overlap
    MaxCrashes, \* bound: crashes of the gateway
    None

ASSUME CaptureAssumption ==
    /\ SessionOf \in [Exchange -> Session]
    /\ Upgrade \subseteq Exchange
    /\ Overlap \in BOOLEAN
    /\ MaxCrashes \in Nat
    /\ None \notin Session \cup Exchange \cup Conn \cup Nat

VARIABLES
    gateway,    \* "down", "booting" (startup recovery) or "serving"
    crashes,
    meta,       \* exchanges with objects and metadata file on disk
    log,        \* rows of the turns table of each session, by sequence_num
    total,      \* sessions.total_turns, None while there is no session row
    via,        \* connection each exchange came over
    blind,      \* exchanges whose query for the session's turns failed
    manager,    \* SessionManager of each connection: session and sequence
    pc,         \* step each exchange is at
    seq,        \* resolution.sequence_num of each exchange
    is_new,     \* resolution.is_new_session of each exchange
    scan,       \* metadata files a recovery run has still to look at
    orphan,     \* the orphan it is replaying
    replay_new, \* is_new_session of that replay
    replay_pc,  \* "off", "probe", "insert" or "totals"
    clean       \* history: no failure in the report of startup recovery

live == << via, blind, manager, pc, seq, is_new >>
recovery == << scan, orphan, replay_new, replay_pc, clean >>
vars == << gateway, crashes, meta, log, total, live, recovery >>

Row == Exchange \X {"live", "recovered"}
Ended == {"done", "refused", "dead", "crashed"}
Step == {"new", "recorded", "resolved", "session", "written"} \cup Ended

RowsOf(s) == {log[s][i] : i \in 1 .. Len(log[s])}
HasRow(x) == \E row \in RowsOf(SessionOf[x]) : row[1] = x

\* Position of the live row of x in its session, 0 when it has none.
SlotOf(x) == LET s == SessionOf[x] IN
    IF << x, "live" >> \in RowsOf(s)
    THEN CHOOSE i \in 1 .. Len(log[s]) : log[s][i] = << x, "live" >>
    ELSE 0

NoManager == [session |-> None, seq |-> 0]

Init ==
    /\ gateway = "serving"
    /\ crashes = 0
    /\ meta = {}
    /\ log = [s \in Session |-> << >>]
    /\ total = [s \in Session |-> None]
    /\ via = [x \in Exchange |-> None] /\ blind = {}
    /\ manager = [c \in Conn |-> NoManager]
    /\ pc = [x \in Exchange |-> "new"]
    /\ seq = [x \in Exchange |-> 0]
    /\ is_new = [x \in Exchange |-> FALSE]
    /\ scan = {} /\ orphan = None /\ replay_new = FALSE
    /\ replay_pc = "off" /\ clean = TRUE

-----------------------------------------------------------------------------
(* A live capture.                                                         *)

Goto(x, step) == pc' = [pc EXCEPT ![x] = step]

\* The capture ends and its resolution is forgotten.
EndAt(x, step) ==
    /\ Goto(x, step)
    /\ seq' = [seq EXCEPT ![x] = 0]
    /\ is_new' = [is_new EXCEPT ![x] = FALSE]

Busy(c) == \E x \in Exchange : via[x] = c /\ pc[x] \notin {"new"} \cup Ended

\* record_capture: objects, then the metadata file.  Its error is only logged,
\* and a handshake goes no further.
RecordCapture(x, c, ok) ==
    /\ gateway = "serving"
    /\ pc[x] = "new"
    /\ ~Busy(c)
    /\ Overlap \/ replay_pc = "off"
    /\ via' = [via EXCEPT ![x] = c]
    /\ meta' = IF ok THEN meta \cup {x} ELSE meta
    /\ Goto(x, IF x \in Upgrade THEN "done" ELSE "recorded")
    /\ UNCHANGED << gateway, crashes, log, total, blind, manager, seq, is_new, recovery >>

\* A size guard, the closed-mode WAL or a failing step before write_capture
\* ends the capture with an error and no dead letter.
RefuseCapture(x) ==
    /\ pc[x] = "recorded"
    /\ EndAt(x, "refused")
    /\ UNCHANGED << gateway, crashes, meta, log, total, via, blind, manager, recovery >>

\* Mutant of Resolve: the first capture of a connection starts at 1.
ResolveFromOne(x, readable) ==
    LET c == via[x]
        s == SessionOf[x]
        known == manager[c].session = s
        n == IF known THEN manager[c].seq + 1 ELSE 1
    IN  /\ pc[x] = "recorded"
        /\ manager' = [manager EXCEPT ![c] = [session |-> s, seq |-> n]]
        /\ seq' = [seq EXCEPT ![x] = n]
        /\ is_new' = [is_new EXCEPT ![x] = ~known]
        /\ blind' = blind
        /\ Goto(x, "resolved")
        /\ UNCHANGED << gateway, crashes, meta, log, total, via, recovery >>

\* get_max_sequence_from_graph (None for no turns, and for a failing query)
\* and SessionManager::resolve.
Resolve(x, readable) ==
    LET c == via[x]
        s == SessionOf[x]
        max == IF readable THEN Len(log[s]) ELSE 0
        known == manager[c].session = s
        n == IF known THEN manager[c].seq + 1 ELSE max + 1
    IN  /\ pc[x] = "recorded"
        /\ readable \/ log[s] # << >>
        /\ manager' = [manager EXCEPT ![c] = [session |-> s, seq |-> n]]
        /\ seq' = [seq EXCEPT ![x] = n]
        /\ is_new' = [is_new EXCEPT ![x] = ~known /\ max = 0]
        /\ blind' = IF readable THEN blind ELSE blind \cup {x}
        /\ Goto(x, "resolved")
        /\ UNCHANGED << gateway, crashes, meta, log, total, via, recovery >>

\* write_session with total_turns 1 for a new session and 0 otherwise; an
\* existing row is left as it is.
WriteSessionRow(x) ==
    /\ pc[x] = "resolved"
    /\ total' = [total EXCEPT ![SessionOf[x]] =
                    IF @ # None THEN @ ELSE IF is_new[x] THEN 1 ELSE 0]
    /\ Goto(x, "session")
    /\ UNCHANGED << gateway, crashes, meta, log, via, blind, manager, seq, is_new, recovery >>

AppendLive(x) == log' = [log EXCEPT ![SessionOf[x]] = Append(@, << x, "live" >>)]

\* write_turn_atomic_seq commits: TurnLog!AppendTurn, at the end of the log
\* whatever resolution.sequence_num says.
AppendTurn(x) ==
    /\ pc[x] = "session"
    /\ AppendLive(x)
    /\ Goto(x, "written")
    /\ UNCHANGED << gateway, crashes, meta, total, via, blind, manager, seq, is_new, recovery >>

\* Mutant of WriteFails: the capture starts over after its last attempt.
WriteFailsAndRestarts(x) ==
    /\ pc[x] \in {"resolved", "session"}
    /\ UNCHANGED log
    /\ Goto(x, "resolved")
    /\ UNCHANGED << gateway, crashes, meta, total, via, blind, manager, seq, is_new, recovery >>

\* An object put fails, or all attempts of write_graph do; the last commit may
\* have reached the server unacknowledged.  The dead-letter queue, which no
\* code reads, gets the capture unless its own write fails.
WriteFails(x) ==
    /\ pc[x] \in {"resolved", "session"}
    /\ UNCHANGED log \/ (pc[x] = "session" /\ AppendLive(x))
    /\ EndAt(x, "dead")
    /\ UNCHANGED << gateway, crashes, meta, total, via, blind, manager, recovery >>

\* Mutant of UpdateTotals: a new session is incremented too.
UpdateAllTotals(x, ok) ==
    /\ pc[x] = "written"
    /\ total' = [total EXCEPT ![SessionOf[x]] = IF ok THEN @ + 1 ELSE @]
    /\ EndAt(x, "done")
    /\ UNCHANGED << gateway, crashes, meta, log, via, blind, manager, recovery >>

\* After write_capture: update_session_totals, unless the session is new; a
\* failure is logged and the total stays behind.
UpdateTotals(x, ok) ==
    /\ pc[x] = "written"
    /\ total' = [total EXCEPT ![SessionOf[x]] = IF ok /\ ~is_new[x] THEN @ + 1 ELSE @]
    /\ EndAt(x, "done")
    /\ UNCHANGED << gateway, crashes, meta, log, via, blind, manager, recovery >>

-----------------------------------------------------------------------------
(* Crash and boot.                                                         *)

\* The machine stops: connections, captures in progress and a recovery run
\* are gone, files and tables stay.
Crash ==
    /\ gateway # "down"
    /\ crashes < MaxCrashes
    /\ crashes' = crashes + 1
    /\ gateway' = "down"
    /\ manager' = [c \in Conn |-> NoManager]
    /\ pc' = [x \in Exchange |-> IF pc[x] \in {"new"} \cup Ended THEN pc[x] ELSE "crashed"]
    /\ seq' = [x \in Exchange |-> 0]
    /\ is_new' = [x \in Exchange |-> FALSE]
    /\ scan' = {} /\ orphan' = None /\ replay_new' = FALSE
    /\ replay_pc' = "off" /\ clean' = TRUE
    /\ UNCHANGED << meta, log, total, via, blind >>

StartRecovery ==
    /\ scan' = meta
    /\ replay_pc' = "probe"
    /\ clean' = TRUE
    /\ UNCHANGED << crashes, meta, log, total, live, orphan, replay_new >>

\* run_startup_recovery, before the listener binds.
Boot ==
    /\ gateway = "down"
    /\ gateway' = "booting"
    /\ StartRecovery

\* Startup goes on without recovery when the lock cannot be taken.
BootWithoutRecovery ==
    /\ gateway = "down"
    /\ gateway' = "serving"
    /\ UNCHANGED << crashes, meta, log, total, live, recovery >>

\* cmd_reprocess, in a process of its own; Crash stops the machine and with
\* it this process too.
StartReprocess ==
    /\ gateway = "serving" /\ replay_pc = "off"
    /\ Overlap \/ \A c \in Conn : ~Busy(c)
    /\ StartRecovery
    /\ UNCHANGED gateway

\* The recovery run ends; at boot the gateway then serves.
EndRecovery ==
    /\ gateway' = "serving"
    /\ scan' = {} /\ replay_pc' = "off" /\ clean' = TRUE
    /\ UNCHANGED << crashes, meta, log, total, live, orphan, replay_new >>

FinishRecovery ==
    /\ replay_pc = "probe" /\ scan = {}
    /\ EndRecovery

\* A failing probe query aborts the whole run.
AbortRecovery ==
    /\ replay_pc = "probe" /\ scan # {}
    /\ EndRecovery

-----------------------------------------------------------------------------
(* One orphan.                                                             *)

\* Mutant of Known: looks at sessions instead of requests.
SessionKnown(x) == total[SessionOf[x]] # None

\* Mutant of Known: no probe, the turn id alone guards the insert.
NeverKnown(x) == FALSE

\* find_turn_by_request_hash: any turn of any session with the same request.
Known(x) == \E y \in Exchange : RequestOf[y] = RequestOf[x] /\ HasRow(y)

\* An entry of report.failed.
Failed == clean' = (clean /\ gateway # "booting")

\* The file cannot be read, or validate_capture_record refuses what it says.
RejectFile(x) ==
    /\ replay_pc = "probe" /\ x \in scan
    /\ scan' = scan \ {x}
    /\ Failed
    /\ UNCHANGED << gateway, crashes, meta, log, total, live, orphan, replay_new, replay_pc >>

\* The probe and, for an orphan, get_turns_for_session.
Probe(x) ==
    /\ replay_pc = "probe" /\ x \in scan
    /\ scan' = scan \ {x}
    /\ IF Known(x)
       THEN UNCHANGED << orphan, replay_new, replay_pc >>
       ELSE /\ orphan' = x
            /\ replay_new' = (log[SessionOf[x]] = << >>)
            /\ replay_pc' = "insert"
    /\ UNCHANGED << gateway, crashes, meta, log, total, live, clean >>

\* On to the next metadata file.
NextFile ==
    /\ replay_pc' = "probe"
    /\ orphan' = None /\ replay_new' = FALSE

SessionRowExists(s) == total' = [total EXCEPT ![s] = IF @ = None THEN 1 ELSE @]

ToTotals == replay_pc' = "totals" /\ UNCHANGED << orphan, replay_new >>

\* Totals are updated only for a session that had turns before.
AfterInsert == IF replay_new THEN NextFile ELSE ToTotals

\* write_session and write_turn with id = record.uuid; a row of an earlier run
\* with that id makes the insert a no-op.
ReplayInsert ==
    /\ replay_pc = "insert"
    /\ LET s == SessionOf[orphan]
           row == << orphan, "recovered" >>
       IN  /\ SessionRowExists(s)
           /\ log' = [log EXCEPT ![s] = IF row \in RowsOf(s) THEN @ ELSE Append(@, row)]
    /\ AfterInsert
    /\ UNCHANGED << gateway, crashes, meta, live, scan, clean >>

\* Mutant of ReplayFails: the orphan goes back to the files to scan.
ReplayFailsAndRescans ==
    /\ replay_pc = "insert"
    /\ NextFile
    /\ scan' = scan \cup {orphan}
    /\ Failed
    /\ UNCHANGED << gateway, crashes, meta, log, total, live >>

\* Verification, the database or a lost slot makes the replay fail: it is
\* listed in report.failed, and the session row may have been written.
ReplayFails ==
    /\ replay_pc = "insert"
    /\ UNCHANGED total \/ SessionRowExists(SessionOf[orphan])
    /\ NextFile
    /\ Failed
    /\ UNCHANGED << gateway, crashes, meta, log, live, scan >>

ReplayTotals(ok) ==
    /\ replay_pc = "totals"
    /\ total' = [total EXCEPT ![SessionOf[orphan]] = IF ok THEN @ + 1 ELSE @]
    /\ NextFile
    /\ UNCHANGED << gateway, crashes, meta, log, live, scan, clean >>

-----------------------------------------------------------------------------
Process(x) ==
    \/ RefuseCapture(x)
    \/ \E readable \in BOOLEAN : Resolve(x, readable)
    \/ WriteSessionRow(x)
    \/ AppendTurn(x)
    \/ WriteFails(x)
    \/ \E ok \in BOOLEAN : UpdateTotals(x, ok)

Recover ==
    \/ \E x \in Exchange : RejectFile(x) \/ Probe(x)
    \/ ReplayInsert
    \/ ReplayFails
    \/ \E ok \in BOOLEAN : ReplayTotals(ok)
    \/ FinishRecovery
    \/ AbortRecovery

Next ==
    \/ \E x \in Exchange, c \in Conn, ok \in BOOLEAN : RecordCapture(x, c, ok)
    \/ \E x \in Exchange : Process(x)
    \/ Recover
    \/ Crash \/ Boot \/ BootWithoutRecovery \/ StartReprocess

Spec == Init /\ [][Next]_vars

\* process_capture_with_pipeline and recover_orphan_captures are synchronous
\* calls: each runs until it returns.
FairSpec ==
    /\ Spec
    /\ \A x \in Exchange : WF_vars(Process(x))
    /\ WF_vars(Recover)
-----------------------------------------------------------------------------
(* Properties.                                                             *)

TypeOK ==
    /\ gateway \in {"down", "booting", "serving"}
    /\ crashes \in 0 .. MaxCrashes
    /\ meta \subseteq Exchange
    /\ log \in [Session -> Seq(Row)]
    /\ total \in [Session -> Nat \cup {None}]
    /\ via \in [Exchange -> Conn \cup {None}]
    /\ blind \subseteq Exchange
    /\ manager \in [Conn -> [session : Session \cup {None}, seq : Nat]]
    /\ pc \in [Exchange -> Step]
    /\ seq \in [Exchange -> Nat]
    /\ \A x \in Exchange : seq[x] > 0 <=> pc[x] \in {"resolved", "session", "written"}
    /\ is_new \in [Exchange -> BOOLEAN]
    /\ scan \subseteq Exchange
    /\ orphan \in Exchange \cup {None}
    /\ replay_new \in BOOLEAN
    /\ replay_pc \in {"off", "probe", "insert", "totals"}
    /\ orphan # None <=> replay_pc \in {"insert", "totals"}
    /\ clean \in BOOLEAN

\* An exchange has at most one turn: recovery never repeats a live capture or
\* an earlier recovery ("cannot race the live capture path's insert").
OneTurnPerExchange ==
    \A x \in Exchange :
        Cardinality({i \in 1 .. Len(log[SessionOf[x]]) : log[SessionOf[x]][i][1] = x}) <= 1

\* When startup recovery looked at every file and none failed, every capture on disk has a
\* turn with its request_hash: dead-lettered, refused and crashed captures and
\* unacknowledged commits included.
CleanBootCoversDisk ==
    [][(gateway = "booting" /\ gateway' = "serving" /\ scan = {} /\ clean) =>
            \A x \in meta : \E y \in Exchange : RequestOf[y] = RequestOf[x] /\ HasRow(y)]_vars

\* Captures that may have been counted, live or by a replay that failed,
\* without a turn to show: those unfinished or failed.
Uncounted(s) ==
    {x \in Exchange : /\ SessionOf[x] = s
                      /\ pc[x] \notin {"new", "written", "done"} \/ x \in Upgrade}

\* total_turns never exceeds the turns of the session by more than the
\* captures of the session that did not succeed or have still to.
TotalsNeverInvented ==
    \A s \in Session :
        total[s] # None => total[s] <= Len(log[s]) + Cardinality(Uncounted(s))

\* No capture of the session failed in write_capture, crashed, was blind or
\* was recovered.
Calm(s) ==
    \A x \in Exchange : SessionOf[x] = s =>
        /\ x \notin blind
        /\ pc[x] \notin {"dead", "crashed"}
        /\ << x, "recovered" >> \notin RowsOf(s)

\* The sessions whose captures so far all came over one connection.
Unshared == {s \in Session : \A x, y \in Exchange :
                (/\ SessionOf[x] = s /\ SessionOf[y] = s
                 /\ via[x] # None /\ via[y] # None) => via[x] = via[y]}

\* In a session used by one connection only and without failures, the
\* sequence number that resolution predicted is the row's, so the delta and
\* drift steps, which use it, look at the turn before this one.
ResolvedIsAssigned ==
    \A x \in Exchange :
        (pc[x] = "written" /\ SessionOf[x] \in Unshared /\ Calm(SessionOf[x]))
            => seq[x] = SlotOf(x)

\* "Skip the capture pipeline for 101 -- it would produce incorrect DB
\* records": a WebSocket handshake is on disk for the audit trail and never
\* becomes a turn.
HandshakeHasNoTurn == \A x \in Upgrade : ~HasRow(x)

\* A capture that began ends, successfully or not: the retries of the pipeline
\* are bounded, and no exit of it leaves the capture half way.
EveryExchangeEnds ==
    \A x \in Exchange : pc[x] # "new" ~> pc[x] \in Ended

\* Startup recovery never keeps the gateway from serving (or crashing again).
BootEnds == gateway = "booting" ~> gateway # "booting"
=============================================================================
