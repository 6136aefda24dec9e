--------------------------- MODULE CaptureProofs ---------------------------
(***************************************************************************)
(* The safety of Capture for any exchanges, connections and crashes.       *)
(*                                                                         *)
(* Recovery only looks at files, and those of captures that have ended     *)
(* when `reprocess` keeps out of the way of live ones (Apart): then the    *)
(* probe of the tables is as good as a lock, and what it did not find is   *)
(* still not there at the insert (Fresh).  A boot covers the disk because  *)
(* a file leaves the scan only with a turn of its request, as the orphan   *)
(* at work, or as an entry of report.failed (Covered).                     *)
(*                                                                         *)
(* The number of a resolution is that of the row because a connection has  *)
(* one capture at work (Sole) and its SessionManager stands at the last    *)
(* row of a session that no other connection, failure or recovery touched  *)
(* (Numbering).                                                            *)
(***************************************************************************)
EXTENDS Capture, FiniteSetTheorems, TLAPS

Resting == {"new"} \cup Ended

\* A capture at work came over a connection.
Placed == \A x \in Exchange : pc[x] \notin Resting => via[x] \in Conn

\* The session row is written before what refers to it.
SessionFirst ==
    /\ \A x \in Exchange : pc[x] \in {"session", "written"} => total[SessionOf[x]] # None
    /\ replay_pc = "totals" => total[SessionOf[orphan]] # None

\* Nothing runs while the gateway is down.
Down == gateway = "down" => replay_pc = "off"

\* A file has not left the scan of a boot for nothing.
Covered ==
    gateway = "booting" /\ clean =>
        \A x \in meta : x \in scan \/ (replay_pc = "insert" /\ orphan = x) \/ Known(x)

BaseInv == TypeOK /\ Down /\ Placed /\ SessionFirst /\ Covered

USE CaptureAssumption

-----------------------------------------------------------------------------
(* Rows.                                                                   *)

Appended(s, row) == log' = [log EXCEPT ![s] = Append(@, row)]

\* A row at the end of a log is one more row of that session.
LEMMA AppendedRow ==
    ASSUME TypeOK, NEW s \in Session, NEW row \in Row, Appended(s, row)
    PROVE  /\ log' \in [Session -> Seq(Row)]
           /\ log'[s] = Append(log[s], row)
           /\ \A u \in Session \ {s} : log'[u] = log[u]
           /\ RowsOf(s)' = RowsOf(s) \cup {row}
           /\ \A u \in Session \ {s} : RowsOf(u)' = RowsOf(u)
<1>1. log \in [Session -> Seq(Row)]
  BY DEF TypeOK
<1>2. Append(log[s], row) \in Seq(Row)
  BY <1>1
<1>3. log' \in [Session -> Seq(Row)] /\ log'[s] = Append(log[s], row)
      /\ \A u \in Session \ {s} : log'[u] = log[u]
  BY <1>1, <1>2 DEF Appended
<1>4. RowsOf(s)' = RowsOf(s) \cup {row}
  <2> DEFINE q == log[s]
  <2>1. q \in Seq(Row) /\ Len(q) \in Nat
    BY <1>1
  <2>2. Len(Append(q, row)) = Len(q) + 1 /\ Append(q, row)[Len(q) + 1] = row
        /\ \A i \in 1 .. Len(q) : Append(q, row)[i] = q[i]
    BY <2>1
  <2>3. RowsOf(s)' = {Append(q, row)[i] : i \in 1 .. Len(q) + 1}
    BY <1>3, <2>2 DEF RowsOf
  <2>4. RowsOf(s) = {q[i] : i \in 1 .. Len(q)}
    BY DEF RowsOf
  <2>5. 1 .. Len(q) + 1 = (1 .. Len(q)) \cup {Len(q) + 1}
    BY <2>1
  <2> HIDE DEF q
  <2>6. QED
    BY <2>2, <2>3, <2>4, <2>5
<1>5. \A u \in Session \ {s} : RowsOf(u)' = RowsOf(u)
  BY <1>3 DEF RowsOf
<1>6. QED
  BY <1>3, <1>4, <1>5

\* The log changes by a live capture at its insert and by the insert of an
\* orphan that has no recovered row, and in no other way.
LEMMA LogChanges ==
    ASSUME TypeOK, Next
    PROVE  \/ UNCHANGED log
           \/ \E x \in Exchange :
                /\ pc[x] = "session" /\ pc' \in {[pc EXCEPT ![x] = "written"],
                                                 [pc EXCEPT ![x] = "dead"]}
                /\ Appended(SessionOf[x], << x, "live" >>)
                /\ UNCHANGED << gateway, meta, via, recovery >>
           \/ /\ replay_pc = "insert" /\ replay_pc' # "insert"
              /\ << orphan, "recovered" >> \notin RowsOf(SessionOf[orphan])
              /\ Appended(SessionOf[orphan], << orphan, "recovered" >>)
              /\ UNCHANGED << gateway, meta, via, pc, scan >>
<1> USE DEF recovery
<1>1. ASSUME NEW x \in Exchange, AppendTurn(x) \/ WriteFails(x)
      PROVE  \/ UNCHANGED log
             \/ /\ pc[x] = "session" /\ pc' \in {[pc EXCEPT ![x] = "written"],
                                                 [pc EXCEPT ![x] = "dead"]}
                /\ Appended(SessionOf[x], << x, "live" >>)
                /\ UNCHANGED << gateway, meta, via, recovery >>
  BY <1>1 DEF AppendTurn, WriteFails, AppendLive, Appended, Goto, EndAt
<1>2. ASSUME ReplayInsert
      PROVE  \/ UNCHANGED log
             \/ /\ replay_pc = "insert" /\ replay_pc' # "insert"
                /\ << orphan, "recovered" >> \notin RowsOf(SessionOf[orphan])
                /\ Appended(SessionOf[orphan], << orphan, "recovered" >>)
                /\ UNCHANGED << gateway, meta, via, pc, scan >>
  <2>1. replay_pc = "insert" /\ replay_pc' # "insert"
        /\ UNCHANGED << gateway, meta, via, pc, scan >>
    BY <1>2 DEF ReplayInsert, AfterInsert, NextFile, ToTotals, live
  <2>2. SessionOf[orphan] \in Session /\ log \in [Session -> Seq(Row)]
    BY <2>1 DEF TypeOK
  <2>3. CASE << orphan, "recovered" >> \in RowsOf(SessionOf[orphan])
    BY <1>2, <2>2, <2>3 DEF ReplayInsert
  <2>4. CASE << orphan, "recovered" >> \notin RowsOf(SessionOf[orphan])
    BY <1>2, <2>1, <2>4 DEF ReplayInsert, Appended
  <2>5. QED
    BY <2>3, <2>4
<1>3. ASSUME NEW x \in Exchange, NEW c \in Conn, NEW ok \in BOOLEAN, RecordCapture(x, c, ok)
      PROVE  UNCHANGED log
  BY <1>3 DEF RecordCapture
<1>4. ASSUME NEW x \in Exchange, NEW ok \in BOOLEAN,
             \/ RefuseCapture(x) \/ Resolve(x, ok)
             \/ WriteSessionRow(x) \/ UpdateTotals(x, ok)
      PROVE  UNCHANGED log
  BY <1>4 DEF RefuseCapture, Resolve, WriteSessionRow, UpdateTotals
<1>5. ASSUME NEW x \in Exchange, RejectFile(x) \/ Probe(x)
      PROVE  UNCHANGED log
  BY <1>5 DEF RejectFile, Probe
<1>6. ASSUME NEW ok \in BOOLEAN, ReplayFails \/ ReplayTotals(ok)
      PROVE  UNCHANGED log
  BY <1>6 DEF ReplayFails, ReplayTotals
<1>7. ASSUME \/ FinishRecovery \/ AbortRecovery \/ Crash \/ Boot
             \/ BootWithoutRecovery \/ StartReprocess
      PROVE  UNCHANGED log
  BY <1>7 DEF FinishRecovery, AbortRecovery, EndRecovery, Crash, Boot,
              BootWithoutRecovery, StartReprocess, StartRecovery
<1>8. QED
  BY <1>1, <1>2, <1>3, <1>4, <1>5, <1>6, <1>7 DEF Next, Process, Recover

\* No step takes a row away.
LEMMA RowsStay ==
    ASSUME TypeOK, [Next]_vars
    PROVE  /\ \A x \in Exchange : HasRow(x) => HasRow(x)'
           /\ \A x \in Exchange : Known(x) => Known(x)'
           /\ \A s \in Session : RowsOf(s) \subseteq RowsOf(s)'
<1>1. \A s \in Session : RowsOf(s) \subseteq RowsOf(s)'
  <2>1. CASE UNCHANGED log
    BY <2>1 DEF RowsOf
  <2>2. ASSUME NEW x \in Exchange, Appended(SessionOf[x], << x, "live" >>)
        PROVE  \A s \in Session : RowsOf(s) \subseteq RowsOf(s)'
    BY <2>2, AppendedRow DEF Row
  <2>3. ASSUME replay_pc = "insert", Appended(SessionOf[orphan], << orphan, "recovered" >>)
        PROVE  \A s \in Session : RowsOf(s) \subseteq RowsOf(s)'
    <3>1. orphan \in Exchange
      BY <2>3 DEF TypeOK
    <3>2. QED
      BY <2>3, <3>1, AppendedRow DEF Row
  <2>4. QED
    BY <2>1, <2>2, <2>3, LogChanges DEF vars
<1>2. \A x \in Exchange : HasRow(x) => HasRow(x)'
  BY <1>1 DEF HasRow
<1>3. QED
  BY <1>1, <1>2 DEF Known

-----------------------------------------------------------------------------
(* Types, session rows and what a boot covers.                             *)

\* The initial states satisfy the invariant.
LEMMA BaseInit == Init => BaseInv
<1> SUFFICES ASSUME Init PROVE BaseInv
  OBVIOUS
<1>1. TypeOK
  <2>1. log \in [Session -> Seq(Row)]
    <3>1. << >> \in Seq(Row)
      OBVIOUS
    <3>2. QED
      BY <3>1 DEF Init
  <2>2. NoManager \in [session : Session \cup {None}, seq : Nat]
    BY DEF NoManager
  <2>3. /\ crashes \in 0 .. MaxCrashes /\ total \in [Session -> Nat \cup {None}]
        /\ seq \in [Exchange -> Nat] /\ pc \in [Exchange -> Step]
        /\ \A x \in Exchange : seq[x] > 0 <=> pc[x] \in {"resolved", "session", "written"}
    BY DEF Init, Step
  <2>4. /\ via \in [Exchange -> Conn \cup {None}]
        /\ manager \in [Conn -> [session : Session \cup {None}, seq : Nat]]
        /\ is_new \in [Exchange -> BOOLEAN]
    BY <2>2 DEF Init
  <2>5. QED
    BY <2>1, <2>3, <2>4 DEF Init, TypeOK
<1>2. Down /\ Placed /\ SessionFirst /\ Covered
  BY DEF Init, Down, Placed, SessionFirst, Covered, Resting
<1>3. QED
  BY <1>1, <1>2 DEF BaseInv

\* The steps of a live capture keep the types.
LEMMA LiveTypes ==
    ASSUME BaseInv, NEW x \in Exchange, Process(x)
    PROVE  TypeOK'
<1> USE DEF BaseInv, TypeOK, recovery
<1>1. CASE RefuseCapture(x)
  BY <1>1 DEF RefuseCapture, EndAt, Goto, Step, Ended
<1>2. ASSUME NEW r \in BOOLEAN, Resolve(x, r)
      PROVE  TypeOK'
  <2> DEFINE c == via[x]
             s == SessionOf[x]
             n == IF manager[c].session = s THEN manager[c].seq + 1
                  ELSE (IF r THEN Len(log[s]) ELSE 0) + 1
  <2>1. c \in Conn /\ s \in Session
    BY <1>2 DEF Resolve, Placed, Resting, Ended
  <2>2. n \in Nat /\ n > 0
    BY <2>1
  <2>3. /\ manager' = [manager EXCEPT ![c] = [session |-> s, seq |-> n]]
        /\ seq' = [seq EXCEPT ![x] = n]
        /\ pc' = [pc EXCEPT ![x] = "resolved"]
        /\ blind' \in {blind, blind \cup {x}}
        /\ \E b \in BOOLEAN : is_new' = [is_new EXCEPT ![x] = b]
        /\ UNCHANGED << gateway, crashes, meta, log, total, via, recovery >>
    BY <1>2 DEF Resolve, Goto
  <2> HIDE DEF n, c, s
  <2>4. manager' \in [Conn -> [session : Session \cup {None}, seq : Nat]]
    BY <2>1, <2>2, <2>3
  <2>5. seq' \in [Exchange -> Nat] /\ pc' \in [Exchange -> Step]
        /\ \A y \in Exchange : seq'[y] > 0 <=> pc'[y] \in {"resolved", "session", "written"}
    BY <2>2, <2>3 DEF Step
  <2>6. is_new' \in [Exchange -> BOOLEAN] /\ blind' \subseteq Exchange
    BY <2>3, Zenon
  <2>7. QED
    BY <2>3, <2>4, <2>5, <2>6
<1>3. CASE WriteSessionRow(x)
  BY <1>3 DEF WriteSessionRow, Goto, Step
<1>4. CASE AppendTurn(x)
  <2>1. log' \in [Session -> Seq(Row)]
    BY <1>4, AppendedRow DEF AppendTurn, AppendLive, Appended, Row
  <2>2. QED
    BY <1>4, <2>1 DEF AppendTurn, Goto, Step
<1>5. CASE WriteFails(x)
  <2>1. log' \in [Session -> Seq(Row)]
    <3>1. CASE UNCHANGED log
      BY <3>1
    <3>2. CASE Appended(SessionOf[x], << x, "live" >>)
      BY <3>2, AppendedRow DEF Row
    <3>3. QED
      BY <1>5, <3>1, <3>2 DEF WriteFails, AppendLive, Appended
  <2>2. QED
    BY <1>5, <2>1 DEF WriteFails, EndAt, Goto, Step, Ended
<1>6. ASSUME NEW ok \in BOOLEAN, UpdateTotals(x, ok)
      PROVE  TypeOK'
  <2>1. total[SessionOf[x]] \in Nat
    BY <1>6 DEF UpdateTotals, SessionFirst
  <2>2. total' \in [Session -> Nat \cup {None}]
    BY <1>6, <2>1 DEF UpdateTotals
  <2>3. QED
    BY <1>6, <2>2 DEF UpdateTotals, EndAt, Goto, Step, Ended
<1>7. QED
  BY <1>1, <1>2, <1>3, <1>4, <1>5, <1>6 DEF Process

\* The steps of a recovery run keep the types.
LEMMA RecoverTypes ==
    ASSUME BaseInv, Recover
    PROVE  TypeOK'
<1> USE DEF BaseInv, TypeOK, live, Failed
<1>1. ASSUME NEW x \in Exchange, RejectFile(x)
      PROVE  TypeOK'
  BY <1>1 DEF RejectFile
<1>2. ASSUME NEW x \in Exchange, Probe(x)
      PROVE  TypeOK'
  <2>1. CASE Known(x)
    BY <1>2, <2>1 DEF Probe
  <2>2. CASE ~Known(x)
    BY <1>2, <2>2 DEF Probe
  <2>3. QED
    BY <2>1, <2>2
<1>3. CASE ReplayInsert
  <2>1. orphan \in Exchange /\ SessionOf[orphan] \in Session
    BY <1>3 DEF ReplayInsert
  <2>2. log' \in [Session -> Seq(Row)]
    <3>1. CASE UNCHANGED log
      BY <3>1
    <3>2. CASE Appended(SessionOf[orphan], << orphan, "recovered" >>)
      BY <2>1, <3>2, AppendedRow DEF Row
    <3>3. QED
      BY <1>3, <2>1, <3>1, <3>2 DEF ReplayInsert, Appended
  <2>3. total' \in [Session -> Nat \cup {None}]
    BY <1>3, <2>1 DEF ReplayInsert, SessionRowExists
  <2>4. QED
    BY <1>3, <2>1, <2>2, <2>3 DEF ReplayInsert, AfterInsert, NextFile, ToTotals
<1>4. CASE ReplayFails
  <2>1. total' \in [Session -> Nat \cup {None}]
    <3>1. CASE UNCHANGED total
      BY <3>1
    <3>2. CASE SessionRowExists(SessionOf[orphan])
      BY <3>2 DEF SessionRowExists
    <3>3. QED
      BY <1>4, <3>1, <3>2 DEF ReplayFails
  <2>2. QED
    BY <1>4, <2>1 DEF ReplayFails, NextFile
<1>5. ASSUME NEW ok \in BOOLEAN, ReplayTotals(ok)
      PROVE  TypeOK'
  <2>1. orphan \in Exchange /\ total[SessionOf[orphan]] \in Nat
    BY <1>5 DEF ReplayTotals, SessionFirst
  <2>2. total' \in [Session -> Nat \cup {None}]
    BY <1>5, <2>1 DEF ReplayTotals
  <2>3. QED
    BY <1>5, <2>2 DEF ReplayTotals, NextFile
<1>6. CASE FinishRecovery \/ AbortRecovery
  BY <1>6 DEF FinishRecovery, AbortRecovery, EndRecovery
<1>7. QED
  BY <1>1, <1>2, <1>3, <1>4, <1>5, <1>6 DEF Recover

\* Every step keeps the types.
LEMMA TypesStay ==
    ASSUME BaseInv, [Next]_vars
    PROVE  TypeOK'
<1> USE DEF BaseInv, TypeOK, live, recovery
<1>1. ASSUME NEW x \in Exchange, NEW c \in Conn, NEW ok \in BOOLEAN, RecordCapture(x, c, ok)
      PROVE  TypeOK'
  BY <1>1 DEF RecordCapture, Goto, Step, Ended
<1>2. CASE Crash
  <2>1. NoManager \in [session : Session \cup {None}, seq : Nat]
    BY DEF NoManager
  <2>2. crashes' \in 0 .. MaxCrashes
    BY <1>2 DEF Crash
  <2>3. pc' \in [Exchange -> Step] /\ seq' \in [Exchange -> Nat]
        /\ \A x \in Exchange : seq'[x] = 0 /\ pc'[x] \in {"new"} \cup Ended
    BY <1>2 DEF Crash, Step, Ended
  <2>4. /\ manager' \in [Conn -> [session : Session \cup {None}, seq : Nat]]
        /\ is_new' \in [Exchange -> BOOLEAN]
        /\ \A x \in Exchange : ~(seq'[x] > 0) /\ pc'[x] \notin {"resolved", "session", "written"}
    BY <1>2, <2>1, <2>3 DEF Crash, Ended
  <2>5. QED
    BY <1>2, <2>2, <2>3, <2>4 DEF Crash
<1>3. CASE Boot \/ StartReprocess
  <2>1. replay_pc' = "probe" /\ orphan' = orphan /\ orphan = None
    BY <1>3 DEF Boot, StartReprocess, StartRecovery, Down
  <2>2. QED
    BY <1>3, <2>1 DEF Boot, StartReprocess, StartRecovery
<1>4. CASE BootWithoutRecovery
  BY <1>4 DEF BootWithoutRecovery
<1>5. CASE UNCHANGED vars
  BY <1>5 DEF vars
<1> HIDE DEF TypeOK, BaseInv
<1>6. ASSUME NEW x \in Exchange, Process(x)
      PROVE  TypeOK'
  BY <1>6, LiveTypes
<1>7. QED
  BY <1>1, <1>2, <1>3, <1>4, <1>5, <1>6, RecoverTypes DEF Next

\* Nothing runs while the gateway is down.
LEMMA DownStays ==
    ASSUME BaseInv, [Next]_vars
    PROVE  Down'
<1> USE DEF Down
<1>1. CASE UNCHANGED << gateway, replay_pc >>
  BY <1>1 DEF BaseInv
<1>2. ASSUME NEW x \in Exchange, Probe(x)
      PROVE  Down'
  BY <1>2 DEF Probe, BaseInv
<1>3. CASE \/ ReplayInsert \/ ReplayFails \/ \E ok \in BOOLEAN : ReplayTotals(ok)
  BY <1>3 DEF ReplayInsert, ReplayFails, ReplayTotals, BaseInv
<1>4. CASE \/ FinishRecovery \/ AbortRecovery
  BY <1>4 DEF FinishRecovery, AbortRecovery, EndRecovery
<1>5. CASE Crash \/ Boot \/ BootWithoutRecovery \/ StartReprocess
  BY <1>5 DEF Crash, Boot, BootWithoutRecovery, StartReprocess
<1>6. ASSUME NEW x \in Exchange, Process(x) \/ RejectFile(x)
      PROVE  UNCHANGED << gateway, replay_pc >>
  BY <1>6 DEF Process, RefuseCapture, Resolve, WriteSessionRow, AppendTurn, WriteFails,
              UpdateTotals, RejectFile, recovery
<1>7. ASSUME NEW x \in Exchange, NEW c \in Conn, NEW ok \in BOOLEAN, RecordCapture(x, c, ok)
      PROVE  UNCHANGED << gateway, replay_pc >>
  BY <1>7 DEF RecordCapture, recovery
<1>8. QED
  BY <1>1, <1>2, <1>3, <1>4, <1>5, <1>6, <1>7 DEF Next, Recover, vars, recovery

\* A capture at work keeps its connection.
LEMMA PlacedStays ==
    ASSUME BaseInv, [Next]_vars
    PROVE  Placed'
<1> USE DEF BaseInv, TypeOK, Placed, Resting, Ended
<1>1. CASE UNCHANGED << via, pc >>
  BY <1>1
<1>2. ASSUME NEW x \in Exchange, NEW c \in Conn, NEW ok \in BOOLEAN, RecordCapture(x, c, ok)
      PROVE  Placed'
  BY <1>2 DEF RecordCapture, Goto
<1>3. ASSUME NEW x \in Exchange, Process(x)
      PROVE  Placed'
  <2>1. UNCHANGED via /\ pc[x] \notin Resting /\ \E p \in Step : pc' = [pc EXCEPT ![x] = p]
    BY <1>3 DEF Process, RefuseCapture, Resolve, WriteSessionRow, AppendTurn, WriteFails,
                UpdateTotals, EndAt, Goto, Step
  <2>2. QED
    BY <2>1
<1>4. CASE Crash
  BY <1>4 DEF Crash
<1>5. CASE Recover \/ Boot \/ BootWithoutRecovery \/ StartReprocess
  <2>1. UNCHANGED live
    BY <1>5 DEF Recover, RejectFile, Probe, ReplayInsert, ReplayFails, ReplayTotals,
                FinishRecovery, AbortRecovery, EndRecovery, Boot, BootWithoutRecovery,
                StartReprocess, StartRecovery
  <2>2. QED
    BY <1>1, <2>1 DEF live
<1>6. QED
  BY <1>1, <1>2, <1>3, <1>4, <1>5 DEF Next, vars, live

\* A session row stays, and is written before a turn or a total of it.
LEMMA SessionFirstStays ==
    ASSUME BaseInv, [Next]_vars
    PROVE  SessionFirst'
<1> USE DEF BaseInv, TypeOK, SessionFirst
<1>1. CASE UNCHANGED << total, pc, replay_pc, orphan >>
  BY <1>1
<1>2. ASSUME NEW x \in Exchange, NEW c \in Conn, NEW ok \in BOOLEAN, RecordCapture(x, c, ok)
      PROVE  SessionFirst'
  BY <1>2 DEF RecordCapture, Goto, recovery
<1>3. ASSUME NEW x \in Exchange, Process(x)
      PROVE  SessionFirst'
  <2> USE DEF recovery, Goto, EndAt
  <2>1. CASE RefuseCapture(x) \/ AppendTurn(x) \/ WriteFails(x)
    BY <2>1 DEF RefuseCapture, AppendTurn, WriteFails
  <2>2. ASSUME NEW r \in BOOLEAN, Resolve(x, r)
        PROVE  SessionFirst'
    BY <2>2 DEF Resolve
  <2>3. CASE WriteSessionRow(x)
    <3>1. /\ total'[SessionOf[x]] # None
          /\ \A s \in Session : total[s] # None => total'[s] # None
      BY <2>3 DEF WriteSessionRow
    <3>2. UNCHANGED << replay_pc, orphan >> /\ pc' = [pc EXCEPT ![x] = "session"]
      BY <2>3 DEF WriteSessionRow
    <3>3. QED
      BY <3>1, <3>2
  <2>4. ASSUME NEW ok \in BOOLEAN, UpdateTotals(x, ok)
        PROVE  SessionFirst'
    <3>1. \A s \in Session : total[s] # None => total'[s] # None
      BY <2>4 DEF UpdateTotals
    <3>2. UNCHANGED << replay_pc, orphan >> /\ pc' = [pc EXCEPT ![x] = "done"]
      BY <2>4 DEF UpdateTotals
    <3>3. QED
      BY <3>1, <3>2
  <2>5. QED
    BY <1>3, <2>1, <2>2, <2>3, <2>4 DEF Process
<1>4. CASE Recover
  <2> USE DEF live
  <2>1. ASSUME NEW x \in Exchange, RejectFile(x)
        PROVE  SessionFirst'
    BY <2>1 DEF RejectFile
  <2>2. ASSUME NEW x \in Exchange, Probe(x)
        PROVE  SessionFirst'
    BY <2>2 DEF Probe
  <2>3. CASE ReplayInsert
    <3>1. /\ total'[SessionOf[orphan]] # None
          /\ \A s \in Session : total[s] # None => total'[s] # None
      BY <2>3 DEF ReplayInsert, SessionRowExists
    <3>2. UNCHANGED pc /\ (replay_pc' = "totals" => orphan' = orphan)
      BY <2>3 DEF ReplayInsert, AfterInsert, NextFile, ToTotals
    <3>3. QED
      BY <3>1, <3>2
  <2>4. CASE ReplayFails
    <3>1. \A s \in Session : total[s] # None => total'[s] # None
      BY <2>4 DEF ReplayFails, SessionRowExists
    <3>2. UNCHANGED pc /\ replay_pc' = "probe"
      BY <2>4 DEF ReplayFails, NextFile
    <3>3. QED
      BY <3>1, <3>2
  <2>5. ASSUME NEW ok \in BOOLEAN, ReplayTotals(ok)
        PROVE  SessionFirst'
    <3>1. \A s \in Session : total[s] # None => total'[s] # None
      BY <2>5 DEF ReplayTotals
    <3>2. UNCHANGED pc /\ replay_pc' = "probe"
      BY <2>5 DEF ReplayTotals, NextFile
    <3>3. QED
      BY <3>1, <3>2
  <2>6. CASE FinishRecovery \/ AbortRecovery
    BY <2>6 DEF FinishRecovery, AbortRecovery, EndRecovery
  <2>7. QED
    BY <1>4, <2>1, <2>2, <2>3, <2>4, <2>5, <2>6 DEF Recover
<1>5. CASE Crash
  BY <1>5 DEF Crash, Ended
<1>6. CASE Boot \/ BootWithoutRecovery \/ StartReprocess
  BY <1>6 DEF Boot, BootWithoutRecovery, StartReprocess, StartRecovery, live, recovery
<1>7. QED
  BY <1>1, <1>2, <1>3, <1>4, <1>5, <1>6 DEF Next, vars, live, recovery

\* The insert of an orphan leaves it with a turn.
LEMMA Replayed ==
    ASSUME BaseInv, ReplayInsert, NEW x \in Exchange, x = orphan
    PROVE  Known(x)'
<1>1. << x, "recovered" >> \in RowsOf(SessionOf[x])'
  <2>1. CASE << x, "recovered" >> \in RowsOf(SessionOf[x])
    <3>1. log' = log
      BY <2>1 DEF ReplayInsert, BaseInv, TypeOK
    <3>2. QED
      BY <2>1, <3>1 DEF RowsOf
  <2>2. CASE << x, "recovered" >> \notin RowsOf(SessionOf[x])
    <3>1. Appended(SessionOf[x], << x, "recovered" >>)
      BY <2>2 DEF ReplayInsert, Appended
    <3>2. SessionOf[x] \in Session /\ << x, "recovered" >> \in Row
      BY DEF Row
    <3>3. RowsOf(SessionOf[x])' = RowsOf(SessionOf[x]) \cup {<< x, "recovered" >>}
      BY <3>1, <3>2, AppendedRow DEF BaseInv
    <3>4. QED
      BY <3>3
  <2>3. QED
    BY <2>1, <2>2
<1>2. HasRow(x)'
  BY <1>1 DEF HasRow
<1>3. QED
  BY <1>2 DEF Known

\* Whatever leaves the scan of a clean boot is at work or has its turn.
LEMMA CoveredStays ==
    ASSUME BaseInv, [Next]_vars
    PROVE  Covered'
<1> USE DEF BaseInv, TypeOK, Covered
<1>0. \A x \in Exchange : Known(x) => Known(x)'
  BY RowsStay
<1>1. CASE UNCHANGED << gateway, meta, recovery >>
  BY <1>0, <1>1 DEF recovery
<1>2. ASSUME NEW x \in Exchange, NEW c \in Conn, NEW ok \in BOOLEAN, RecordCapture(x, c, ok)
      PROVE  Covered'
  BY <1>2 DEF RecordCapture
<1>3. ASSUME NEW x \in Exchange, RejectFile(x)
      PROVE  Covered'
  BY <1>3 DEF RejectFile, Failed
<1>4. ASSUME NEW x \in Exchange, Probe(x)
      PROVE  Covered'
  <2>1. SUFFICES ASSUME gateway = "booting", clean, NEW y \in meta
                 PROVE  y \in scan' \/ (replay_pc' = "insert" /\ orphan' = y) \/ Known(y)'
    BY <1>4 DEF Probe
  <2>2. y \in scan \/ Known(y)
    BY <1>4, <2>1 DEF Probe
  <2>3. QED
    BY <1>0, <1>4, <2>2 DEF Probe
<1>5. CASE ReplayInsert
  <2>1. UNCHANGED << gateway, meta, scan, clean >> /\ replay_pc = "insert" /\ orphan \in Exchange
    BY <1>5 DEF ReplayInsert, live
  <2>2. \A y \in Exchange : y = orphan => Known(y)'
    BY <1>5, Replayed
  <2>3. QED
    BY <1>0, <2>1, <2>2
<1>6. CASE ReplayFails
  BY <1>6 DEF ReplayFails, Failed
<1>7. ASSUME NEW ok \in BOOLEAN, ReplayTotals(ok)
      PROVE  Covered'
  BY <1>0, <1>7 DEF ReplayTotals, NextFile
<1>8. CASE \/ FinishRecovery \/ AbortRecovery \/ Crash \/ Boot
           \/ BootWithoutRecovery \/ StartReprocess
  BY <1>8 DEF FinishRecovery, AbortRecovery, EndRecovery, Crash, Boot,
              BootWithoutRecovery, StartReprocess, StartRecovery
<1>9. ASSUME NEW x \in Exchange, Process(x)
      PROVE  UNCHANGED << gateway, meta, recovery >>
  BY <1>9 DEF Process, RefuseCapture, Resolve, WriteSessionRow, AppendTurn, WriteFails,
              UpdateTotals
<1>10. QED
  BY <1>1, <1>2, <1>3, <1>4, <1>5, <1>6, <1>7, <1>8, <1>9 DEF Next, Recover, vars

\* The four parts of the invariant hold in every reachable state.
LEMMA BaseAlways == Spec => []BaseInv
<1>1. BaseInv /\ [Next]_vars => BaseInv'
  BY TypesStay, DownStays, PlacedStays, SessionFirstStays, CoveredStays DEF BaseInv
<1>2. QED
  BY <1>1, BaseInit, PTL DEF Spec

\* Exchanges, files, tables and the recovery run keep their types
\* (capture_pipeline.rs, recovery.rs): in particular totals are added only to
\* a session row that is there.
THEOREM TypeCorrect == Spec => []TypeOK
<1>1. BaseInv => TypeOK
  BY DEF BaseInv
<1>2. QED
  BY <1>1, BaseAlways, PTL

\* A startup recovery that looked at every file and lists no failure leaves
\* every capture on disk with a turn of its request (run_startup_recovery),
\* for any number of exchanges and crashes.
THEOREM BootCovers == Spec => CleanBootCoversDisk
<1>1. ASSUME BaseInv, Next, gateway = "booting", gateway' = "serving", scan = {}, clean,
             NEW x \in meta
      PROVE  \E y \in Exchange : RequestOf[y] = RequestOf[x] /\ HasRow(y)
  <2>1. replay_pc = "probe"
    <3>1. ASSUME NEW y \in Exchange, NEW c \in Conn, NEW ok \in BOOLEAN,
                 RecordCapture(y, c, ok)
          PROVE  FALSE
      BY <1>1, <3>1 DEF RecordCapture
    <3>2. ASSUME NEW y \in Exchange, Process(y) \/ RejectFile(y) \/ Probe(y)
          PROVE  FALSE
      BY <1>1, <3>2 DEF Process, RefuseCapture, Resolve, WriteSessionRow, AppendTurn,
                        WriteFails, UpdateTotals, RejectFile, Probe
    <3>3. ~(ReplayInsert \/ ReplayFails \/ \E ok \in BOOLEAN : ReplayTotals(ok))
      BY <1>1 DEF ReplayInsert, ReplayFails, ReplayTotals
    <3>4. ~(Crash \/ Boot \/ BootWithoutRecovery \/ StartReprocess)
      BY <1>1 DEF Crash, Boot, BootWithoutRecovery, StartReprocess
    <3>5. FinishRecovery \/ AbortRecovery
      BY <1>1, <3>1, <3>2, <3>3, <3>4 DEF Next, Recover
    <3>6. QED
      BY <3>5 DEF FinishRecovery, AbortRecovery
  <2>2. Known(x)
    BY <1>1, <2>1 DEF BaseInv, Covered
  <2>3. QED
    BY <2>2 DEF Known
<1>2. BaseInv /\ [Next]_vars => [(gateway = "booting" /\ gateway' = "serving" /\ scan = {} /\ clean) =>
            \A x \in meta : \E y \in Exchange : RequestOf[y] = RequestOf[x] /\ HasRow(y)]_vars
  BY <1>1
<1>3. QED
  BY <1>2, BaseAlways, PTL DEF Spec, CleanBootCoversDisk

-----------------------------------------------------------------------------
(* One turn for each exchange, when reprocess keeps out of the way.        *)

\* While recovery runs, or the gateway does not serve, no capture is at work.
Still == replay_pc # "off" \/ gateway # "serving" => \A x \in Exchange : pc[x] \in Resting

\* A live row is written once, a recovered one after the capture has ended.
LiveRows ==
    \A x \in Exchange : << x, "live" >> \in RowsOf(SessionOf[x]) =>
        pc[x] \in {"written", "done", "dead", "crashed"}
RecoveredRows ==
    \A x \in Exchange : << x, "recovered" >> \in RowsOf(SessionOf[x]) => pc[x] \in Ended

\* Recovery only looks at files, and a file comes from a capture.
Files ==
    /\ scan \subseteq meta
    /\ orphan # None => orphan \in meta
    /\ \A x \in meta : pc[x] # "new"

\* What the probe did not find is still not there at the insert.
Fresh == replay_pc = "insert" => ~HasRow(orphan)

Unique ==
    \A x \in Exchange : \A i, j \in 1 .. Len(log[SessionOf[x]]) :
        log[SessionOf[x]][i][1] = x /\ log[SessionOf[x]][j][1] = x => i = j

ApartInv == BaseInv /\ Still /\ LiveRows /\ RecoveredRows /\ Files /\ Fresh /\ Unique

\* The initial states satisfy the invariant.
LEMMA ApartInit == Init => ApartInv
<1> SUFFICES ASSUME Init PROVE ApartInv
  OBVIOUS
<1>1. \A s \in Session : log[s] = << >> /\ RowsOf(s) = {}
  BY DEF Init, RowsOf
<1>2. QED
  BY <1>1, BaseInit DEF Init, ApartInv, Still, LiveRows, RecoveredRows, Files, Fresh, Unique

\* A capture only moves on.
LEMMA MovesOn ==
    ASSUME BaseInv, [Next]_vars, NEW x \in Exchange
    PROVE  /\ pc[x] # "new" => pc'[x] # "new"
           /\ pc[x] \in Ended => pc'[x] \in Ended
           /\ pc[x] \in {"written", "done", "dead", "crashed"} =>
                 pc'[x] \in {"written", "done", "dead", "crashed"}
<1> USE DEF Ended
<1>0. pc \in [Exchange -> Step]
  BY DEF BaseInv, TypeOK
<1>1. CASE UNCHANGED pc
  BY <1>1
<1>2. ASSUME NEW y \in Exchange, NEW c \in Conn, NEW ok \in BOOLEAN, RecordCapture(y, c, ok)
      PROVE  pc[y] = "new" /\ pc' \in {[pc EXCEPT ![y] = "done"], [pc EXCEPT ![y] = "recorded"]}
  BY <1>2 DEF RecordCapture, Goto
<1>3. ASSUME NEW y \in Exchange, Process(y)
      PROVE  /\ pc[y] \notin Resting
             /\ \E p \in Step \ {"new"} :
                  /\ pc' = [pc EXCEPT ![y] = p]
                  /\ pc[y] = "written" => p = "done"
  BY <1>3 DEF Process, RefuseCapture, Resolve, WriteSessionRow, AppendTurn, WriteFails,
              UpdateTotals, EndAt, Goto, Step, Resting
<1>4. CASE Crash
  BY <1>0, <1>4 DEF Crash
<1>5. CASE Recover \/ Boot \/ BootWithoutRecovery \/ StartReprocess
  BY <1>5 DEF Recover, RejectFile, Probe, ReplayInsert, ReplayFails, ReplayTotals,
              FinishRecovery, AbortRecovery, EndRecovery, Boot, BootWithoutRecovery,
              StartReprocess, StartRecovery, live
<1>6. ASSUME NEW y \in Exchange, NEW c \in Conn, NEW ok \in BOOLEAN, RecordCapture(y, c, ok)
      PROVE  /\ pc[x] # "new" => pc'[x] # "new"
             /\ pc[x] \in Ended => pc'[x] \in Ended
             /\ pc[x] \in {"written", "done", "dead", "crashed"} =>
                   pc'[x] \in {"written", "done", "dead", "crashed"}
  BY <1>0, <1>2, <1>6
<1>7. ASSUME NEW y \in Exchange, Process(y)
      PROVE  /\ pc[x] # "new" => pc'[x] # "new"
             /\ pc[x] \in Ended => pc'[x] \in Ended
             /\ pc[x] \in {"written", "done", "dead", "crashed"} =>
                   pc'[x] \in {"written", "done", "dead", "crashed"}
  <2>1. PICK p \in Step \ {"new"} :
                /\ pc' = [pc EXCEPT ![y] = p]
                /\ pc[y] = "written" => p = "done"
    BY <1>3, <1>7
  <2>2. pc[y] \notin Resting /\ pc'[y] = p /\ p # "new"
    BY <1>0, <1>3, <1>7, <2>1
  <2>3. CASE x = y
    BY <2>1, <2>2, <2>3 DEF Resting
  <2>4. CASE x # y
    BY <1>0, <2>1, <2>4
  <2>5. QED
    BY <2>3, <2>4
<1>8. QED
  BY <1>1, <1>4, <1>5, <1>6, <1>7 DEF Next, vars, live

\* A step that begins a recovery run finds no capture at work.
LEMMA StillStays ==
    ASSUME ~Overlap, ApartInv, [Next]_vars
    PROVE  Still'
<1> USE DEF ApartInv, BaseInv, TypeOK, Still, Resting
<1>1. CASE UNCHANGED << gateway, replay_pc, pc >>
  BY <1>1
<1>2. ASSUME NEW x \in Exchange, NEW c \in Conn, NEW ok \in BOOLEAN, RecordCapture(x, c, ok)
      PROVE  Still'
  BY <1>2 DEF RecordCapture, recovery
<1>3. ASSUME NEW x \in Exchange, Process(x)
      PROVE  Still'
  <2>1. UNCHANGED << gateway, replay_pc >> /\ pc[x] \notin Resting
    BY <1>3 DEF Process, RefuseCapture, Resolve, WriteSessionRow, AppendTurn, WriteFails,
                UpdateTotals, recovery, Ended
  <2>2. QED
    BY <2>1
<1>4. CASE Recover
  <2>1. UNCHANGED live /\ replay_pc # "off"
    BY <1>4 DEF Recover, RejectFile, Probe, ReplayInsert, ReplayFails, ReplayTotals,
                FinishRecovery, AbortRecovery, EndRecovery
  <2>2. QED
    BY <2>1 DEF live
<1>5. CASE Crash
  BY <1>5 DEF Crash, Ended
<1>6. CASE Boot \/ BootWithoutRecovery
  BY <1>6 DEF Boot, BootWithoutRecovery, StartRecovery, live
<1>7. CASE StartReprocess
  BY <1>7 DEF StartReprocess, StartRecovery, live, Busy, Placed
<1>8. QED
  BY <1>1, <1>2, <1>3, <1>4, <1>5, <1>6, <1>7 DEF Next, vars, live, recovery

\* The rows of an exchange after a step: at most one more, and then it had none.
LEMMA NewRow ==
    ASSUME ~Overlap, ApartInv, [Next]_vars
    PROVE  \/ UNCHANGED log
           \/ \E x \in Exchange, k \in {"live", "recovered"} :
                /\ Appended(SessionOf[x], << x, k >>)
                /\ ~HasRow(x)
                /\ k = "live" => pc'[x] \in {"written", "dead"} /\ replay_pc = "off"
                                 /\ UNCHANGED replay_pc
                /\ k = "recovered" => pc'[x] \in Ended /\ replay_pc' # "insert"
<1> USE DEF ApartInv, BaseInv, TypeOK, Ended
<1>1. ASSUME NEW x \in Exchange, pc[x] = "session",
             pc' \in {[pc EXCEPT ![x] = "written"], [pc EXCEPT ![x] = "dead"]},
             Appended(SessionOf[x], << x, "live" >>), UNCHANGED recovery
      PROVE  /\ ~HasRow(x)
             /\ pc'[x] \in {"written", "dead"}
             /\ replay_pc = "off" /\ UNCHANGED replay_pc
  <2>1. ASSUME NEW row \in RowsOf(SessionOf[x]), row[1] = x
        PROVE  FALSE
    <3>1. row \in Row
      BY DEF RowsOf
    <3>2. row = << x, "live" >> \/ row = << x, "recovered" >>
      BY <2>1, <3>1 DEF Row
    <3>3. pc[x] # "session"
      <4>1. CASE row = << x, "live" >>
        BY <2>1, <4>1 DEF LiveRows
      <4>2. CASE row = << x, "recovered" >>
        BY <2>1, <4>2 DEF RecoveredRows
      <4>3. QED
        BY <3>2, <4>1, <4>2
    <3>4. QED
      BY <1>1, <3>3
  <2>2. QED
    BY <1>1, <2>1 DEF HasRow, Still, Resting, recovery
<1>2. ASSUME replay_pc = "insert", UNCHANGED pc
      PROVE  orphan \in Exchange /\ ~HasRow(orphan) /\ pc'[orphan] \in Ended
  BY <1>2 DEF Fresh, Files, Still, Resting
<1> HIDE DEF ApartInv, BaseInv, TypeOK, Ended
<1>3. TypeOK
  BY DEF ApartInv, BaseInv
<1>4. QED
  BY <1>1, <1>2, <1>3, LogChanges DEF vars

\* What the rows say of their captures stays true.
LEMMA RowPartsStay ==
    ASSUME ~Overlap, ApartInv, [Next]_vars
    PROVE  LiveRows' /\ RecoveredRows' /\ Unique'
<1> USE DEF LiveRows, RecoveredRows
<1>1. TypeOK /\ LiveRows /\ RecoveredRows /\ Unique
  BY DEF ApartInv, BaseInv
<1>2. \A x \in Exchange : /\ pc[x] \in Ended => pc'[x] \in Ended
                          /\ pc[x] \in {"written", "done", "dead", "crashed"} =>
                                pc'[x] \in {"written", "done", "dead", "crashed"}
  BY MovesOn DEF ApartInv
<1>3. CASE UNCHANGED log
  BY <1>1, <1>2, <1>3 DEF RowsOf, Unique
<1>4. ASSUME NEW x \in Exchange, NEW k \in {"live", "recovered"},
             Appended(SessionOf[x], << x, k >>), ~HasRow(x),
             k = "live" => pc'[x] \in {"written", "dead"},
             k = "recovered" => pc'[x] \in Ended
      PROVE  LiveRows' /\ RecoveredRows' /\ Unique'
  <2> DEFINE s == SessionOf[x]
             row == << x, k >>
  <2>1. s \in Session /\ row \in Row
    BY DEF Row
  <2>2. /\ log' \in [Session -> Seq(Row)]
        /\ log'[s] = Append(log[s], row)
        /\ \A u \in Session \ {s} : log'[u] = log[u]
        /\ RowsOf(s)' = RowsOf(s) \cup {row}
        /\ \A u \in Session \ {s} : RowsOf(u)' = RowsOf(u)
    BY <1>1, <1>4, <2>1, AppendedRow
  <2>3. \A y \in Exchange : \A r \in RowsOf(SessionOf[y])' :
            r \in RowsOf(SessionOf[y]) \/ r = row
    BY <2>2
  <2>4. LiveRows' /\ RecoveredRows'
    BY <1>1, <1>2, <1>4, <2>3
  <2>5. ASSUME NEW y \in Exchange,
               NEW i \in 1 .. Len(log'[SessionOf[y]]), NEW j \in 1 .. Len(log'[SessionOf[y]]),
               log'[SessionOf[y]][i][1] = y, log'[SessionOf[y]][j][1] = y
        PROVE  i = j
    <3>1. CASE SessionOf[y] # s
      BY <1>1, <2>2, <2>5, <3>1 DEF Unique
    <3>2. CASE SessionOf[y] = s
      <4> DEFINE q == log[s]
      <4>1. q \in Seq(Row) /\ Len(q) \in Nat /\ log'[s] = Append(q, row)
        BY <1>1, <2>1, <2>2 DEF TypeOK
      <4>2. /\ Len(Append(q, row)) = Len(q) + 1
            /\ Append(q, row)[Len(q) + 1] = row
            /\ \A n \in 1 .. Len(q) : Append(q, row)[n] = q[n]
        BY <2>1, <4>1
      <4>3. \A n \in 1 .. Len(q) : q[n][1] # x
        BY <1>4 DEF HasRow, RowsOf
      <4>4. \A n, m \in 1 .. Len(q) : q[n][1] = y /\ q[m][1] = y => n = m
        BY <1>1, <3>2 DEF Unique
      <4>5. i \in 1 .. Len(q) + 1 /\ j \in 1 .. Len(q) + 1
            /\ Append(q, row)[i][1] = y /\ Append(q, row)[j][1] = y
        BY <2>5, <3>2, <4>1, <4>2
      <4>6. row[1] = x
        OBVIOUS
      <4> HIDE DEF q, row
      <4>7. CASE y = x
        BY <4>1, <4>2, <4>3, <4>5, <4>7
      <4>8. CASE y # x
        BY <4>1, <4>2, <4>4, <4>5, <4>6, <4>8
      <4>9. QED
        BY <4>7, <4>8
    <3>3. QED
      BY <3>1, <3>2
  <2>6. QED
    BY <2>4, <2>5 DEF Unique
<1>5. QED
  BY <1>3, <1>4, NewRow

\* Recovery goes through the files of captures, which no step takes away.
LEMMA FilesStay ==
    ASSUME ApartInv, [Next]_vars
    PROVE  Files'
<1> USE DEF Files
<1>1. TypeOK /\ Files
  BY DEF ApartInv, BaseInv
<1>2. \A x \in Exchange : pc[x] # "new" => pc'[x] # "new"
  BY MovesOn DEF ApartInv
<1>3. meta \subseteq Exchange
  BY <1>1 DEF TypeOK
<1>4. ASSUME meta' = meta, scan' \subseteq meta, orphan' # None => orphan' \in meta
      PROVE  Files'
  BY <1>1, <1>2, <1>3, <1>4
<1>5. CASE UNCHANGED << meta, scan, orphan >>
  BY <1>1, <1>4, <1>5
<1>6. ASSUME NEW x \in Exchange, NEW c \in Conn, NEW ok \in BOOLEAN, RecordCapture(x, c, ok)
      PROVE  Files'
  <2>1. pc'[x] # "new" /\ meta \subseteq meta' /\ meta' \subseteq meta \cup {x}
        /\ UNCHANGED << scan, orphan >>
    BY <1>1, <1>6 DEF RecordCapture, Goto, recovery, TypeOK
  <2>2. QED
    BY <1>1, <1>2, <1>3, <2>1
<1>7. ASSUME NEW x \in Exchange, RejectFile(x) \/ Probe(x)
      PROVE  Files'
  BY <1>1, <1>4, <1>7 DEF RejectFile, Probe
<1>8. CASE \/ ReplayInsert \/ ReplayFails \/ \E ok \in BOOLEAN : ReplayTotals(ok)
           \/ FinishRecovery \/ AbortRecovery
  <2>1. meta' = meta /\ scan' \in {scan, {}} /\ orphan' \in {orphan, None}
    BY <1>8 DEF ReplayInsert, ReplayFails, ReplayTotals, FinishRecovery, AbortRecovery,
                EndRecovery, AfterInsert, NextFile, ToTotals
  <2>2. QED
    BY <1>1, <1>4, <2>1
<1>9. CASE Crash \/ Boot \/ BootWithoutRecovery \/ StartReprocess
  <2>1. meta' = meta /\ scan' \in {scan, {}, meta} /\ orphan' \in {orphan, None}
    BY <1>9 DEF Crash, Boot, BootWithoutRecovery, StartReprocess, StartRecovery, recovery
  <2>2. QED
    BY <1>1, <1>4, <2>1
<1>10. ASSUME NEW x \in Exchange, Process(x)
       PROVE  UNCHANGED << meta, scan, orphan >>
  BY <1>10 DEF Process, RefuseCapture, Resolve, WriteSessionRow, AppendTurn, WriteFails,
               UpdateTotals, recovery
<1>11. QED
  BY <1>5, <1>6, <1>7, <1>8, <1>9, <1>10 DEF Next, Recover, vars, recovery

\* Nothing is inserted between the probe of an orphan and its own insert.
LEMMA FreshStays ==
    ASSUME ~Overlap, ApartInv, [Next]_vars
    PROVE  Fresh'
<1> USE DEF Fresh
<1>1. TypeOK /\ Fresh /\ Still
  BY DEF ApartInv, BaseInv
<1>2. CASE UNCHANGED << log, replay_pc, orphan >>
  BY <1>1, <1>2 DEF HasRow, RowsOf
<1>3. CASE replay_pc' # "insert"
  BY <1>3
<1>4. ASSUME NEW x \in Exchange, Probe(x)
      PROVE  Fresh'
  <2>1. UNCHANGED log /\ (replay_pc' = "insert" => ~Known(x) /\ orphan' = x)
    BY <1>4 DEF Probe
  <2>2. ~Known(x) => ~HasRow(x)
    BY DEF Known
  <2>3. QED
    BY <2>1, <2>2 DEF HasRow, RowsOf
<1>5. ASSUME NEW x \in Exchange, Process(x)
      PROVE  replay_pc' # "insert"
  <2>1. pc[x] \notin Resting /\ UNCHANGED replay_pc
    BY <1>5 DEF Process, RefuseCapture, Resolve, WriteSessionRow, AppendTurn, WriteFails,
                UpdateTotals, recovery, Resting, Ended
  <2>2. QED
    BY <1>1, <2>1 DEF Still
<1>6. ASSUME NEW x \in Exchange, NEW c \in Conn, NEW ok \in BOOLEAN,
             RecordCapture(x, c, ok) \/ RejectFile(x)
      PROVE  UNCHANGED << log, replay_pc, orphan >>
  BY <1>6 DEF RecordCapture, RejectFile, recovery
<1>7. CASE \/ ReplayInsert \/ ReplayFails \/ \E ok \in BOOLEAN : ReplayTotals(ok)
           \/ FinishRecovery \/ AbortRecovery \/ Crash \/ Boot \/ StartReprocess
  BY <1>3, <1>7 DEF ReplayInsert, ReplayFails, ReplayTotals, FinishRecovery, AbortRecovery,
                EndRecovery, AfterInsert, NextFile, ToTotals, Crash, Boot, StartReprocess,
                StartRecovery
<1>8. CASE BootWithoutRecovery
  BY <1>2, <1>8 DEF BootWithoutRecovery, recovery
<1>9. ASSUME NEW x \in Exchange, RejectFile(x)
      PROVE  UNCHANGED << log, replay_pc, orphan >>
  BY <1>9 DEF RejectFile
<1>10. QED
  BY <1>2, <1>3, <1>4, <1>5, <1>6, <1>7, <1>8, <1>9 DEF Next, Recover, vars, recovery

\* Every step keeps the invariant.
LEMMA ApartStays ==
    ASSUME ~Overlap, ApartInv, [Next]_vars
    PROVE  ApartInv'
<1>1. BaseInv'
  BY TypesStay, DownStays, PlacedStays, SessionFirstStays, CoveredStays DEF BaseInv, ApartInv
<1>2. QED
  BY <1>1, StillStays, RowPartsStay, FilesStay, FreshStays DEF ApartInv

\* The time between probe and insert is safe without a lock: while recovery runs
\* no capture is at work, and an exchange that the probe did not find in the
\* tables still has no turn when its replay is inserted (replay_orphan), when
\* reprocess is kept away from captures at work.
THEOREM ProbeStaysTrue == ASSUME ~Overlap PROVE Spec => [](Still /\ Fresh)
<1>1. ApartInv /\ [Next]_vars => ApartInv'
  BY ApartStays
<1>2. ApartInv => Still /\ Fresh
  BY DEF ApartInv
<1>3. QED
  BY <1>1, <1>2, ApartInit, PTL DEF Spec

\* An exchange has at most one turn, live or recovered (recovery.rs: the probe
\* "cannot race the live capture path's insert"), when reprocess is kept away
\* from captures at work; capture_reprocess shows that it needs that.
THEOREM OneTurn == ASSUME ~Overlap PROVE Spec => []OneTurnPerExchange
<1>1. ApartInv /\ [Next]_vars => ApartInv'
  BY ApartStays
<1>2. ApartInv => OneTurnPerExchange
  <2>1. SUFFICES ASSUME ApartInv, NEW x \in Exchange
                 PROVE  Cardinality({i \in 1 .. Len(log[SessionOf[x]]) :
                                        log[SessionOf[x]][i][1] = x}) <= 1
    BY DEF OneTurnPerExchange
  <2> DEFINE S == {i \in 1 .. Len(log[SessionOf[x]]) : log[SessionOf[x]][i][1] = x}
  <2>2. \A i, j \in S : i = j
    BY <2>1 DEF ApartInv, Unique
  <2> HIDE DEF S
  <2>3. ASSUME S = {} PROVE Cardinality(S) <= 1
    BY <2>3, FS_EmptySet
  <2>4. ASSUME S # {} PROVE Cardinality(S) <= 1
    <3>1. PICK i \in S : TRUE
      BY <2>4
    <3>2. S = {i}
      BY <2>2, <3>1
    <3>3. Cardinality({i}) = 1
      BY FS_Singleton
    <3>4. QED
      BY <3>2, <3>3
  <2>5. Cardinality(S) <= 1
    BY <2>3, <2>4
  <2>6. QED
    BY <2>5 DEF S
<1>3. QED
  BY <1>1, <1>2, ApartInit, PTL DEF Spec

-----------------------------------------------------------------------------
(* Session totals.                                                         *)

\* Captures that may still add one to total_turns, or write the row with it.
Owed(s) ==
    {x \in Exchange : /\ SessionOf[x] = s
                      /\ \/ pc[x] \in {"recorded", "resolved"}
                         \/ pc[x] \in {"session", "written"} /\ ~is_new[x]}

\* The same of the replay at work.
Pending(s) ==
    IF replay_pc # "totals" THEN 0 ELSE IF SessionOf[orphan] = s THEN 1 ELSE 0

Due(s) == IF total[s] = None THEN 0 ELSE total[s]

\* What is counted or will be has a turn, or a capture without one.
Paid(s) ==
    Due(s) + Pending(s) + Cardinality(Owed(s)) <= Len(log[s]) + Cardinality(Uncounted(s))

\* Turns have a session row, and a replay into a known session finds it.
RowsHaveSession ==
    /\ \A s \in Session : log[s] # << >> => total[s] # None
    /\ replay_pc = "insert" /\ ~replay_new => total[SessionOf[orphan]] # None

\* A capture that was done, other than a handshake, has its turn.
DoneHasRow == \A x \in Exchange \ Upgrade : pc[x] \in {"written", "done"} => HasRow(x)

TotalsInv == ApartInv /\ RowsHaveSession /\ DoneHasRow /\ \A s \in Session : Paid(s)

\* What an element adds to the size of a set.
One(x, S) == IF x \in S THEN 1 ELSE 0

\* An element of a finite set counts for one.
LEMMA CountOne ==
    ASSUME NEW S, IsFiniteSet(S), NEW x
    PROVE  /\ Cardinality(S \ {x}) \in Nat
           /\ Cardinality(S) = Cardinality(S \ {x}) + One(x, S)
<1>0. IsFiniteSet(S \ {x}) /\ Cardinality(S) \in Nat /\ Cardinality(S \ {x}) \in Nat
  BY FS_RemoveElement, FS_CardinalityType
<1>1. ASSUME x \in S PROVE Cardinality(S) = Cardinality(S \ {x}) + One(x, S)
  <2>1. Cardinality(S \ {x}) = Cardinality(S) - 1
    BY <1>1, FS_RemoveElement
  <2>2. One(x, S) = 1
    BY <1>1 DEF One
  <2>3. QED
    BY <1>0, <2>1, <2>2
<1>2. ASSUME x \notin S PROVE Cardinality(S) = Cardinality(S \ {x}) + One(x, S)
  <2>1. S \ {x} = S
    BY <1>2
  <2>2. One(x, S) = 0
    BY <1>2 DEF One
  <2>3. Cardinality(S \ {x}) = Cardinality(S)
    BY <2>1, Zenon
  <2>4. QED
    BY <1>0, <2>2, <2>3
<1>3. QED
  BY <1>0, <1>1, <1>2

\* Both sets are finite, before and after a step.
LEMMA FiniteSides ==
    ASSUME IsFiniteSet(Exchange), NEW s \in Session
    PROVE  /\ IsFiniteSet(Owed(s)) /\ IsFiniteSet(Uncounted(s))
           /\ IsFiniteSet(Owed(s)') /\ IsFiniteSet(Uncounted(s)')
           /\ Cardinality(Owed(s)) \in Nat /\ Cardinality(Uncounted(s)) \in Nat
           /\ Cardinality(Owed(s)') \in Nat /\ Cardinality(Uncounted(s)') \in Nat
<1>1. /\ Owed(s) \subseteq Exchange /\ Uncounted(s) \subseteq Exchange
      /\ Owed(s)' \subseteq Exchange /\ Uncounted(s)' \subseteq Exchange
  BY DEF Owed, Uncounted
<1> HIDE DEF Owed, Uncounted
<1>2. QED
  BY <1>1, FS_Subset, FS_CardinalityType

\* A step of one capture pays when it pays for that capture.
LEMMA OneMoves ==
    ASSUME IsFiniteSet(Exchange), NEW x \in Exchange, NEW s \in Session,
           \A y \in Exchange \ {x} : pc'[y] = pc[y] /\ is_new'[y] = is_new[y],
           Paid(s),
           Due(s) \in Nat, Due(s)' \in Nat, Len(log[s]) \in Nat, Len(log'[s]) \in Nat,
           Pending(s) \in Nat, Pending(s)' \in Nat,
           Due(s)' + Pending(s)' + One(x, Owed(s)')
                + Len(log[s]) + One(x, Uncounted(s))
             <= Due(s) + Pending(s) + One(x, Owed(s))
                + Len(log'[s]) + One(x, Uncounted(s)')
    PROVE  Paid(s)'
<1>1. Owed(s)' \ {x} = Owed(s) \ {x} /\ Uncounted(s)' \ {x} = Uncounted(s) \ {x}
  BY DEF Owed, Uncounted
<1> DEFINE m == Cardinality(Owed(s) \ {x})
           n == Cardinality(Uncounted(s) \ {x})
           o == One(x, Owed(s))
           o1 == One(x, Owed(s)')
           u == One(x, Uncounted(s))
           u1 == One(x, Uncounted(s)')
           a == Due(s) + Pending(s)
           a1 == Due(s)' + Pending(s)'
           l == Len(log[s])
           l1 == Len(log'[s])
<1>2. /\ m \in Nat /\ n \in Nat
      /\ Cardinality(Owed(s)) = m + o /\ Cardinality(Uncounted(s)) = n + u
      /\ Cardinality(Owed(s)') = m + o1 /\ Cardinality(Uncounted(s)') = n + u1
  BY <1>1, FiniteSides, CountOne
<1>3. o \in Nat /\ o1 \in Nat /\ u \in Nat /\ u1 \in Nat
      /\ a \in Nat /\ a1 \in Nat /\ l \in Nat /\ l1 \in Nat
  <2>1. \A set : One(x, set) \in Nat
    BY DEF One
  <2>2. o \in Nat /\ o1 \in Nat /\ u \in Nat /\ u1 \in Nat
    BY <2>1
  <2>3. a \in Nat /\ a1 \in Nat /\ l \in Nat /\ l1 \in Nat
    OBVIOUS
  <2>4. QED
    BY <2>2, <2>3
<1>4. a + (m + o) <= l + (n + u)
  BY <1>2 DEF Paid
<1>5. a1 + o1 + l + u <= a + o + l1 + u1
  OBVIOUS
<1>6. m \in Nat /\ n \in Nat
  BY <1>2
<1>7. ASSUME a1 + (m + o1) <= l1 + (n + u1) PROVE Paid(s)'
  BY <1>2, <1>7 DEF Paid
<1> HIDE DEF m, n, o, o1, u, u1, a, a1, l, l1
<1>8. a1 + (m + o1) <= l1 + (n + u1)
  BY <1>3, <1>4, <1>5, <1>6
<1>9. QED
  BY <1>7, <1>8

\* Sizes are numbers.
LEMMA Numbers ==
    ASSUME TypeOK, TypeOK', NEW s \in Session
    PROVE  /\ Due(s) \in Nat /\ Due(s)' \in Nat
           /\ Pending(s) \in {0, 1} /\ Pending(s)' \in {0, 1}
           /\ Len(log[s]) \in Nat /\ Len(log'[s]) \in Nat
<1>1. /\ total[s] \in Nat \cup {None} /\ total'[s] \in Nat \cup {None}
      /\ log[s] \in Seq(Row) /\ log'[s] \in Seq(Row)
  BY DEF TypeOK
<1>2. Due(s) \in Nat /\ Due(s)' \in Nat
  BY <1>1 DEF Due
<1>3. Pending(s) \in {0, 1} /\ Pending(s)' \in {0, 1}
  BY DEF Pending
<1>4. QED
  BY <1>1, <1>2, <1>3

\* A live capture pays for what it counts.
LEMMA LivePays ==
    ASSUME IsFiniteSet(Exchange), TotalsInv, TypeOK', NEW x \in Exchange, Process(x),
           NEW s \in Session
    PROVE  Paid(s)'
<1> USE DEF One
<1>1. TypeOK /\ SessionFirst /\ Paid(s)
  BY DEF TotalsInv, ApartInv, BaseInv
<1>2. /\ Due(s) \in Nat /\ Due(s)' \in Nat
      /\ Pending(s) \in {0, 1} /\ Pending(s)' = Pending(s)
      /\ Len(log[s]) \in Nat /\ Len(log'[s]) \in Nat
  <2>1. UNCHANGED << replay_pc, orphan >>
    BY DEF Process, RefuseCapture, Resolve, WriteSessionRow, AppendTurn, WriteFails,
           UpdateTotals, recovery
  <2>2. QED
    BY <1>1, <2>1, Numbers DEF Pending
<1>3. \A y \in Exchange \ {x} : pc'[y] = pc[y] /\ is_new'[y] = is_new[y]
  <2>1. pc \in [Exchange -> Step] /\ is_new \in [Exchange -> BOOLEAN]
    BY <1>1 DEF TypeOK
  <2>2. /\ \E k \in Step : pc' = [pc EXCEPT ![x] = k]
        /\ is_new' = is_new \/ \E b \in BOOLEAN : is_new' = [is_new EXCEPT ![x] = b]
    BY DEF Process, RefuseCapture, Resolve, WriteSessionRow, AppendTurn, WriteFails,
           UpdateTotals, EndAt, Goto, Step, Ended
  <2>3. QED
    BY <2>1, <2>2
<1>4. SUFFICES Due(s)' + One(x, Owed(s)') + Len(log[s]) + One(x, Uncounted(s))
                  <= Due(s) + One(x, Owed(s)) + Len(log'[s]) + One(x, Uncounted(s)')
  <2>1. SUFFICES ASSUME Due(s)' + One(x, Owed(s)') + Len(log[s]) + One(x, Uncounted(s))
                          <= Due(s) + One(x, Owed(s)) + Len(log'[s]) + One(x, Uncounted(s)')
                 PROVE  Paid(s)'
    OBVIOUS
  <2>2. /\ One(x, Owed(s)) \in Nat /\ One(x, Owed(s)') \in Nat
        /\ One(x, Uncounted(s)) \in Nat /\ One(x, Uncounted(s)') \in Nat
    OBVIOUS
  <2> HIDE DEF One
  <2>3. Due(s)' + Pending(s)' + One(x, Owed(s)') + Len(log[s]) + One(x, Uncounted(s))
          <= Due(s) + Pending(s) + One(x, Owed(s)) + Len(log'[s]) + One(x, Uncounted(s)')
    <3> DEFINE d == Due(s)
               d1 == Due(s)'
               w == Pending(s)
               w1 == Pending(s)'
               o == One(x, Owed(s))
               o1 == One(x, Owed(s)')
               u == One(x, Uncounted(s))
               u1 == One(x, Uncounted(s)')
               l == Len(log[s])
               l1 == Len(log'[s])
    <3>1. /\ d \in Nat /\ d1 \in Nat /\ w \in Nat /\ w1 = w /\ l \in Nat /\ l1 \in Nat
          /\ o \in Nat /\ o1 \in Nat /\ u \in Nat /\ u1 \in Nat
          /\ d1 + o1 + l + u <= d + o + l1 + u1
      <4>1. /\ d \in Nat /\ d1 \in Nat /\ w \in Nat /\ w1 = w /\ l \in Nat /\ l1 \in Nat
        BY <1>2
      <4>2. o \in Nat /\ o1 \in Nat /\ u \in Nat /\ u1 \in Nat
        BY <2>2
      <4>3. d1 + o1 + l + u <= d + o + l1 + u1
        BY <2>1
      <4>4. QED
        BY <4>1, <4>2, <4>3
    <3> HIDE DEF d, d1, w, w1, o, o1, u, u1, l, l1
    <3>2. d1 + w1 + o1 + l + u <= d + w + o + l1 + u1
      BY <3>1
    <3>3. QED
      BY <3>2 DEF d, d1, w, w1, o, o1, u, u1, l, l1
  <2>4. Pending(s) \in Nat /\ Pending(s)' \in Nat
    BY <1>2
  <2>5. QED
    BY <1>1, <1>2, <1>3, <2>3, <2>4, OneMoves
<1>5. /\ x \in Owed(s) <=> /\ SessionOf[x] = s
                           /\ \/ pc[x] \in {"recorded", "resolved"}
                              \/ pc[x] \in {"session", "written"} /\ ~is_new[x]
      /\ x \in Owed(s)' <=> /\ SessionOf[x] = s
                            /\ \/ pc'[x] \in {"recorded", "resolved"}
                               \/ pc'[x] \in {"session", "written"} /\ ~is_new'[x]
      /\ x \in Uncounted(s) <=> /\ SessionOf[x] = s
                                /\ pc[x] \notin {"new", "written", "done"} \/ x \in Upgrade
      /\ x \in Uncounted(s)' <=> /\ SessionOf[x] = s
                                 /\ pc'[x] \notin {"new", "written", "done"} \/ x \in Upgrade
  BY DEF Owed, Uncounted
<1>6. /\ SessionOf[x] \in Session /\ pc \in [Exchange -> Step] /\ log \in [Session -> Seq(Row)]
      /\ total \in [Session -> Nat \cup {None}] /\ is_new \in [Exchange -> BOOLEAN]
  BY <1>1 DEF TypeOK
<1>7. CASE RefuseCapture(x)
  <2>1. /\ pc[x] = "recorded" /\ pc'[x] = "refused" /\ log' = log /\ Due(s)' = Due(s)
    BY <1>6, <1>7 DEF RefuseCapture, EndAt, Goto, Due
  <2>2. QED
    BY <1>2, <1>5, <2>1
<1>8. ASSUME NEW r \in BOOLEAN, Resolve(x, r)
      PROVE  Due(s)' + One(x, Owed(s)') + Len(log[s]) + One(x, Uncounted(s))
                  <= Due(s) + One(x, Owed(s)) + Len(log'[s]) + One(x, Uncounted(s)')
  <2>1. pc[x] = "recorded" /\ pc'[x] = "resolved" /\ log' = log /\ Due(s)' = Due(s)
    BY <1>6, <1>8 DEF Resolve, Goto, Due
  <2>2. QED
    BY <1>2, <1>5, <2>1
<1>9. CASE WriteSessionRow(x)
  <2>1. pc[x] = "resolved" /\ pc'[x] = "session" /\ log' = log /\ is_new' = is_new
    BY <1>6, <1>9 DEF WriteSessionRow, Goto
  <2>2. Due(s)' = IF SessionOf[x] = s /\ total[s] = None /\ is_new[x] THEN 1 ELSE Due(s)
    BY <1>6, <1>9 DEF WriteSessionRow, Due
  <2>3. total[s] = None => Due(s) = 0
    BY DEF Due
  <2>4. QED
    BY <1>2, <1>5, <2>1, <2>2, <2>3
<1>10. ASSUME Appended(SessionOf[x], << x, "live" >>)
       PROVE  SessionOf[x] = s => Len(log'[s]) = Len(log[s]) + 1
  BY <1>1, <1>6, <1>10, AppendedRow DEF Row
<1>11. CASE AppendTurn(x)
  <2>1. /\ pc[x] = "session" /\ pc'[x] = "written" /\ is_new' = is_new /\ Due(s)' = Due(s)
        /\ Appended(SessionOf[x], << x, "live" >>)
    BY <1>6, <1>11 DEF AppendTurn, AppendLive, Appended, Goto, Due
  <2>2. SessionOf[x] # s => log'[s] = log[s]
    BY <1>6, <2>1 DEF Appended
  <2>3. QED
    BY <1>2, <1>5, <1>10, <2>1, <2>2
<1>12. CASE WriteFails(x)
  <2>1. /\ pc[x] \in {"resolved", "session"} /\ pc'[x] = "dead" /\ Due(s)' = Due(s)
        /\ UNCHANGED log \/ Appended(SessionOf[x], << x, "live" >>)
    BY <1>6, <1>12 DEF WriteFails, AppendLive, Appended, EndAt, Goto, Due
  <2>2. CASE UNCHANGED log
    BY <1>2, <1>5, <2>1, <2>2
  <2>3. CASE Appended(SessionOf[x], << x, "live" >>)
    <3>1. SessionOf[x] # s => log'[s] = log[s]
      BY <1>6, <2>3 DEF Appended
    <3>2. SessionOf[x] = s => Len(log'[s]) = Len(log[s]) + 1
      BY <1>10, <2>3
    <3>3. /\ x \notin Owed(s)' /\ (SessionOf[x] # s => x \notin Uncounted(s))
          /\ x \in Uncounted(s) => x \in Uncounted(s)'
      BY <1>5, <2>1
    <3>4. /\ One(x, Owed(s)) \in Nat /\ One(x, Owed(s)') = 0
          /\ One(x, Uncounted(s)) \in {0, 1} /\ One(x, Uncounted(s)') \in {0, 1}
          /\ One(x, Uncounted(s)) <= One(x, Uncounted(s)')
      BY <3>3
    <3> HIDE DEF One
    <3>5. Len(log[s]) <= Len(log'[s])
      BY <1>2, <3>1, <3>2
    <3> DEFINE d == Due(s)
               o == One(x, Owed(s))
               u == One(x, Uncounted(s))
               u1 == One(x, Uncounted(s)')
               l == Len(log[s])
               l1 == Len(log'[s])
    <3>6. /\ d \in Nat /\ o \in Nat /\ u \in Nat /\ u1 \in Nat /\ l \in Nat /\ l1 \in Nat
          /\ u <= u1 /\ l <= l1
      BY <1>2, <3>4, <3>5
    <3> HIDE DEF d, o, u, u1, l, l1
    <3>7. d + 0 + l + u <= d + o + l1 + u1
      BY <3>6
    <3>8. QED
      BY <2>1, <3>4, <3>7 DEF d, o, u, u1, l, l1
  <2>4. QED
    BY <2>1, <2>2, <2>3
<1>13. ASSUME NEW ok \in BOOLEAN, UpdateTotals(x, ok)
       PROVE  Due(s)' + One(x, Owed(s)') + Len(log[s]) + One(x, Uncounted(s))
                  <= Due(s) + One(x, Owed(s)) + Len(log'[s]) + One(x, Uncounted(s)')
  <2>1. /\ pc[x] = "written" /\ pc'[x] = "done" /\ log' = log
        /\ total[SessionOf[x]] \in Nat
    BY <1>1, <1>6, <1>13 DEF UpdateTotals, EndAt, Goto, SessionFirst
  <2>2. Due(s)' = IF SessionOf[x] = s /\ ok /\ ~is_new[x] THEN Due(s) + 1 ELSE Due(s)
    BY <1>6, <1>13, <2>1 DEF UpdateTotals, Due
  <2>3. QED
    BY <1>2, <1>5, <2>1, <2>2
<1>14. QED
  BY <1>7, <1>8, <1>9, <1>11, <1>12, <1>13 DEF Process

\* A capture that begins owes what it may count.
LEMMA RecordPays ==
    ASSUME IsFiniteSet(Exchange), TotalsInv, TypeOK', NEW s \in Session,
           NEW x \in Exchange, NEW c \in Conn, NEW ok \in BOOLEAN, RecordCapture(x, c, ok)
    PROVE  Paid(s)'
<1>1. TypeOK /\ Paid(s)
  BY DEF TotalsInv, ApartInv, BaseInv
<1>2. /\ Due(s) \in Nat /\ Due(s)' = Due(s) /\ log' = log /\ Len(log[s]) \in Nat
      /\ Pending(s) \in Nat /\ Pending(s)' = Pending(s)
  BY <1>1, Numbers DEF RecordCapture, recovery, Due, Pending
<1>3. /\ pc[x] = "new" /\ pc' = [pc EXCEPT ![x] = IF x \in Upgrade THEN "done" ELSE "recorded"]
      /\ is_new' = is_new /\ pc \in [Exchange -> Step]
  BY <1>1 DEF RecordCapture, Goto, TypeOK
<1>4. One(x, Owed(s)) = 0 /\ One(x, Owed(s)') \in {0, 1}
      /\ One(x, Uncounted(s)) \in {0, 1}
      /\ One(x, Owed(s)') + One(x, Uncounted(s)) <= One(x, Uncounted(s)')
      /\ One(x, Uncounted(s)') \in {0, 1}
  BY <1>3 DEF One, Owed, Uncounted
<1> HIDE DEF One
<1>5. Due(s)' + Pending(s)' + One(x, Owed(s)') + Len(log[s]) + One(x, Uncounted(s))
          <= Due(s) + Pending(s) + One(x, Owed(s)) + Len(log'[s]) + One(x, Uncounted(s)')
  <2> DEFINE d == Due(s)
             w == Pending(s)
             l == Len(log[s])
             o1 == One(x, Owed(s)')
             u == One(x, Uncounted(s))
             u1 == One(x, Uncounted(s)')
  <2>1. /\ d \in Nat /\ w \in Nat /\ l \in Nat /\ o1 \in Nat /\ u \in Nat /\ u1 \in Nat
        /\ o1 + u <= u1
    BY <1>2, <1>4
  <2> HIDE DEF d, w, l, o1, u, u1
  <2>2. d + w + o1 + l + u <= d + w + 0 + l + u1
    BY <2>1
  <2>3. QED
    BY <1>2, <1>4, <2>2 DEF d, w, l, o1, u, u1
<1>6. \A y \in Exchange \ {x} : pc'[y] = pc[y] /\ is_new'[y] = is_new[y]
  BY <1>3
<1>7. Due(s)' \in Nat /\ Len(log'[s]) \in Nat /\ Pending(s)' \in Nat
  BY <1>2
<1>8. QED
  BY <1>1, <1>2, <1>5, <1>6, <1>7, OneMoves

\* A replay pays with its row, or with the capture it could not replay.
LEMMA RecoverPays ==
    ASSUME IsFiniteSet(Exchange), TotalsInv, TypeOK', Recover, NEW s \in Session
    PROVE  Paid(s)'
<1>1. TypeOK /\ SessionFirst /\ Paid(s) /\ Still /\ Fresh /\ RowsHaveSession
  BY DEF TotalsInv, ApartInv, BaseInv
<1>2. Owed(s)' = Owed(s) /\ Uncounted(s)' = Uncounted(s)
  <2>1. UNCHANGED live
    BY DEF Recover, RejectFile, Probe, ReplayInsert, ReplayFails, ReplayTotals,
           FinishRecovery, AbortRecovery, EndRecovery
  <2>2. QED
    BY <2>1 DEF live, Owed, Uncounted
<1>3. /\ Due(s) \in Nat /\ Due(s)' \in Nat
      /\ Pending(s) \in {0, 1} /\ Pending(s)' \in {0, 1}
      /\ Len(log[s]) \in Nat /\ Len(log'[s]) \in Nat
      /\ Cardinality(Owed(s)) \in Nat /\ Cardinality(Uncounted(s)) \in Nat
  BY <1>1, Numbers, FiniteSides
<1>4. ASSUME Due(s)' + Pending(s)' + Len(log[s]) <= Due(s) + Pending(s) + Len(log'[s])
      PROVE  Paid(s)'
  <2> DEFINE a == Due(s) + Pending(s)
             a1 == Due(s)' + Pending(s)'
             l == Len(log[s])
             l1 == Len(log'[s])
             o == Cardinality(Owed(s))
             u == Cardinality(Uncounted(s))
  <2>1. /\ a \in Nat /\ a1 \in Nat /\ l \in Nat /\ l1 \in Nat /\ o \in Nat /\ u \in Nat
        /\ a1 + l <= a + l1
    BY <1>3, <1>4
  <2>2. a + o <= l + u
    BY <1>1 DEF Paid
  <2>3. ASSUME a1 + o <= l1 + u PROVE Paid(s)'
    BY <1>2, <2>3 DEF Paid
  <2> HIDE DEF a, a1, l, l1, o, u
  <2>4. a1 + o <= l1 + u
    BY <2>1, <2>2
  <2>5. QED
    BY <2>3, <2>4
<1>5. ASSUME UNCHANGED << log, total >>, replay_pc # "totals", replay_pc' # "totals"
      PROVE  Paid(s)'
  <2>1. Due(s)' = Due(s) /\ Pending(s) = 0 /\ Pending(s)' = 0
    BY <1>5 DEF Due, Pending
  <2>2. QED
    BY <1>3, <1>4, <1>5, <2>1
<1>6. /\ total \in [Session -> Nat \cup {None}] /\ log \in [Session -> Seq(Row)]
      /\ replay_pc \in {"insert", "totals"} => orphan \in Exchange /\ SessionOf[orphan] \in Session
  BY <1>1 DEF TypeOK
<1>7. ASSUME NEW x \in Exchange, RejectFile(x) \/ Probe(x)
      PROVE  Paid(s)'
  BY <1>5, <1>7 DEF RejectFile, Probe
<1>8. CASE ReplayInsert
  <2>1. /\ replay_pc = "insert"
        /\ total' = [total EXCEPT ![SessionOf[orphan]] = IF @ = None THEN 1 ELSE @]
        /\ replay_pc' = IF replay_new THEN "probe" ELSE "totals"
        /\ ~replay_new => orphan' = orphan
    BY <1>8 DEF ReplayInsert, SessionRowExists, AfterInsert, NextFile, ToTotals
  <2>2. Appended(SessionOf[orphan], << orphan, "recovered" >>)
    <3>1. << orphan, "recovered" >> \notin RowsOf(SessionOf[orphan])
      BY <1>1, <2>1 DEF Fresh, HasRow
    <3>2. QED
      BY <1>8, <3>1 DEF ReplayInsert, Appended
  <2>3. Pending(s) = 0
    BY <2>1 DEF Pending
  <2>4. CASE SessionOf[orphan] = s
    <3>1. Len(log'[s]) = Len(log[s]) + 1
      BY <1>1, <1>6, <2>1, <2>2, <2>4, AppendedRow DEF Row
    <3>2. Pending(s)' = IF replay_new THEN 0 ELSE 1
      BY <2>1, <2>4 DEF Pending
    <3>3. Due(s)' = IF total[s] = None THEN 1 ELSE Due(s)
      BY <1>6, <2>1, <2>4 DEF Due
    <3>4. total[s] = None => Due(s) = 0 /\ replay_new
      BY <1>1, <2>1, <2>4 DEF Due, RowsHaveSession
    <3>5. QED
      BY <1>3, <1>4, <2>3, <3>1, <3>2, <3>3, <3>4
  <2>5. CASE SessionOf[orphan] # s
    <3>1. log'[s] = log[s] /\ Due(s)' = Due(s)
      BY <1>6, <2>1, <2>2, <2>5 DEF Appended, Due
    <3>2. Pending(s)' = 0
      BY <2>1, <2>5 DEF Pending
    <3>3. QED
      BY <1>3, <1>4, <2>3, <3>1, <3>2
  <2>6. QED
    BY <2>4, <2>5
<1>9. CASE ReplayFails
  <2>1. /\ replay_pc = "insert" /\ replay_pc' = "probe" /\ log' = log
        /\ UNCHANGED total \/ SessionRowExists(SessionOf[orphan])
    BY <1>9 DEF ReplayFails, NextFile
  <2>2. CASE total'[s] = total[s]
    <3>1. Due(s)' = Due(s) /\ Pending(s) = 0 /\ Pending(s)' = 0
      BY <2>1, <2>2 DEF Due, Pending
    <3>2. QED
      BY <1>3, <1>4, <2>1, <3>1
  <2>3. CASE total'[s] # total[s]
    <3>1. SessionOf[orphan] = s /\ total'[s] = 1
      BY <1>6, <2>1, <2>3 DEF SessionRowExists
    <3>2. orphan \in Exchange /\ orphan \in Uncounted(s)
      <4>1. orphan \in Exchange /\ orphan \in meta /\ pc[orphan] \in Ended
        BY <1>1, <1>6, <2>1 DEF TotalsInv, ApartInv, Files, Still, Resting, TypeOK
      <4>2. orphan \in Exchange \ Upgrade => pc[orphan] # "done"
        BY <1>1, <2>1 DEF TotalsInv, DoneHasRow, Fresh
      <4>3. QED
        BY <3>1, <4>1, <4>2 DEF Uncounted, Ended
    <3>3. Owed(s) = {}
      BY <1>1, <2>1 DEF Still, Resting, Ended, Owed
    <3>4. Cardinality(Owed(s)) = 0 /\ Cardinality(Uncounted(s)) > 0
      <4>1. Uncounted(s) # {} /\ IsFiniteSet(Uncounted(s))
        BY <3>2, FiniteSides
      <4> HIDE DEF Uncounted, Owed
      <4>2. Cardinality(Uncounted(s)) # 0
        BY <4>1, FS_EmptySet
      <4>3. Cardinality(Owed(s)) = 0
        BY <3>3, FS_EmptySet
      <4>4. QED
        BY <1>3, <4>2, <4>3
    <3>5. Due(s)' + Pending(s)' <= 1
      BY <2>1, <3>1 DEF Due, Pending
    <3>6. QED
      BY <1>2, <1>3, <2>1, <3>4, <3>5 DEF Paid
  <2>4. QED
    BY <2>2, <2>3
<1>10. ASSUME NEW ok \in BOOLEAN, ReplayTotals(ok)
       PROVE  Paid(s)'
  <2>1. replay_pc = "totals" /\ replay_pc' = "probe" /\ log' = log
        /\ total[SessionOf[orphan]] \in Nat
        /\ total' = [total EXCEPT ![SessionOf[orphan]] = IF ok THEN @ + 1 ELSE @]
    BY <1>1, <1>6, <1>10 DEF ReplayTotals, NextFile, SessionFirst
  <2>2. Pending(s)' = 0 /\ Pending(s) = IF SessionOf[orphan] = s THEN 1 ELSE 0
    BY <2>1 DEF Pending
  <2>3. Due(s)' = IF SessionOf[orphan] = s /\ ok THEN Due(s) + 1 ELSE Due(s)
    BY <1>6, <2>1 DEF Due
  <2>4. QED
    BY <1>3, <1>4, <2>1, <2>2, <2>3
<1>11. CASE FinishRecovery \/ AbortRecovery
  BY <1>5, <1>11 DEF FinishRecovery, AbortRecovery, EndRecovery
<1>12. QED
  BY <1>7, <1>8, <1>9, <1>10, <1>11 DEF Recover

\* A crash forgets what was owed, and leaves the captures without a turn.
LEMMA CrashPays ==
    ASSUME IsFiniteSet(Exchange), TotalsInv, TypeOK', Crash, NEW s \in Session
    PROVE  Paid(s)'
<1>1. TypeOK /\ Paid(s)
  BY DEF TotalsInv, ApartInv, BaseInv
<1>2. Due(s)' = Due(s) /\ log' = log /\ Pending(s)' = 0
  BY DEF Crash, Due, Pending
<1>3. Owed(s)' = {} /\ Uncounted(s) \subseteq Uncounted(s)'
  BY <1>1 DEF Crash, Ended, Owed, Uncounted, TypeOK
<1>4. /\ Cardinality(Owed(s)') = 0
      /\ Cardinality(Uncounted(s)) <= Cardinality(Uncounted(s)')
  BY <1>3, FiniteSides, FS_Subset, FS_EmptySet
<1>5. /\ Due(s) \in Nat /\ Pending(s) \in {0, 1} /\ Len(log[s]) \in Nat
      /\ Cardinality(Owed(s)) \in Nat /\ Cardinality(Uncounted(s)) \in Nat
      /\ Cardinality(Uncounted(s)') \in Nat
  BY <1>1, Numbers, FiniteSides
<1>6. Due(s) <= Len(log[s]) + Cardinality(Uncounted(s))
  BY <1>1, <1>5 DEF Paid
<1>7. Due(s)' + Pending(s)' + Cardinality(Owed(s)') <= Len(log'[s]) + Cardinality(Uncounted(s)')
  BY <1>2, <1>4, <1>5, <1>6
<1>8. QED
  BY <1>7 DEF Paid

\* Every step pays.
LEMMA PaidStays ==
    ASSUME IsFiniteSet(Exchange), TotalsInv, TypeOK', [Next]_vars, NEW s \in Session
    PROVE  Paid(s)'
<1>1. TypeOK /\ Down /\ Paid(s)
  BY DEF TotalsInv, ApartInv, BaseInv
<1>2. CASE UNCHANGED << log, total, pc, is_new, replay_pc, orphan >>
  BY <1>1, <1>2 DEF Paid, Due, Pending, Owed, Uncounted
<1>3. CASE Boot \/ StartReprocess
  <2>1. UNCHANGED << log, total, pc, is_new, orphan >> /\ replay_pc = "off" /\ replay_pc' = "probe"
    BY <1>1, <1>3 DEF Boot, StartReprocess, StartRecovery, Down, live
  <2>2. /\ Due(s)' = Due(s) /\ Pending(s)' = Pending(s)
        /\ Owed(s)' = Owed(s) /\ Uncounted(s)' = Uncounted(s)
    BY <2>1 DEF Due, Pending, Owed, Uncounted
  <2>3. QED
    BY <1>1, <2>1, <2>2 DEF Paid
<1>4. CASE BootWithoutRecovery
  BY <1>2, <1>4 DEF BootWithoutRecovery, live, recovery
<1>5. QED
  BY <1>2, <1>3, <1>4, LivePays, RecordPays, RecoverPays, CrashPays
     DEF Next, vars, live, recovery

\* A session row stays.
LEMMA SessionRowsStay ==
    ASSUME BaseInv, [Next]_vars, NEW s \in Session, total[s] # None
    PROVE  total'[s] # None
<1>1. total \in [Session -> Nat \cup {None}] /\ SessionFirst
  BY DEF BaseInv, TypeOK
<1>2. \/ UNCHANGED total
      \/ \E u \in Session, n \in Nat : total' = [total EXCEPT ![u] = n]
      \/ \E u : total' = [total EXCEPT ![u] = IF @ # None THEN @ ELSE 1]
  <2>1. ASSUME NEW x \in Exchange, Process(x)
        PROVE  \/ UNCHANGED total
               \/ \E u \in Session, n \in Nat : total' = [total EXCEPT ![u] = n]
    <3>1. CASE \/ RefuseCapture(x) \/ AppendTurn(x) \/ WriteFails(x)
               \/ \E r \in BOOLEAN : Resolve(x, r)
      BY <3>1 DEF RefuseCapture, AppendTurn, WriteFails, Resolve
    <3>2. CASE WriteSessionRow(x)
      <4>1. \/ total[SessionOf[x]] \in Nat /\ total' = [total EXCEPT ![SessionOf[x]] = total[SessionOf[x]]]
            \/ total' = [total EXCEPT ![SessionOf[x]] = 1]
            \/ total' = [total EXCEPT ![SessionOf[x]] = 0]
        BY <1>1, <3>2 DEF WriteSessionRow
      <4>2. QED
        BY <4>1
    <3>3. ASSUME NEW ok \in BOOLEAN, UpdateTotals(x, ok)
          PROVE  \E u \in Session, n \in Nat : total' = [total EXCEPT ![u] = n]
      <4>1. SessionOf[x] \in Session /\ total[SessionOf[x]] \in Nat
        BY <1>1, <3>3 DEF UpdateTotals, SessionFirst
      <4>2. \/ total' = [total EXCEPT ![SessionOf[x]] = total[SessionOf[x]] + 1]
            \/ total' = [total EXCEPT ![SessionOf[x]] = total[SessionOf[x]]]
        BY <3>3 DEF UpdateTotals
      <4>3. total[SessionOf[x]] + 1 \in Nat
        BY <4>1
      <4>4. QED
        BY <4>1, <4>2, <4>3
    <3>4. QED
      BY <2>1, <3>1, <3>2, <3>3 DEF Process
  <2>2. CASE Recover
    <3>1. CASE ReplayInsert \/ ReplayFails
      BY <3>1 DEF ReplayInsert, ReplayFails, SessionRowExists
    <3>2. ASSUME NEW ok \in BOOLEAN, ReplayTotals(ok)
          PROVE  \E u \in Session, n \in Nat : total' = [total EXCEPT ![u] = n]
      <4>1. orphan \in Exchange
        BY <3>2 DEF ReplayTotals, BaseInv, TypeOK
      <4>2. SessionOf[orphan] \in Session /\ total[SessionOf[orphan]] \in Nat
        BY <1>1, <3>2, <4>1 DEF ReplayTotals, SessionFirst
      <4>3. \/ total' = [total EXCEPT ![SessionOf[orphan]] = total[SessionOf[orphan]] + 1]
            \/ total' = [total EXCEPT ![SessionOf[orphan]] = total[SessionOf[orphan]]]
        BY <3>2 DEF ReplayTotals
      <4>4. total[SessionOf[orphan]] + 1 \in Nat
        BY <4>2
      <4>5. QED
        BY <4>2, <4>3, <4>4
    <3>3. CASE \/ \E x \in Exchange : RejectFile(x) \/ Probe(x)
               \/ FinishRecovery \/ AbortRecovery
      BY <3>3 DEF RejectFile, Probe, FinishRecovery, AbortRecovery, EndRecovery
    <3>4. QED
      BY <2>2, <3>1, <3>2, <3>3 DEF Recover
  <2>3. ASSUME NEW x \in Exchange, NEW c \in Conn, NEW ok \in BOOLEAN, RecordCapture(x, c, ok)
        PROVE  UNCHANGED total
    BY <2>3 DEF RecordCapture
  <2>4. CASE Crash \/ Boot \/ BootWithoutRecovery \/ StartReprocess
    BY <2>4 DEF Crash, Boot, BootWithoutRecovery, StartReprocess, StartRecovery
  <2>5. QED
    BY <2>1, <2>2, <2>3, <2>4 DEF Next, vars
<1>3. QED
  BY <1>1, <1>2

\* Turns come after their session row, and a done capture after its turn.
LEMMA RowsComeLast ==
    ASSUME ~Overlap, TotalsInv, [Next]_vars
    PROVE  RowsHaveSession' /\ DoneHasRow'
<1>1. /\ TypeOK /\ TypeOK' /\ SessionFirst' /\ RowsHaveSession /\ DoneHasRow /\ BaseInv
  BY TypesStay, SessionFirstStays DEF TotalsInv, ApartInv, BaseInv
<1>2. \A s \in Session : total[s] # None => total'[s] # None
  BY <1>1, SessionRowsStay
<1>3. \A x \in Exchange : HasRow(x) => HasRow(x)'
  BY <1>1, RowsStay
<1>4. ASSUME NEW s \in Session, log'[s] # << >>
      PROVE  total'[s] # None
  <2>1. CASE log'[s] = log[s]
    BY <1>1, <1>2, <1>4, <2>1 DEF RowsHaveSession
  <2>2. CASE log'[s] # log[s]
    <3>1. ASSUME NEW x \in Exchange, pc[x] = "session", Appended(SessionOf[x], << x, "live" >>)
          PROVE  total'[s] # None
      <4>1. SessionOf[x] = s
        BY <1>1, <2>2, <3>1 DEF Appended, TypeOK
      <4>2. total[s] # None
        BY <1>1, <3>1, <4>1 DEF BaseInv, SessionFirst
      <4>3. QED
        BY <1>2, <4>2
    <3>2. ASSUME ReplayInsert
          PROVE  total'[s] # None
      <4>1. SessionOf[orphan] = s
        BY <1>1, <2>2, <3>2 DEF ReplayInsert, TypeOK
      <4>2. QED
        BY <1>1, <3>2, <4>1 DEF ReplayInsert, SessionRowExists, TypeOK
    <3>3. CASE Recover /\ ~ReplayInsert
      BY <2>2, <3>3 DEF Recover, RejectFile, Probe, ReplayFails, ReplayTotals,
                        FinishRecovery, AbortRecovery, EndRecovery
    <3>4. ASSUME NEW x \in Exchange, Process(x)
          PROVE  total'[s] # None
      BY <2>2, <3>1, <3>4 DEF Process, RefuseCapture, Resolve, WriteSessionRow, AppendTurn,
                              WriteFails, UpdateTotals, AppendLive, Appended
    <3>5. ASSUME NEW x \in Exchange, NEW c \in Conn, NEW ok \in BOOLEAN, RecordCapture(x, c, ok)
          PROVE  FALSE
      BY <2>2, <3>5 DEF RecordCapture
    <3>6. ~(Crash \/ Boot \/ BootWithoutRecovery \/ StartReprocess)
      BY <2>2 DEF Crash, Boot, BootWithoutRecovery, StartReprocess, StartRecovery
    <3>7. QED
      BY <2>2, <3>2, <3>3, <3>4, <3>5, <3>6 DEF Next, vars
  <2>3. QED
    BY <2>1, <2>2
<1>5. ASSUME replay_pc' = "insert", ~replay_new'
      PROVE  total'[SessionOf[orphan']] # None
  <2>1. orphan' \in Exchange /\ SessionOf[orphan'] \in Session
    BY <1>1, <1>5 DEF TypeOK
  <2>2. CASE UNCHANGED << replay_pc, replay_new, orphan >>
    BY <1>1, <1>2, <1>5, <2>1, <2>2 DEF RowsHaveSession
  <2>3. ASSUME NEW x \in Exchange, Probe(x)
        PROVE  total'[SessionOf[orphan']] # None
    <3>1. \/ UNCHANGED << replay_pc, replay_new, orphan >>
          \/ orphan' = x /\ replay_new' = (log[SessionOf[x]] = << >>)
      BY <2>3 DEF Probe
    <3>2. CASE orphan' = x /\ replay_new' = (log[SessionOf[x]] = << >>)
      BY <1>1, <1>2, <1>5, <2>1, <3>2 DEF RowsHaveSession
    <3>3. QED
      BY <2>2, <3>1, <3>2
  <2>4. ASSUME NEW x \in Exchange, Process(x) \/ RejectFile(x)
        PROVE  UNCHANGED << replay_pc, replay_new, orphan >>
    BY <2>4 DEF Process, RefuseCapture, Resolve, WriteSessionRow, AppendTurn, WriteFails,
                UpdateTotals, RejectFile, recovery
  <2>5. ASSUME NEW x \in Exchange, NEW c \in Conn, NEW ok \in BOOLEAN, RecordCapture(x, c, ok)
        PROVE  UNCHANGED << replay_pc, replay_new, orphan >>
    BY <2>5 DEF RecordCapture, recovery
  <2>6. ~(ReplayInsert \/ ReplayFails \/ FinishRecovery \/ AbortRecovery \/ Crash
          \/ Boot \/ StartReprocess \/ \E ok \in BOOLEAN : ReplayTotals(ok))
    BY <1>5 DEF ReplayInsert, ReplayFails, FinishRecovery, AbortRecovery, EndRecovery, Crash,
                Boot, StartReprocess, StartRecovery, ReplayTotals, AfterInsert, NextFile,
                ToTotals
  <2>7. CASE BootWithoutRecovery
    BY <2>2, <2>7 DEF BootWithoutRecovery, recovery
  <2>8. QED
    BY <2>2, <2>3, <2>4, <2>5, <2>6, <2>7 DEF Next, Recover, vars, recovery
<1>6. ASSUME NEW x \in Exchange \ Upgrade, pc'[x] \in {"written", "done"}
      PROVE  HasRow(x)'
  <2>1. CASE pc[x] \in {"written", "done"}
    BY <1>1, <1>3, <2>1 DEF DoneHasRow
  <2>2. CASE pc[x] \notin {"written", "done"}
    <3>1. AppendTurn(x)
      <4>1. pc \in [Exchange -> Step]
        BY <1>1 DEF TypeOK
      <4>2. ASSUME NEW y \in Exchange, Process(y)
            PROVE  AppendTurn(x)
        BY <1>6, <2>2, <4>1, <4>2 DEF Process, RefuseCapture, Resolve, WriteSessionRow,
           AppendTurn, WriteFails, UpdateTotals, EndAt, Goto
      <4>3. ASSUME NEW y \in Exchange, NEW c \in Conn, NEW ok \in BOOLEAN,
                   RecordCapture(y, c, ok)
            PROVE  FALSE
        BY <1>6, <2>2, <4>1, <4>3 DEF RecordCapture, Goto
      <4>4. ~Crash
        BY <1>6, <2>2, <4>1 DEF Crash, Ended
      <4>5. ~(Recover \/ Boot \/ BootWithoutRecovery \/ StartReprocess)
        BY <1>6, <2>2 DEF Recover, RejectFile, Probe, ReplayInsert, ReplayFails, ReplayTotals,
           FinishRecovery, AbortRecovery, EndRecovery, Boot, BootWithoutRecovery,
           StartReprocess, StartRecovery, live
      <4>6. QED
        BY <1>6, <2>2, <4>2, <4>3, <4>4, <4>5 DEF Next, vars, live
    <3>2. << x, "live" >> \in RowsOf(SessionOf[x])'
      <4>1. Appended(SessionOf[x], << x, "live" >>)
        BY <3>1 DEF AppendTurn, AppendLive, Appended
      <4>2. SessionOf[x] \in Session /\ << x, "live" >> \in Row
        BY DEF Row
      <4>3. RowsOf(SessionOf[x])' = RowsOf(SessionOf[x]) \cup {<< x, "live" >>}
        BY <1>1, <4>1, <4>2, AppendedRow
      <4>4. QED
        BY <4>3
    <3>3. QED
      BY <3>2 DEF HasRow
  <2>3. QED
    BY <2>1, <2>2
<1>7. QED
  BY <1>4, <1>5, <1>6 DEF RowsHaveSession, DoneHasRow

\* total_turns never runs ahead of the turns by more than the captures that
\* did not succeed or have still to (update_session_totals and its twin in
\* recovery), for any finite set of exchanges.
THEOREM TotalsStayTrue ==
    ASSUME ~Overlap, IsFiniteSet(Exchange)
    PROVE  Spec => []TotalsNeverInvented
<1>1. Init => TotalsInv
  <2>1. SUFFICES ASSUME Init PROVE TotalsInv
    OBVIOUS
  <2>2. /\ \A s \in Session : Due(s) = 0 /\ Pending(s) = 0 /\ Owed(s) = {} /\ Len(log[s]) = 0
        /\ RowsHaveSession /\ DoneHasRow
    BY <2>1 DEF Init, Due, Pending, Owed, RowsHaveSession, DoneHasRow
  <2>3. \A s \in Session : Paid(s)
    <3>1. SUFFICES ASSUME NEW s \in Session PROVE Paid(s)
      OBVIOUS
    <3>2. Due(s) = 0 /\ Pending(s) = 0 /\ Len(log[s]) = 0 /\ Cardinality(Owed(s)) = 0
      BY <2>2, FS_EmptySet
    <3>3. Cardinality(Uncounted(s)) \in Nat
      BY FiniteSides
    <3>4. QED
      BY <3>2, <3>3 DEF Paid
  <2>4. QED
    BY <2>1, <2>2, <2>3, ApartInit DEF TotalsInv
<1>2. TotalsInv /\ [Next]_vars => TotalsInv'
  <2>1. SUFFICES ASSUME TotalsInv, [Next]_vars PROVE TotalsInv'
    OBVIOUS
  <2>2. ApartInv /\ BaseInv
    BY <2>1 DEF TotalsInv, ApartInv
  <2>3. BaseInv' /\ TypeOK'
    BY <2>1, <2>2, TypesStay, DownStays, PlacedStays, SessionFirstStays, CoveredStays
       DEF BaseInv
  <2>4. ApartInv'
    BY <2>1, <2>2, <2>3, StillStays, RowPartsStay, FilesStay, FreshStays DEF ApartInv
  <2>5. \A s \in Session : Paid(s)'
    BY <2>1, <2>3, PaidStays
  <2>6. QED
    BY <2>1, <2>4, <2>5, RowsComeLast DEF TotalsInv
<1>3. TotalsInv => TotalsNeverInvented
  <2>1. SUFFICES ASSUME TotalsInv, NEW s \in Session, total[s] # None
                 PROVE  total[s] <= Len(log[s]) + Cardinality(Uncounted(s))
    BY DEF TotalsNeverInvented
  <2>2. total[s] \in Nat /\ Len(log[s]) \in Nat /\ Due(s) = total[s] /\ Pending(s) \in {0, 1}
    BY <2>1 DEF TotalsInv, ApartInv, BaseInv, TypeOK, Due, Pending
  <2>3. Cardinality(Owed(s)) \in Nat /\ Cardinality(Uncounted(s)) \in Nat
    BY FiniteSides
  <2>4. total[s] + Pending(s) + Cardinality(Owed(s)) <= Len(log[s]) + Cardinality(Uncounted(s))
    BY <2>1, <2>2 DEF TotalsInv, Paid
  <2>5. QED
    BY <2>2, <2>3, <2>4
<1>4. QED
  BY <1>1, <1>2, <1>3, PTL DEF Spec
-----------------------------------------------------------------------------
(* Sequence numbers.                                                       *)

\* A session for which resolution's guess holds.
Quiet(s) == s \in Unshared /\ Calm(s)

\* A connection has one capture at work.
Sole ==
    \A x, y \in Exchange :
        pc[x] \notin Resting /\ pc[y] \notin Resting /\ via[x] = via[y] => x = y

\* A capture that did not begin came over no connection.
NotBegun == \A x \in Exchange : pc[x] = "new" => via[x] = None

\* The SessionManager of a connection knows a session from a capture over it.
Owner ==
    \A c \in Conn, s \in Session :
        manager[c].session = s => \E x \in Exchange : SessionOf[x] = s /\ via[x] = c

\* Up to the insert the number is that of the next row, then that of the last
\* one, which is the capture's only live row.
Ahead(x) ==
    LET rows == log[SessionOf[x]] IN
    /\ pc[x] \in {"resolved", "session"} => seq[x] = Len(rows) + 1
    /\ pc[x] = "written" =>
        /\ Len(rows) > 0
        /\ seq[x] = Len(rows)
        /\ \A i \in 1 .. Len(rows) : rows[i] = << x, "live" >> <=> i = Len(rows)
    /\ pc[x] \in {"resolved", "session", "written"} =>
        manager[via[x]].session = SessionOf[x] /\ manager[via[x]].seq = seq[x]

\* Between two captures a SessionManager is at the last row.
AtEnd(c, s) ==
    /\ manager[c].session = s
    /\ \A x \in Exchange : SessionOf[x] = s => pc[x] \notin {"resolved", "session"}
    => manager[c].seq = Len(log[s])

Numbering ==
    \A s \in Session : Quiet(s) =>
        /\ \A x \in Exchange : SessionOf[x] = s => Ahead(x)
        /\ \A c \in Conn : AtEnd(c, s)

NumberInv == BaseInv /\ LiveRows /\ NotBegun /\ Sole /\ Owner /\ Numbering

\* What a step of a capture does, by the steps of the captures.
LEMMA CaptureMoves ==
    ASSUME BaseInv, NEW x \in Exchange, Process(x)
    PROVE  /\ UNCHANGED via /\ pc[x] \notin Resting
           /\ \A y \in Exchange \ {x} : pc'[y] = pc[y] /\ seq'[y] = seq[y]
           /\ blind \subseteq blind'
           /\ \/ pc[x] = "recorded" /\ pc'[x] = "refused" /\ UNCHANGED << log, manager >>
              \/ \E r \in BOOLEAN : Resolve(x, r)
              \/ /\ pc[x] = "resolved" /\ pc'[x] = "session" /\ UNCHANGED << log, manager, seq >>
              \/ AppendTurn(x)
              \/ pc'[x] = "dead" /\ WriteFails(x)
              \/ pc[x] = "written" /\ pc'[x] = "done" /\ UNCHANGED << log, manager >>
<1>1. pc \in [Exchange -> Step] /\ seq \in [Exchange -> Nat]
  BY DEF BaseInv, TypeOK
<1>2. CASE RefuseCapture(x)
  BY <1>1, <1>2 DEF RefuseCapture, EndAt, Goto, Resting, Ended
<1>3. ASSUME NEW r \in BOOLEAN, Resolve(x, r)
      PROVE  /\ UNCHANGED via /\ pc[x] \notin Resting /\ blind \subseteq blind'
             /\ \A y \in Exchange \ {x} : pc'[y] = pc[y] /\ seq'[y] = seq[y]
  BY <1>1, <1>3 DEF Resolve, Goto, Resting, Ended
<1>4. CASE WriteSessionRow(x)
  BY <1>1, <1>4 DEF WriteSessionRow, Goto, Resting, Ended
<1>5. CASE AppendTurn(x)
  BY <1>1, <1>5 DEF AppendTurn, Goto, Resting, Ended
<1>6. CASE WriteFails(x)
  BY <1>1, <1>6 DEF WriteFails, EndAt, Goto, Resting, Ended
<1>7. ASSUME NEW ok \in BOOLEAN, UpdateTotals(x, ok)
      PROVE  /\ UNCHANGED via /\ pc[x] \notin Resting /\ blind \subseteq blind'
             /\ \A y \in Exchange \ {x} : pc'[y] = pc[y] /\ seq'[y] = seq[y]
             /\ pc[x] = "written" /\ pc'[x] = "done" /\ UNCHANGED << log, manager >>
  BY <1>1, <1>7 DEF UpdateTotals, EndAt, Goto, Resting, Ended
<1>8. QED
  BY <1>2, <1>3, <1>4, <1>5, <1>6, <1>7 DEF Process

\* What a step of recovery or a boot leaves alone.
LEMMA RecoveryLeaves ==
    ASSUME Recover \/ Boot \/ BootWithoutRecovery \/ StartReprocess
    PROVE  UNCHANGED << via, blind, manager, pc, seq >>
  BY DEF Recover, RejectFile, Probe, ReplayInsert, ReplayFails, ReplayTotals,
         FinishRecovery, AbortRecovery, EndRecovery, Boot, BootWithoutRecovery,
         StartReprocess, StartRecovery, live

\* What makes a session unquiet stays: a session is quiet only if it was.
LEMMA QuietBefore ==
    ASSUME BaseInv, NotBegun, [Next]_vars, NEW s \in Session, Quiet(s)'
    PROVE  Quiet(s)
<1>1. RowsOf(s) \subseteq RowsOf(s)'
  BY RowsStay DEF BaseInv
<1>2. /\ pc \in [Exchange -> Step] /\ via \in [Exchange -> Conn \cup {None}]
      /\ Placed
  BY DEF BaseInv, TypeOK
<1>3. ASSUME NEW x \in Exchange
      PROVE  /\ via[x] # None => via'[x] = via[x]
             /\ x \in blind => x \in blind'
             /\ pc[x] \in {"dead", "crashed"} => pc'[x] = pc[x]
  <2>1. ASSUME NEW y \in Exchange, NEW c \in Conn, NEW ok \in BOOLEAN, RecordCapture(y, c, ok)
        PROVE  /\ via[x] # None => via'[x] = via[x]
               /\ x \in blind => x \in blind'
               /\ pc[x] \in {"dead", "crashed"} => pc'[x] = pc[x]
    <3>1. pc[y] = "new" /\ via' = [via EXCEPT ![y] = c] /\ blind' = blind
          /\ pc' = [pc EXCEPT ![y] = IF y \in Upgrade THEN "done" ELSE "recorded"]
      BY <2>1 DEF RecordCapture, Goto
    <3>2. x = y => via[x] = None
      BY <3>1 DEF NotBegun
    <3>3. QED
      BY <1>2, <3>1, <3>2
  <2>2. ASSUME NEW y \in Exchange, Process(y)
        PROVE  /\ via[x] # None => via'[x] = via[x]
               /\ x \in blind => x \in blind'
               /\ pc[x] \in {"dead", "crashed"} => pc'[x] = pc[x]
    BY <2>2, CaptureMoves DEF Resting, Ended
  <2>3. CASE Crash
    BY <1>2, <2>3 DEF Crash, Ended
  <2>4. CASE Recover \/ Boot \/ BootWithoutRecovery \/ StartReprocess
    BY <2>4, RecoveryLeaves
  <2>5. QED
    BY <2>1, <2>2, <2>3, <2>4 DEF Next, vars, live
<1>4. Calm(s)' => Calm(s)
  BY <1>1, <1>3 DEF Calm
<1>5. s \in Unshared' => s \in Unshared
  <2>1. SUFFICES ASSUME s \in Unshared', NEW x \in Exchange, NEW y \in Exchange,
                        SessionOf[x] = s, SessionOf[y] = s, via[x] # None, via[y] # None
                 PROVE  via[x] = via[y]
    BY DEF Unshared
  <2>2. via'[x] = via[x] /\ via'[y] = via[y]
    BY <1>3, <2>1
  <2>3. QED
    BY <2>1, <2>2 DEF Unshared
<1>6. QED
  BY <1>4, <1>5 DEF Quiet

\* Who is at work over a connection, and which sessions its manager knows.
LEMMA PlacesStay ==
    ASSUME BaseInv, NotBegun, Sole, Owner, [Next]_vars
    PROVE  NotBegun' /\ Sole' /\ Owner'
<1> USE DEF Resting, Ended
<1>1. /\ pc \in [Exchange -> Step] /\ via \in [Exchange -> Conn \cup {None}]
      /\ manager \in [Conn -> [session : Session \cup {None}, seq : Nat]]
      /\ Placed
  BY DEF BaseInv, TypeOK
<1>2. CASE UNCHANGED << via, pc, manager >>
  BY <1>2 DEF NotBegun, Sole, Owner
<1>3. ASSUME NEW x \in Exchange, NEW c \in Conn, NEW ok \in BOOLEAN, RecordCapture(x, c, ok)
      PROVE  NotBegun' /\ Sole' /\ Owner'
  <2>1. /\ pc[x] = "new" /\ via' = [via EXCEPT ![x] = c] /\ manager' = manager
        /\ pc' = [pc EXCEPT ![x] = IF x \in Upgrade THEN "done" ELSE "recorded"]
        /\ \A y \in Exchange : via[y] = c => pc[y] \in Resting
    BY <1>3 DEF RecordCapture, Goto, Busy
  <2>2. NotBegun'
    BY <1>1, <2>1 DEF NotBegun
  <2>3. Sole'
    BY <1>1, <2>1 DEF Sole
  <2>4. \A y \in Exchange : via[y] \in Conn => y # x
    BY <2>1 DEF NotBegun
  <2>5. Owner'
    BY <1>1, <2>1, <2>4 DEF Owner
  <2>6. QED
    BY <2>2, <2>3, <2>5
<1>4. ASSUME NEW x \in Exchange, Process(x)
      PROVE  NotBegun' /\ Sole' /\ Owner'
  <2>1. /\ UNCHANGED via /\ pc[x] \notin Resting /\ pc'[x] # "new"
        /\ \A y \in Exchange \ {x} : pc'[y] = pc[y]
    <3>1. pc'[x] # "new"
      BY <1>4, CaptureMoves, MovesOn DEF vars
    <3>2. QED
      BY <1>4, <3>1, CaptureMoves
  <2>2. NotBegun' /\ Sole'
    BY <2>1 DEF NotBegun, Sole
  <2>3. Owner'
    <3>1. CASE UNCHANGED manager
      BY <2>1, <3>1 DEF Owner
    <3>2. ASSUME NEW r \in BOOLEAN, Resolve(x, r)
          PROVE  Owner'
      <4>1. PICK n : manager' = [manager EXCEPT ![via[x]] = [session |-> SessionOf[x], seq |-> n]]
        BY <3>2 DEF Resolve
      <4>2. ASSUME NEW c \in Conn, NEW s \in Session, manager'[c].session = s
            PROVE  \E y \in Exchange : SessionOf[y] = s /\ via[y] = c
        <5>1. CASE c = via[x]
          BY <1>1, <4>1, <4>2, <5>1
        <5>2. CASE c # via[x]
          BY <1>1, <4>1, <4>2, <5>2 DEF Owner
        <5>3. QED
          BY <5>1, <5>2
      <4>3. QED
        BY <2>1, <4>2 DEF Owner
    <3>3. QED
      BY <1>4, <3>1, <3>2 DEF Process, RefuseCapture, WriteSessionRow, AppendTurn,
         WriteFails, UpdateTotals
  <2>4. QED
    BY <2>2, <2>3
<1>5. CASE Crash
  <2>1. /\ UNCHANGED via /\ \A x \in Exchange : pc'[x] \in Resting
        /\ \A x \in Exchange : pc'[x] = "new" => pc[x] = "new"
        /\ \A c \in Conn : manager'[c].session = None
    BY <1>1, <1>5 DEF Crash, NoManager
  <2>2. QED
    BY <2>1 DEF NotBegun, Sole, Owner
<1>6. CASE Recover \/ Boot \/ BootWithoutRecovery \/ StartReprocess
  BY <1>2, <1>6, RecoveryLeaves
<1>7. QED
  BY <1>2, <1>3, <1>4, <1>5, <1>6 DEF Next, vars, live

\* A live row is written at the insert.
LEMMA LiveRowsStay ==
    ASSUME BaseInv, LiveRows, [Next]_vars
    PROVE  LiveRows'
<1>1. TypeOK /\ pc \in [Exchange -> Step]
  BY DEF BaseInv, TypeOK
<1>2. \A x \in Exchange : pc[x] \in {"written", "done", "dead", "crashed"} =>
                            pc'[x] \in {"written", "done", "dead", "crashed"}
  BY MovesOn
<1>3. CASE UNCHANGED log
  BY <1>2, <1>3 DEF LiveRows, RowsOf
<1>4. ASSUME NEW x \in Exchange,
             pc' \in {[pc EXCEPT ![x] = "written"], [pc EXCEPT ![x] = "dead"]},
             Appended(SessionOf[x], << x, "live" >>)
      PROVE  LiveRows'
  <2>1. \A y \in Exchange : \A row \in RowsOf(SessionOf[y])' :
            row \in RowsOf(SessionOf[y]) \/ row = << x, "live" >>
    <3>1. SessionOf[x] \in Session /\ << x, "live" >> \in Row
      BY DEF Row
    <3>2. /\ RowsOf(SessionOf[x])' = RowsOf(SessionOf[x]) \cup {<< x, "live" >>}
          /\ \A u \in Session \ {SessionOf[x]} : RowsOf(u)' = RowsOf(u)
      BY <1>1, <1>4, <3>1, AppendedRow
    <3>3. QED
      BY <3>2
  <2>2. pc'[x] \in {"written", "dead"}
    BY <1>1, <1>4
  <2>3. QED
    BY <1>2, <2>1, <2>2 DEF LiveRows
<1>5. ASSUME replay_pc = "insert", Appended(SessionOf[orphan], << orphan, "recovered" >>)
      PROVE  LiveRows'
  <2>1. orphan \in Exchange
    BY <1>1, <1>5 DEF TypeOK
  <2>2. \A y \in Exchange : \A row \in RowsOf(SessionOf[y])' :
            row \in RowsOf(SessionOf[y]) \/ row = << orphan, "recovered" >>
    <3>1. SessionOf[orphan] \in Session /\ << orphan, "recovered" >> \in Row
      BY <2>1 DEF Row
    <3>2. PICK s \in Session : s = SessionOf[orphan]
      BY <3>1
    <3>3. PICK new \in Row : new = << orphan, "recovered" >>
      BY <3>1
    <3>4. Appended(s, new)
      BY <1>5, <3>2, <3>3
    <3>5. RowsOf(s)' = RowsOf(s) \cup {new} /\ \A u \in Session \ {s} : RowsOf(u)' = RowsOf(u)
      BY <1>1, <3>4, AppendedRow
    <3>6. \A u \in Session : \A row \in RowsOf(u)' : row \in RowsOf(u) \/ row = new
      BY <3>5
    <3>7. \A y \in Exchange : SessionOf[y] \in Session
      OBVIOUS
    <3>8. QED
      BY <3>3, <3>6, <3>7
  <2>3. QED
    BY <1>2, <2>2 DEF LiveRows
<1>6. QED
  BY <1>1, <1>3, <1>4, <1>5, LogChanges DEF vars

\* The numbers of a session that has no new row and no new resolution.
LEMMA NumbersKept ==
    ASSUME BaseInv, NEW s \in Session, log'[s] = log[s],
           \A x \in Exchange : SessionOf[x] = s => Ahead(x),
           \A c \in Conn : AtEnd(c, s),
           \A c \in Conn : manager'[c].session = s => manager'[c] = manager[c],
           \A x \in Exchange : SessionOf[x] = s =>
                /\ pc'[x] \in {"resolved", "session"} <=> pc[x] \in {"resolved", "session"}
                /\ pc'[x] = "written" => pc[x] = "written"
                /\ pc'[x] \in {"resolved", "session", "written"} =>
                    seq'[x] = seq[x] /\ via'[x] = via[x] /\ manager'[via[x]] = manager[via[x]]
    PROVE  /\ \A x \in Exchange : SessionOf[x] = s => Ahead(x)'
           /\ \A c \in Conn : AtEnd(c, s)'
<1>1. ASSUME NEW x \in Exchange, SessionOf[x] = s PROVE Ahead(x)'
  <2>1. log'[SessionOf[x]] = log[SessionOf[x]] /\ Ahead(x)
    BY <1>1
  <2>2. /\ pc'[x] \in {"resolved", "session"} => pc[x] \in {"resolved", "session"}
        /\ pc'[x] = "written" => pc[x] = "written"
        /\ pc'[x] \in {"resolved", "session", "written"} =>
                seq'[x] = seq[x] /\ via'[x] = via[x] /\ manager'[via[x]] = manager[via[x]]
    BY <1>1
  <2>3. QED
    BY <2>1, <2>2 DEF Ahead
<1>2. ASSUME NEW c \in Conn PROVE AtEnd(c, s)'
  BY DEF AtEnd
<1>3. QED
  BY <1>1, <1>2

\* In a quiet session one capture is at work, over the connection whose
\* manager knows the session.
LEMMA OneAtWork ==
    ASSUME BaseInv, Sole, Owner, NEW x \in Exchange, SessionOf[x] \in Unshared,
           pc[x] \notin Resting
    PROVE  /\ via[x] \in Conn
           /\ \A y \in Exchange : SessionOf[y] = SessionOf[x] /\ pc[y] \notin Resting => y = x
           /\ \A c \in Conn : manager[c].session = SessionOf[x] => c = via[x]
<1>1. Placed /\ via \in [Exchange -> Conn \cup {None}] /\ None \notin Conn
  BY DEF BaseInv, TypeOK
<1>2. via[x] \in Conn
  BY <1>1 DEF Placed
<1>3. \A y \in Exchange : SessionOf[y] = SessionOf[x] /\ via[y] \in Conn => via[y] = via[x]
  BY <1>1, <1>2 DEF Unshared
<1>4. \A y \in Exchange : SessionOf[y] = SessionOf[x] /\ pc[y] \notin Resting => y = x
  BY <1>1, <1>3 DEF Sole, Placed
<1>5. ASSUME NEW c \in Conn, manager[c].session = SessionOf[x]
      PROVE  c = via[x]
  <2>1. SessionOf[x] \in Session
    OBVIOUS
  <2>2. PICK y \in Exchange : SessionOf[y] = SessionOf[x] /\ via[y] = c
    BY <1>5, <2>1 DEF Owner
  <2>3. QED
    BY <1>3, <2>2
<1>6. QED
  BY <1>2, <1>4, <1>5

\* The resolution of a capture: with a query that could be read, the number
\* is that of the next row.
LEMMA ResolveNumbers ==
    ASSUME NumberInv, NEW x \in Exchange, NEW r \in BOOLEAN, Resolve(x, r),
           NEW s \in Session, Quiet(s), Quiet(s)'
    PROVE  /\ \A y \in Exchange : SessionOf[y] = s => Ahead(y)'
           /\ \A c \in Conn : AtEnd(c, s)'
<1> DEFINE c == via[x]
           u == SessionOf[x]
           n == IF manager[c].session = u THEN manager[c].seq + 1
                ELSE (IF r THEN Len(log[u]) ELSE 0) + 1
<1>1. /\ BaseInv /\ Sole /\ Owner /\ Placed
      /\ pc \in [Exchange -> Step] /\ seq \in [Exchange -> Nat]
      /\ manager \in [Conn -> [session : Session \cup {None}, seq : Nat]]
      /\ \A y \in Exchange : SessionOf[y] = s => Ahead(y)
      /\ \A d \in Conn : AtEnd(d, s)
  BY DEF NumberInv, BaseInv, TypeOK, Numbering
<1>2. /\ pc[x] = "recorded" /\ pc' = [pc EXCEPT ![x] = "resolved"]
      /\ seq' = [seq EXCEPT ![x] = n]
      /\ manager' = [manager EXCEPT ![c] = [session |-> u, seq |-> n]]
      /\ UNCHANGED << log, via >>
      /\ r = FALSE => x \in blind'
  BY DEF Resolve, Goto
<1>3. pc[x] \notin Resting /\ c \in Conn /\ u \in Session
  BY <1>1, <1>2 DEF Resting, Ended, Placed
<1> HIDE DEF n, c, u
<1>4. CASE s # u
  <2>1. ASSUME NEW y \in Exchange, SessionOf[y] = s
        PROVE  /\ pc'[y] = pc[y] /\ seq'[y] = seq[y] /\ via'[y] = via[y]
               /\ pc[y] \in {"resolved", "session", "written"} => manager'[via[y]] = manager[via[y]]
    <3>1. y # x
      BY <1>4, <2>1 DEF u
    <3>2. pc'[y] = pc[y] /\ seq'[y] = seq[y] /\ via'[y] = via[y]
      BY <1>1, <1>2, <3>1
    <3>3. ASSUME pc[y] \in {"resolved", "session", "written"}
          PROVE  manager'[via[y]] = manager[via[y]]
      <4>1. pc[y] \notin Resting
        BY <3>3 DEF Resting, Ended
      <4>2. via[y] # c /\ via[y] \in Conn
        BY <1>1, <1>3, <3>1, <4>1 DEF Sole, Placed, c
      <4>3. QED
        BY <1>1, <1>2, <4>2
    <3>4. QED
      BY <3>2, <3>3
  <2>2. \A d \in Conn : manager'[d].session = s => manager'[d] = manager[d]
    BY <1>1, <1>2, <1>3, <1>4
  <2>3. QED
    BY <1>1, <1>2, <2>1, <2>2, NumbersKept
<1>5. CASE s = u
  <2>1. r = TRUE
    BY <1>2, <1>5 DEF Quiet, Calm, u
  <2>2. /\ \A y \in Exchange : SessionOf[y] = u /\ pc[y] \notin Resting => y = x
        /\ \A d \in Conn : manager[d].session = u => d = c
    BY <1>1, <1>3, <1>5, OneAtWork DEF Quiet, u, c
  <2>3. manager[c].session = u => manager[c].seq = Len(log[u])
    <3>1. \A y \in Exchange : SessionOf[y] = u => pc[y] \notin {"resolved", "session"}
      BY <1>2, <2>2 DEF Resting, Ended
    <3>2. AtEnd(c, u)
      BY <1>1, <1>3, <1>5
    <3>3. QED
      BY <3>1, <3>2 DEF AtEnd
  <2>4. n = Len(log[u]) + 1
    BY <2>1, <2>3 DEF n
  <2>5. /\ pc'[x] = "resolved" /\ seq'[x] = n
        /\ manager'[c].session = u /\ manager'[c].seq = n
    BY <1>1, <1>2, <1>3
  <2>6. Ahead(x)'
    BY <1>2, <2>4, <2>5 DEF Ahead, c, u
  <2>7. ASSUME NEW y \in Exchange, SessionOf[y] = s, y # x
        PROVE  Ahead(y)'
    <3>1. pc'[y] \in Resting
      BY <1>1, <1>2, <1>5, <2>2, <2>7
    <3>2. QED
      BY <3>1 DEF Ahead, Resting, Ended
  <2>8. \A d \in Conn : AtEnd(d, s)'
    BY <1>5, <2>5 DEF AtEnd, u
  <2>9. QED
    BY <2>6, <2>7, <2>8
<1>6. QED
  BY <1>4, <1>5

\* The insert of a capture takes the number that was predicted.
LEMMA AppendNumbers ==
    ASSUME NumberInv, NEW x \in Exchange, AppendTurn(x),
           NEW s \in Session, Quiet(s), Quiet(s)'
    PROVE  /\ \A y \in Exchange : SessionOf[y] = s => Ahead(y)'
           /\ \A c \in Conn : AtEnd(c, s)'
<1> DEFINE u == SessionOf[x]
           row == << x, "live" >>
<1>1. /\ BaseInv /\ TypeOK /\ Sole /\ Owner
      /\ pc \in [Exchange -> Step] /\ log \in [Session -> Seq(Row)]
      /\ \A y \in Exchange : SessionOf[y] = s => Ahead(y)
      /\ \A d \in Conn : AtEnd(d, s)
  BY DEF NumberInv, BaseInv, TypeOK, Numbering
<1>2. /\ pc[x] = "session" /\ pc' = [pc EXCEPT ![x] = "written"]
      /\ UNCHANGED << via, manager, seq >>
      /\ Appended(u, row)
  BY DEF AppendTurn, AppendLive, Appended, Goto
<1>3. /\ u \in Session /\ row \in Row /\ pc[x] \notin Resting
      /\ pc'[x] = "written" /\ \A y \in Exchange \ {x} : pc'[y] = pc[y]
  BY <1>1, <1>2 DEF Row, Resting, Ended
<1>4. log'[u] = Append(log[u], row) /\ \A w \in Session \ {u} : log'[w] = log[w]
  BY <1>1, <1>2, <1>3, AppendedRow
<1>5. row \notin RowsOf(u)
  BY <1>2 DEF NumberInv, LiveRows
<1> HIDE DEF u
<1>6. CASE s # u
  <2>1. \A y \in Exchange : SessionOf[y] = s => y # x
    BY <1>6 DEF u
  <2>2. log'[s] = log[s]
    BY <1>4, <1>6
  <2>3. QED
    BY <1>1, <1>2, <1>3, <2>1, <2>2, NumbersKept
<1>7. CASE s = u
  <2>1. /\ \A y \in Exchange : SessionOf[y] = u /\ pc[y] \notin Resting => y = x
        /\ \A d \in Conn : manager[d].session = u => d = via[x]
    BY <1>1, <1>3, <1>7, OneAtWork DEF Quiet, u
  <2>2. /\ seq[x] = Len(log[u]) + 1
        /\ manager[via[x]].session = u /\ manager[via[x]].seq = seq[x]
    BY <1>1, <1>2, <1>7 DEF Ahead, u
  <2>3. PICK q \in Seq(Row) : q = log[u]
    BY <1>1, <1>3
  <2>4. /\ Len(q) \in Nat /\ Len(Append(q, row)) = Len(q) + 1
        /\ Append(q, row)[Len(q) + 1] = row
        /\ \A i \in 1 .. Len(q) : Append(q, row)[i] = q[i]
    BY <1>3, <2>3
  <2>5. \A i \in 1 .. Len(q) : q[i] # row
    BY <1>5, <2>3 DEF RowsOf
  <2>6. log'[u] = Append(q, row) /\ seq[x] = Len(q) + 1
    BY <1>4, <2>2, <2>3
  <2> HIDE DEF row
  <2>7. \A i \in 1 .. Len(log'[u]) : log'[u][i] = row <=> i = Len(log'[u])
    BY <2>4, <2>5, <2>6
  <2>8. Len(log'[u]) > 0 /\ Len(log'[u]) = seq[x]
    BY <2>4, <2>6
  <2>9. Ahead(x)'
    BY <1>2, <1>3, <2>2, <2>7, <2>8 DEF Ahead, u, row
  <2>10. ASSUME NEW y \in Exchange, SessionOf[y] = s, y # x
         PROVE  Ahead(y)'
    <3>1. pc'[y] \in Resting
      BY <1>3, <1>7, <2>1, <2>10
    <3>2. QED
      BY <3>1 DEF Ahead, Resting, Ended
  <2>11. \A d \in Conn : AtEnd(d, s)'
    BY <1>2, <1>7, <2>1, <2>2, <2>8 DEF AtEnd
  <2>12. QED
    BY <2>9, <2>10, <2>11
<1>8. QED
  BY <1>6, <1>7

\* Every step keeps the numbers of the sessions that stay quiet.
LEMMA NumberingStays ==
    ASSUME NumberInv, [Next]_vars
    PROVE  Numbering'
<1>1. /\ BaseInv /\ TypeOK /\ NotBegun
      /\ pc \in [Exchange -> Step] /\ via \in [Exchange -> Conn \cup {None}]
  BY DEF NumberInv, BaseInv, TypeOK
<1>2. SUFFICES ASSUME NEW s \in Session, Quiet(s)'
               PROVE  /\ \A x \in Exchange : SessionOf[x] = s => Ahead(x)'
                      /\ \A c \in Conn : AtEnd(c, s)'
  BY DEF Numbering
<1>3. Quiet(s)
  BY <1>1, <1>2, QuietBefore
<1>4. /\ \A x \in Exchange : SessionOf[x] = s => Ahead(x)
      /\ \A c \in Conn : AtEnd(c, s)
  BY <1>3 DEF NumberInv, Numbering
<1>5. ASSUME log'[s] = log[s], UNCHANGED << via, manager, pc, seq >>
      PROVE  /\ \A x \in Exchange : SessionOf[x] = s => Ahead(x)'
             /\ \A c \in Conn : AtEnd(c, s)'
  BY <1>1, <1>4, <1>5, NumbersKept
<1>6. CASE Recover \/ Boot \/ BootWithoutRecovery \/ StartReprocess
  <2>1. UNCHANGED << via, manager, pc, seq >>
    BY <1>6, RecoveryLeaves
  <2>2. CASE UNCHANGED log
    BY <1>5, <2>1, <2>2
  <2>3. ASSUME replay_pc = "insert", Appended(SessionOf[orphan], << orphan, "recovered" >>)
        PROVE  log'[s] = log[s]
    <3>1. PICK x \in Exchange : x = orphan /\ << x, "recovered" >> \in Row
      BY <1>1, <2>3 DEF TypeOK, Row
    <3>2. /\ RowsOf(SessionOf[x])' = RowsOf(SessionOf[x]) \cup {<< x, "recovered" >>}
          /\ \A u \in Session \ {SessionOf[x]} : log'[u] = log[u]
      BY <1>1, <2>3, <3>1, AppendedRow
    <3>3. SessionOf[x] # s
      BY <1>2, <3>1, <3>2 DEF Quiet, Calm
    <3>4. QED
      BY <3>2, <3>3
  <2>4. ASSUME NEW x \in Exchange, pc[x] = "session",
               pc' \in {[pc EXCEPT ![x] = "written"], [pc EXCEPT ![x] = "dead"]}
        PROVE  FALSE
    BY <1>1, <2>1, <2>4
  <2>5. Next
    BY <1>6 DEF Next
  <2>6. QED
    BY <1>1, <1>5, <2>1, <2>2, <2>3, <2>4, <2>5, LogChanges
<1>7. ASSUME NEW x \in Exchange, NEW c \in Conn, NEW ok \in BOOLEAN, RecordCapture(x, c, ok)
      PROVE  /\ \A y \in Exchange : SessionOf[y] = s => Ahead(y)'
             /\ \A d \in Conn : AtEnd(d, s)'
  <2>1. /\ pc[x] = "new" /\ via' = [via EXCEPT ![x] = c]
        /\ pc' = [pc EXCEPT ![x] = IF x \in Upgrade THEN "done" ELSE "recorded"]
        /\ UNCHANGED << log, manager, seq >>
    BY <1>7 DEF RecordCapture, Goto
  <2>2. pc'[x] \in {"done", "recorded"}
        /\ \A y \in Exchange \ {x} : pc'[y] = pc[y] /\ via'[y] = via[y]
    BY <1>1, <2>1
  <2>3. QED
    BY <1>1, <1>4, <2>1, <2>2, NumbersKept
<1>8. CASE Crash
  <2>1. /\ \A x \in Exchange : pc'[x] \in Resting
        /\ \A c \in Conn : manager'[c].session = None
    <3>1. pc' = [x \in Exchange |-> IF pc[x] \in Resting THEN pc[x] ELSE "crashed"]
          /\ manager' = [c \in Conn |-> NoManager]
      BY <1>8 DEF Crash, Resting
    <3>2. "crashed" \in Resting /\ NoManager.session = None
      BY DEF Resting, Ended, NoManager
    <3>3. QED
      BY <3>1, <3>2
  <2>2. QED
    BY <2>1 DEF Ahead, AtEnd, Resting, Ended
<1>9. ASSUME NEW x \in Exchange, Process(x)
      PROVE  /\ \A y \in Exchange : SessionOf[y] = s => Ahead(y)'
             /\ \A d \in Conn : AtEnd(d, s)'
  <2>1. /\ UNCHANGED via /\ pc[x] \notin Resting
        /\ \A y \in Exchange \ {x} : pc'[y] = pc[y] /\ seq'[y] = seq[y]
    BY <1>1, <1>9, CaptureMoves
  <2>2. CASE pc[x] = "recorded" /\ pc'[x] = "refused" /\ UNCHANGED << log, manager >>
    BY <1>1, <1>4, <2>1, <2>2, NumbersKept
  <2>3. CASE pc[x] = "resolved" /\ pc'[x] = "session" /\ UNCHANGED << log, manager, seq >>
    BY <1>1, <1>4, <2>1, <2>3, NumbersKept
  <2>4. CASE pc[x] = "written" /\ pc'[x] = "done" /\ UNCHANGED << log, manager >>
    BY <1>1, <1>4, <2>1, <2>4, NumbersKept
  <2>5. ASSUME NEW r \in BOOLEAN, Resolve(x, r)
        PROVE  /\ \A y \in Exchange : SessionOf[y] = s => Ahead(y)'
               /\ \A d \in Conn : AtEnd(d, s)'
    BY <1>2, <1>3, <2>5, ResolveNumbers
  <2>6. CASE AppendTurn(x)
    BY <1>2, <1>3, <2>6, AppendNumbers
  <2>7. CASE pc'[x] = "dead" /\ WriteFails(x)
    <3>1. SessionOf[x] # s
      BY <1>2, <2>7 DEF Quiet, Calm
    <3>2. manager' = manager
      BY <2>7 DEF WriteFails
    <3>3. log'[s] = log[s]
      <4>1. CASE UNCHANGED log
        BY <4>1
      <4>2. CASE Appended(SessionOf[x], << x, "live" >>)
        <5>1. << x, "live" >> \in Row /\ SessionOf[x] \in Session
          BY DEF Row
        <5>2. QED
          BY <1>1, <3>1, <4>2, <5>1, AppendedRow
      <4>3. QED
        BY <2>7, <4>1, <4>2 DEF WriteFails, AppendLive, Appended
    <3>4. \A y \in Exchange : SessionOf[y] = s => y # x
      BY <3>1
    <3>5. QED
      BY <1>1, <1>4, <2>1, <3>2, <3>3, <3>4, NumbersKept
  <2>8. QED
    BY <1>1, <1>9, <2>2, <2>3, <2>4, <2>5, <2>6, <2>7, CaptureMoves
<1>10. CASE UNCHANGED vars
  BY <1>5, <1>10 DEF vars, live
<1>11. QED
  BY <1>6, <1>7, <1>8, <1>9, <1>10 DEF Next

\* In a session of one connection, without failures, the number that
\* resolution predicted is that of the row (SessionManager::resolve and
\* write_turn_atomic_seq), for any captures, connections and crashes, and
\* whether or not `reprocess` keeps out of the way of live captures.
THEOREM NumberPredicted == Spec => []ResolvedIsAssigned
<1>1. Init => NumberInv
  <2>1. SUFFICES ASSUME Init PROVE NumberInv
    OBVIOUS
  <2>2. /\ \A s \in Session : RowsOf(s) = {} /\ Len(log[s]) = 0
        /\ \A x \in Exchange : pc[x] = "new" /\ via[x] = None
        /\ \A c \in Conn : manager[c].session = None
    BY <2>1 DEF Init, RowsOf, NoManager
  <2>3. LiveRows /\ NotBegun /\ Sole /\ Owner
    BY <2>2 DEF LiveRows, NotBegun, Sole, Owner, Resting
  <2>4. Numbering
    BY <2>2 DEF Numbering, Ahead, AtEnd
  <2>5. QED
    BY <2>1, <2>3, <2>4, BaseInit DEF NumberInv
<1>2. NumberInv /\ [Next]_vars => NumberInv'
  <2>1. SUFFICES ASSUME NumberInv, [Next]_vars PROVE NumberInv'
    OBVIOUS
  <2>2. BaseInv'
    BY <2>1, TypesStay, DownStays, PlacedStays, SessionFirstStays, CoveredStays
       DEF BaseInv, NumberInv
  <2>3. LiveRows' /\ NotBegun' /\ Sole' /\ Owner'
    BY <2>1, PlacesStay, LiveRowsStay DEF NumberInv
  <2>4. Numbering'
    BY <2>1, NumberingStays
  <2>5. QED
    BY <2>2, <2>3, <2>4 DEF NumberInv
<1>3. NumberInv => ResolvedIsAssigned
  <2>1. SUFFICES ASSUME NumberInv, NEW x \in Exchange, pc[x] = "written",
                        SessionOf[x] \in Unshared, Calm(SessionOf[x])
                 PROVE  seq[x] = SlotOf(x)
    BY DEF ResolvedIsAssigned
  <2>2. PICK q : q = log[SessionOf[x]]
    OBVIOUS
  <2>3. SessionOf[x] \in Session /\ q \in Seq(Row) /\ Len(q) \in Nat
    BY <2>1, <2>2 DEF NumberInv, BaseInv, TypeOK
  <2>4. /\ Len(q) > 0 /\ seq[x] = Len(q)
        /\ \A i \in 1 .. Len(q) : q[i] = << x, "live" >> <=> i = Len(q)
    BY <2>1, <2>2, <2>3 DEF NumberInv, Numbering, Quiet, Ahead
  <2>5. Len(q) \in 1 .. Len(q)
    BY <2>3, <2>4
  <2>6. << x, "live" >> \in RowsOf(SessionOf[x])
    BY <2>2, <2>4, <2>5 DEF RowsOf
  <2>7. (CHOOSE i \in 1 .. Len(q) : q[i] = << x, "live" >>) = Len(q)
    BY <2>4, <2>5
  <2>8. QED
    BY <2>2, <2>4, <2>6, <2>7 DEF SlotOf
<1>4. QED
  BY <1>1, <1>2, <1>3, PTL DEF Spec
-----------------------------------------------------------------------------
(* The table.                                                              *)

\* The turns of TurnLog are the rows, whose ids tell the two paths apart.
TL == INSTANCE TurnLog WITH Turn <- Row, SessionOf <- [row \in Row |-> SessionOf[row[1]]]

\* A row that is appended for the first time is AppendTurn of TurnLog.
LEMMA AppendIsTurn ==
    ASSUME TypeOK, NEW x \in Exchange, NEW k \in {"live", "recovered"},
           << x, k >> \notin RowsOf(SessionOf[x]), Appended(SessionOf[x], << x, k >>)
    PROVE  TL!Next
<1>1. PICK row \in Row : row = << x, k >>
  BY DEF Row
<1>2. [r \in Row |-> SessionOf[r[1]]][row] = SessionOf[x]
  BY <1>1
<1>3. ~TL!InLog(row)
  BY <1>1, <1>2 DEF TL!InLog, RowsOf
<1>4. TL!AppendTurn(row)
  BY <1>1, <1>2, <1>3 DEF TL!AppendTurn, Appended
<1>5. QED
  BY <1>1, <1>4 DEF TL!Next

\* Live captures and replays (write_turn_atomic_seq, recover_orphan_captures)
\* use the turns table as TurnLog promises it, each row once and at the end,
\* through crashes, unacknowledged commits and a concurrent `reprocess`.
THEOREM UsesTurnLog == Spec => TL!Spec
<1>1. Init => TL!Init
  BY DEF Init, TL!Init
<1>2. BaseInv /\ LiveRows /\ [Next]_vars => [TL!Next]_log
  <2>1. SUFFICES ASSUME BaseInv, LiveRows, Next PROVE [TL!Next]_log
    BY DEF vars
  <2>2. TypeOK
    BY <2>1 DEF BaseInv
  <2>3. ASSUME NEW x \in Exchange, pc[x] = "session", Appended(SessionOf[x], << x, "live" >>)
        PROVE  TL!Next
    <3>1. << x, "live" >> \notin RowsOf(SessionOf[x])
      BY <2>1, <2>3 DEF LiveRows
    <3>2. QED
      BY <2>2, <2>3, <3>1, AppendIsTurn
  <2>4. ASSUME replay_pc = "insert", << orphan, "recovered" >> \notin RowsOf(SessionOf[orphan]),
               Appended(SessionOf[orphan], << orphan, "recovered" >>)
        PROVE  TL!Next
    <3>1. PICK x \in Exchange : x = orphan
      BY <2>2, <2>4 DEF TypeOK
    <3>2. QED
      BY <2>2, <2>4, <3>1, AppendIsTurn
  <2>5. QED
    BY <2>1, <2>2, <2>3, <2>4, LogChanges
<1>3. Init => BaseInv /\ LiveRows
  BY BaseInit, ApartInit DEF ApartInv
<1>4. BaseInv /\ LiveRows /\ [Next]_vars => BaseInv' /\ LiveRows'
  BY TypesStay, DownStays, PlacedStays, SessionFirstStays, CoveredStays, LiveRowsStay
     DEF BaseInv
<1>5. QED
  BY <1>1, <1>2, <1>3, <1>4, PTL DEF Spec, TL!Spec
=============================================================================
