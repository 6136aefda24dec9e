-------------------------------- MODULE Wal --------------------------------
(***************************************************************************)
(* The write-ahead log directory of the gateway: Wal::open_with_mode,      *)
(* append_entry and mark_flushed, as process_capture_with_pipeline uses    *)
(* them.  Every MITM connection opens a Wal of its own on the one          *)
(* directory, scans it for the next sequence number, and keeps that number *)
(* in memory (and a count of unflushed entries, left out as nobody reads   *)
(* it).  A file is named by that number and the process id.                *)
(*                                                                         *)
(* So an entry is safe from the other logs of its process only when they   *)
(* know of it: exposed has those of which they may not.                    *)
(***************************************************************************)
EXTENDS Integers, FiniteSets

CONSTANTS
    Conn,       \* MITM connections
    Exchange,   \* captured request/response pairs
    Pid,        \* process ids; in a container every run may have the same one
    MaxOpen,    \* bound: connections open at once
    ScanFails,  \* whether a scan of the directory may overlook files
    None

\* Bound: two entries for each exchange, and each exchange is captured once.
Seq == 1 .. 2 * Cardinality(Exchange)
Name == Seq \X Pid
Body == {"request", "response"}
Entry == Exchange \X Body

VARIABLES
    pid,        \* process id of the running gateway
    wal,        \* {seq}_{pid}.wal files
    flushed,    \* {seq}_{pid}.wal.flushed files
    open,       \* connections whose Wal is open
    next_seq,   \* Wal.next_seq of each open connection
    work,       \* the exchange each connection is capturing
    step,       \* where that capture is
    mine,       \* this_capture_entries: the file of each body appended so far
    started,    \* exchanges whose capture began
    acked,      \* entries whose append_entry returned Ok
    stored,     \* exchanges whose write_capture returned Ok
    exposed     \* history: entries whose file another log of the process did not
                \* find, as it was open already or as its scan overlooked it

files == << wal, flushed >>
past == << started, acked, stored, exposed >>
vars == << pid, files, open, next_seq, work, step, mine, past >>

Step == {"idle", "request", "response", "graph", "mark"}
Init ==
    /\ pid \in Pid
    /\ wal = [n \in Name |-> None]
    /\ flushed = [n \in Name |-> None]
    /\ open = {}
    /\ next_seq = [c \in Conn |-> 1]
    /\ work = [c \in Conn |-> None]
    /\ step = [c \in Conn |-> "idle"]
    /\ mine = [c \in Conn |-> [b \in Body |-> None]]
    /\ started = {} /\ acked = {} /\ stored = {} /\ exposed = {}

Unflushed == {n \in Name : wal[n] # None}
InUse == {n \in Name : wal[n] # None \/ flushed[n] # None}

-----------------------------------------------------------------------------
(* Opening and closing a connection's log.                                 *)

\* max_seq + 1, where max_seq starts from 0.
Above(seqs) == 1 + (CHOOSE m \in {0} \cup seqs : \A k \in seqs : k <= m)

\* Mutant of NextSeq: the scan skips the .wal.flushed names.
NextUnflushedSeq(seen) == Above({n[1] : n \in seen \cap Unflushed})

\* One above the highest number of any file that the scan sees.
NextSeq(seen) == Above({n[1] : n \in seen})

\* What the scan of open_with_mode comes upon.  A directory that cannot be
\* read counts as empty and an entry that cannot be read is left out, without
\* an error; so is a file that another connection makes meanwhile.
Seen == IF ScanFails THEN SUBSET InUse ELSE {InUse}

\* Entries of this process id whose file is overlooked.
Overlooked(seen) ==
    {e \in Entry : \E n \in InUse \ seen : n[2] = pid /\ e \in {wal[n], flushed[n]}}

OpenWal(c) ==
    /\ c \notin open
    /\ Cardinality(open) < MaxOpen
    /\ open' = open \cup {c}
    /\ \E seen \in Seen :
        /\ next_seq' = [next_seq EXCEPT ![c] = NextSeq(seen)]
        /\ exposed' = exposed \cup Overlooked(seen)
    /\ UNCHANGED << pid, files, work, step, mine, started, acked, stored >>

CloseWal(c) ==
    /\ c \in open
    /\ step[c] = "idle"
    /\ open' = open \ {c}
    /\ next_seq' = [next_seq EXCEPT ![c] = 1]
    /\ mine' = [mine EXCEPT ![c] = [b \in Body |-> None]]
    /\ work' = [work EXCEPT ![c] = None]
    /\ UNCHANGED << pid, files, step, past >>

-----------------------------------------------------------------------------
(* process_capture_with_pipeline.                                          *)

Goto(c, s) == step' = [step EXCEPT ![c] = s]

StartCapture(c, x) ==
    /\ c \in open
    /\ step[c] = "idle"
    /\ x \notin started
    /\ started' = started \cup {x}
    /\ work' = [work EXCEPT ![c] = x]
    /\ mine' = [mine EXCEPT ![c] = [b \in Body |-> None]]
    /\ Goto(c, "request")
    /\ UNCHANGED << pid, files, open, next_seq, acked, stored, exposed >>

AfterAppend(c, b) == Goto(c, IF b = "request" THEN "response" ELSE "graph")

\* append_entry: the temporary file is renamed onto the entry's name,
\* replacing whatever has that name.
Append(c, b) ==
    /\ step[c] = b
    /\ LET name == << next_seq[c], pid >> IN
        /\ wal' = [wal EXCEPT ![name] = << work[c], b >>]
        /\ mine' = [mine EXCEPT ![c][b] = name]
    /\ next_seq' = [next_seq EXCEPT ![c] = @ + 1]
    /\ acked' = acked \cup {<< work[c], b >>}
    /\ exposed' = IF open = {c} THEN exposed ELSE exposed \cup {<< work[c], b >>}
    /\ AfterAppend(c, b)
    /\ UNCHANGED << pid, flushed, open, work, started, stored >>

\* A failed append uses up its number.  Open mode goes on, closed mode ends
\* the capture with WalAppendFailed and leaves an appended request as it is.
AppendFails(c, b) ==
    /\ step[c] = b
    /\ next_seq' = [next_seq EXCEPT ![c] = @ + 1]
    /\ \/ AfterAppend(c, b)
       \/ Goto(c, "idle")
    /\ UNCHANGED << pid, files, open, work, mine, past >>

\* write_capture commits, everything after it up to the last step is done.
GraphWrites(c) ==
    /\ step[c] = "graph"
    /\ stored' = stored \cup {work[c]}
    /\ Goto(c, "mark")
    /\ UNCHANGED << pid, files, open, next_seq, work, mine, started, acked, exposed >>

\* Any error of the capture after the appends: the entries stay unflushed.
GraphFails(c) ==
    /\ step[c] = "graph"
    /\ Goto(c, "idle")
    /\ UNCHANGED << pid, files, open, next_seq, work, mine, past >>

\* The first of this_capture_entries that is still to be marked.
NextMark(c) == {b \in Body : mine[c][b] # None /\
                             (b = "request" \/ mine[c]["request"] = None)}

\* Mutant of MarkFlushed: every unflushed entry of the directory is marked.
MarkAllFlushed(c) ==
    /\ step[c] = "mark"
    /\ \E b \in NextMark(c) : mine' = [mine EXCEPT ![c][b] = None]
    /\ wal' = [n \in Name |-> None]
    /\ flushed' = [n \in Name |-> IF wal[n] # None THEN wal[n] ELSE flushed[n]]
    /\ UNCHANGED << pid, open, next_seq, work, step, past >>

\* mark_flushed: nothing to do when the file is gone, else it is renamed.
MarkFlushed(c) ==
    /\ step[c] = "mark"
    /\ \E b \in NextMark(c) : LET n == mine[c][b] IN
        /\ mine' = [mine EXCEPT ![c][b] = None]
        /\ IF wal[n] = None
           THEN UNCHANGED files
           ELSE /\ wal' = [wal EXCEPT ![n] = None]
                /\ flushed' = [flushed EXCEPT ![n] = wal[n]]
    /\ UNCHANGED << pid, open, next_seq, work, step, past >>

\* The rename of mark_flushed fails: logged, the entry stays unflushed.
MarkFails(c) ==
    /\ step[c] = "mark"
    /\ \E b \in NextMark(c) : mine' = [mine EXCEPT ![c][b] = None]
    /\ UNCHANGED << pid, files, open, next_seq, work, step, past >>

EndCapture(c) ==
    /\ step[c] = "mark"
    /\ NextMark(c) = {}
    /\ Goto(c, "idle")
    /\ UNCHANGED << pid, files, open, next_seq, work, mine, past >>

\* The process dies and a new one starts: files stay, every open log is gone.
Restart(p) ==
    /\ pid' = p
    /\ open' = {}
    /\ step' = [c \in Conn |-> "idle"]
    /\ work' = [c \in Conn |-> None]
    /\ mine' = [c \in Conn |-> [b \in Body |-> None]]
    /\ next_seq' = [c \in Conn |-> 1]
    /\ UNCHANGED << files, past >>

Next ==
    \/ \E c \in Conn :
        \/ OpenWal(c) \/ CloseWal(c)
        \/ \E x \in Exchange : StartCapture(c, x)
        \/ \E b \in Body : Append(c, b) \/ AppendFails(c, b)
        \/ GraphWrites(c) \/ GraphFails(c)
        \/ MarkFlushed(c) \/ MarkFails(c) \/ EndCapture(c)
    \/ \E p \in Pid : Restart(p)

Spec == Init /\ [][Next]_vars
-----------------------------------------------------------------------------
(* Properties.                                                             *)

TypeOK ==
    /\ pid \in Pid
    /\ wal \in [Name -> Entry \cup {None}]
    /\ flushed \in [Name -> Entry \cup {None}]
    /\ open \subseteq Conn
    /\ next_seq \in [Conn -> Nat]
    /\ work \in [Conn -> Exchange \cup {None}]
    /\ step \in [Conn -> Step]
    /\ mine \in [Conn -> [Body -> Name \cup {None}]]
    /\ started \subseteq Exchange
    /\ acked \subseteq Entry
    /\ stored \subseteq Exchange
    /\ exposed \subseteq Entry

\* What append_entry promises of any entry: it is in an unflushed file until
\* its exchange is in the graph, and no successful capture buries it
\* ("prevents a successful capture from silently burying a prior crash's
\* orphan WAL entries").
OrphansKept ==
    \A e \in acked : e[1] \notin stored => \E n \in Name : wal[n] = e

\* What the code keeps of it: however many logs are open and whatever their
\* scans overlook, no capture, connection or process run replaces or marks
\* flushed the entry of an exchange that is not stored, once every log of its
\* process knows of it (append_entry, mark_flushed of the own entries only).
NothingBuried ==
    \A e \in acked \ exposed : e[1] \notin stored => \E n \in Name : wal[n] = e

\* Such an entry stays on disk, flushed or not: no later capture takes its
\* name (the scan of open_with_mode, flushed files included).
EntriesSurvive ==
    \A e \in acked \ exposed : \E n \in Name : e \in {wal[n], flushed[n]}
=============================================================================
