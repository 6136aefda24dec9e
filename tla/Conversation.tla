---------------------------- MODULE Conversation ----------------------------
(***************************************************************************)
(* What a capture does for its session besides the turn itself: which of   *)
(* the messages of the request are new (messages_delta), the totals and    *)
(* the columns that are filled in later, and the comparison of the system  *)
(* prompt and of the tool definitions with those of the turn before        *)
(* (drift).  The statements of a capture are separate transactions, and    *)
(* the sequence number they use is the one predicted by SessionManager.    *)
(*                                                                         *)
(* One session is modelled.  Its id comes from the client's metadata, so   *)
(* that a probe and the conversation proper share it.                      *)
(***************************************************************************)
EXTENDS Naturals, Sequences, FiniteSets

CONSTANTS
    Captures,     \* number of captures; they begin in order
    Conn,         \* connections, each with a SessionManager
    Asked,        \* for each capture, its possible requests: their messages
                  \* and the hash of each column
    Preflight,    \* messages of the quota probe (max_tokens <= 1)
    MaxFailures,  \* statements that fail
    None

VARIABLES
    graph,
    turns,    \* committed turns in their order, with messages and delta
    session,  \* the session row, or None
    events,   \* anomaly_events, in the order of insertion
    next,     \* SessionManager.sequence_num of each connection, 0: no state
    stage,
    conn, req, prompts,   \* of each capture
    seq,      \* resolution.sequence_num
    new,      \* resolution.is_new_session
    from,     \* first message of the delta
    column,   \* column that is compared
    mixed,    \* history: captures that ran at the same time as another
    returned, \* history: a client came back to a connection after another
    misread,  \* history: a read of the numbers or of the lengths failed
    failures, \* history: statements that failed
    last      \* history: connection of the last capture

rows == << turns, session, events >>
request == << conn, req, prompts >>
local == << seq, new, from, column >>
history == << mixed, returned, misread, failures, last >>
vars == << graph, rows, next, stage, request, local, history >>

Capture == 1 .. Captures
Column == {"system", "tools"}
Filled == {"framework", "model", "initial_intent"}
Ended == {"idle", "done", "failed"}

\* What requests are made of.
Asks == UNION {Asked[c] : c \in Capture}
Message == UNION {{r.messages[i] : i \in 1 .. Len(r.messages)} : r \in Asks}
Prompt == {r.prompts[k] : r \in Asks, k \in Column}
Request == [messages : Seq(Message), prompts : [Column -> Prompt]]

\* A row of sessions.
Row == [hash : [Column -> Prompt \cup {None}], total : Nat, filled : SUBSET Filled]

Goto(c, s) == stage' = [stage EXCEPT ![c] = s]
Running == {c \in Capture : stage[c] \notin Ended}
SetMax(S) == CHOOSE n \in S : \A m \in S : m <= n

Init ==
    /\ graph \in {"sqlite", "postgres"}
    /\ turns = << >> /\ session = None /\ events = << >>
    /\ next = [k \in Conn |-> 0]
    /\ stage = [c \in Capture |-> "idle"]
    /\ conn = [c \in Capture |-> None]
    /\ req = [c \in Capture |-> None]
    /\ prompts = [c \in Capture |-> None]
    /\ seq = [c \in Capture |-> 0] /\ new = [c \in Capture |-> FALSE]
    /\ from = [c \in Capture |-> 1] /\ column = [c \in Capture |-> "system"]
    /\ mixed = {} /\ returned = FALSE /\ misread = FALSE
    /\ failures = 0 /\ last = None

-----------------------------------------------------------------------------
(* The number of the turn, and what is new in its messages.                *)

\* A connection that was not at this session before, or was at another one
\* since, asks the database, and takes an error for a session without turns.
Resolve(c) ==
    /\ stage[c] = "idle" /\ \A d \in 1 .. c - 1 : stage[d] # "idle"
    /\ \E k \in Conn, r \in Asked[c] :
        /\ \A d \in Running : conn[d] # k
        /\ conn' = [conn EXCEPT ![c] = k]
        /\ req' = [req EXCEPT ![c] = r.messages]
        /\ prompts' = [prompts EXCEPT ![c] = r.prompts]
        /\ \E known \in {next[k], 0} :
            /\ \E max \in {Len(turns)} \cup (IF failures < MaxFailures THEN {0} ELSE {}) :
                /\ seq' = [seq EXCEPT ![c] = (IF known = 0 THEN max ELSE known) + 1]
                /\ new' = [new EXCEPT ![c] = known = 0 /\ max = 0]
                /\ misread' = (misread \/ (known = 0 /\ max # Len(turns)))
                /\ failures' = IF max = Len(turns) THEN failures ELSE failures + 1
            /\ returned' = (returned \/ (last # k /\ known # 0))
        /\ next' = [next EXCEPT ![k] = seq'[c]]
        /\ last' = k
    /\ mixed' = IF Running = {} THEN mixed ELSE mixed \cup Running \cup {c}
    /\ Goto(c, "resolved")
    /\ UNCHANGED << graph, rows, from, column >>

\* Mutant of LengthUpTo: the length of the delta of the turn before, as in an
\* earlier version.
PreviousDelta(n) ==
    IF turns = << >> THEN 0
    ELSE Len(turns[IF n < Len(turns) THEN n ELSE Len(turns)].delta)

\* The lengths of the first i deltas together.
Lengths(s) ==
    LET sum[i \in 0 .. Len(s)] == IF i = 0 THEN 0 ELSE sum[i - 1] + Len(s[i].delta)
    IN  sum

\* SUM(messages_delta_count) over the turns up to number n.
LengthUpTo(n) == Lengths(turns)[IF n < Len(turns) THEN n ELSE Len(turns)]

\* Length of the conversation before turn n; when turn n is there, it is the
\* caller's, and has added one message.
Before(n) ==
    IF Len(turns) >= n /\ LengthUpTo(n) > 0 THEN LengthUpTo(n) - 1 ELSE LengthUpTo(n)

\* compute_true_delta: the messages from here on are new; of a request that is
\* shorter than what was recorded, the last one.
FirstNew(n, len) ==
    IF len > n THEN n + 1 ELSE IF n > len /\ len > 0 THEN len ELSE len + 1

ReadPrefix(c) ==
    /\ stage[c] = "resolved"
    /\ from' = [from EXCEPT ![c] = IF seq[c] <= 1 \/ turns = << >> THEN 1
                                   ELSE FirstNew(Before(seq[c]), Len(req[c]))]
    /\ Goto(c, "write")
    /\ UNCHANGED << graph, rows, next, request, seq, new, column, history >>

\* The read fails: everything is new.
ReadPrefixFails(c) ==
    /\ stage[c] = "resolved" /\ seq[c] > 1
    /\ failures < MaxFailures /\ failures' = failures + 1
    /\ misread' = TRUE
    /\ from' = [from EXCEPT ![c] = 1]
    /\ Goto(c, "write")
    /\ UNCHANGED << graph, rows, next, request, seq, new, column, mixed, returned, last >>

-----------------------------------------------------------------------------
(* write_capture: the session row unless there is one, then the turn.      *)

\* PostgreSQL neither writes nor reads tool_definitions_hash.
Hashes(c) ==
    [k \in Column |-> IF graph = "postgres" /\ k = "tools" THEN None ELSE prompts[c][k]]

\* What a request can fill in.
Supplied(c) == IF req[c] = Preflight THEN {"model"} ELSE Filled

\* The row of a new session, and the empty one an existing session comes with.
NewRow(c) == [hash |-> Hashes(c), total |-> 1, filled |-> Supplied(c)]
OldRow == [hash |-> [k \in Column |-> None], total |-> 0, filled |-> {"model"}]

WithSession(c) ==
    IF session # None THEN session ELSE IF new[c] THEN NewRow(c) ELSE OldRow

WithTurn(c) ==
    Append(turns, [capture |-> c, req |-> req[c], hash |-> Hashes(c),
                   delta |-> SubSeq(req[c], from[c], Len(req[c]))])

WriteTurn(c) ==
    /\ stage[c] = "write"
    /\ session' = WithSession(c)
    /\ turns' = WithTurn(c)
    /\ Goto(c, IF new[c] THEN "compare" ELSE "upkeep")
    /\ UNCHANGED << graph, events, next, request, local, history >>

\* write_capture gives up, or the process dies; what was committed stays.
WriteFails(c) ==
    /\ stage[c] = "write"
    /\ failures < MaxFailures /\ failures' = failures + 1
    /\ \/ UNCHANGED << session, turns >>
       \/ session' = WithSession(c) /\ turns' \in {turns, WithTurn(c)}
    /\ Goto(c, "failed")
    /\ UNCHANGED << graph, events, next, request, local, mixed, returned, misread, last >>

\* Each column is filled once (... AND (framework IS NULL OR framework = '')).
Backfilled(c, s) == s.filled \cup Supplied(c)

\* The statements for an existing session: each may fail and none reads what
\* another one wrote.
Upkeep(c) ==
    /\ stage[c] = "upkeep"
    /\ \/ /\ session' = [session EXCEPT !.total = @ + 1,
                                        !.filled = Backfilled(c, session)]
          /\ UNCHANGED failures
       \/ /\ failures < MaxFailures /\ failures' = failures + 1
          /\ \E add \in 0 .. 1, fill \in SUBSET Backfilled(c, session) :
                session' = [session EXCEPT !.total = @ + add, !.filled = @ \cup fill]
    /\ Goto(c, "compare")
    /\ UNCHANGED << graph, turns, events, next, request, local,
                    mixed, returned, misread, last >>

-----------------------------------------------------------------------------
(* detect_drift_via_graph, then detect_tool_drift_via_graph.               *)

Following(c) ==
    IF column[c] = "system"
    THEN column' = [column EXCEPT ![c] = "tools"] /\ Goto(c, "compare")
    ELSE UNCHANGED column /\ Goto(c, "done")

Hash(c) == prompts[c][column[c]]

Drifted(c) ==
    /\ seq[c] > 1
    /\ session.hash[column[c]] \notin {None, Hash(c)}

Compare(c) ==
    /\ stage[c] = "compare"
    /\ IF Drifted(c) THEN Goto(c, "tell") /\ UNCHANGED column ELSE Following(c)
    /\ UNCHANGED << graph, rows, next, request, seq, new, from, history >>

Event(c) == [column |-> column[c], new |-> Hash(c), capture |-> c]

Tell(c) ==
    /\ stage[c] = "tell"
    /\ events' = Append(events, Event(c))
    /\ Goto(c, "move")
    /\ UNCHANGED << graph, turns, session, next, request, local, history >>

\* Mutant of Move: the baseline of the first turn stays (A, B, C).
MoveNothing(c) ==
    /\ stage[c] = "move"
    /\ Following(c)
    /\ UNCHANGED << graph, rows, next, request, seq, new, from, history >>

Move(c) ==
    /\ stage[c] = "move"
    /\ session' = [session EXCEPT !.hash[column[c]] = Hash(c)]
    /\ Following(c)
    /\ UNCHANGED << graph, turns, events, next, request, seq, new, from, history >>

\* Mutant of DriftFails: the baseline moves although the event was not written.
DriftFailsAndMoves(c) ==
    /\ stage[c] \in {"compare", "tell", "move"}
    /\ failures < MaxFailures /\ failures' = failures + 1
    /\ session' = [session EXCEPT !.hash[column[c]] = Hash(c)]
    /\ Following(c)
    /\ UNCHANGED << graph, turns, events, next, request, seq, new, from,
                    mixed, returned, misread, last >>

\* Any of the three statements fails; the capture goes on.
DriftFails(c) ==
    /\ stage[c] \in {"compare", "tell", "move"}
    /\ failures < MaxFailures /\ failures' = failures + 1
    /\ Following(c)
    /\ UNCHANGED << graph, rows, next, request, seq, new, from,
                    mixed, returned, misread, last >>

-----------------------------------------------------------------------------
Next ==
    \E c \in Capture :
        \/ Resolve(c) \/ ReadPrefix(c) \/ ReadPrefixFails(c)
        \/ WriteTurn(c) \/ WriteFails(c) \/ Upkeep(c)
        \/ Compare(c) \/ Tell(c) \/ Move(c) \/ DriftFails(c)

Spec == Init /\ [][Next]_vars

-----------------------------------------------------------------------------
(* Properties.                                                             *)

\* Each request begins with the one before and is longer.
Growing ==
    \A i \in 1 .. Len(turns) - 1 :
        /\ Len(turns[i].req) < Len(turns[i + 1].req)
        /\ turns[i].req = SubSeq(turns[i + 1].req, 1, Len(turns[i].req))

\* The first i deltas, one after the other.
Joins(s) ==
    LET join[i \in 0 .. Len(s)] == IF i = 0 THEN << >> ELSE join[i - 1] \o s[i].delta
    IN  join

Deltas == Joins(turns)[Len(turns)]

\* The deltas of a conversation, one after the other, are its messages, each of
\* them once, whichever captures failed before, while or after they were
\* written and on however many connections, as long as the client does not go
\* back to an older one or run requests at the same time.
EveryMessageOnce ==
    mixed = {} /\ ~returned /\ ~misread /\ Growing /\ turns # << >> =>
        Deltas = turns[Len(turns)].req

\* A baseline never moves to a hash for which no event was inserted: whatever
\* fails, a change is reported again rather than lost.
DriftIsTold ==
    [][session # None =>
        \A k \in Column : session'.hash[k] # session.hash[k] =>
            \E i \in DOMAIN events : events[i].column = k /\ events[i].new = session'.hash[k]]_vars

\* The numbers of the turns whose hash of column k is not that of the turn
\* before.
Changes(k) ==
    {i \in 2 .. Len(turns) :
        prompts[turns[i].capture][k] # prompts[turns[i - 1].capture][k]}

Told(k) == {i \in DOMAIN turns :
    \E e \in DOMAIN events : events[e].column = k /\ events[e].capture = turns[i].capture}

\* The row of the session agrees with its turns, when nothing failed and no two
\* captures ran together: total_turns is their number, the columns hold what
\* any of them could fill in, and exactly the changes between one turn and the
\* next have an event (but for the tools on PostgreSQL).
SessionAgrees ==
    mixed = {} /\ failures = 0 /\ Running = {} /\ turns # << >> =>
        /\ session.total = Len(turns)
        /\ session.filled = UNION {Supplied(turns[i].capture) : i \in DOMAIN turns}
        /\ \A k \in Column :
            Told(k) = IF graph = "postgres" /\ k = "tools" THEN {} ELSE Changes(k)
=============================================================================
