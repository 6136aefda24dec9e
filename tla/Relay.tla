------------------------------- MODULE Relay -------------------------------
(***************************************************************************)
(* The WebSocket relay of one connection (websocket_relay): it forwards    *)
(* what either peer sends and records it.  For OpenAI it gathers the       *)
(* frames of the upstream into turns (CodexFrameAccumulator) and joins     *)
(* each turn with the client's request; for another provider every message *)
(* is a turn.  A step is one iteration of the select loop, or one call to  *)
(* the store.  Messages are whole here: Frames says how bytes become       *)
(* messages.                                                               *)
(***************************************************************************)
EXTENDS Naturals, Sequences, FiniteSets

CONSTANTS
    MaxSaid,    \* messages the client sends
    MaxItems,   \* message items in one answer
    MaxNotes,   \* further frames (tool, rate_limits, delta) in one answer
    MaxText,    \* deltas an accumulator keeps (MAX_ACCUMULATED_TEXT)
    None

ASSUME RelayAssumption ==
    /\ {MaxSaid, MaxItems, MaxNotes, MaxText} \subseteq Nat
    /\ None \notin Nat \cup (Nat \X Nat) \cup [id : Nat, kind : STRING]

VARIABLES
    codex,        \* provider = "openai"
    relaying,     \* step of the relay
    said,         \* number of messages the client sent
    fromClient,   \* sent by the client, not read by the relay
    answer,       \* what the upstream does about the last request
    fromUpstream, \* sent by the upstream, not read by the relay
    acc,          \* codex_accumulator
    counted,      \* messages in codex_estimated_input_tokens
    initial,      \* codex_initial_request
    latest,       \* codex_latest_request
    created,      \* codex_session_created, or sequence_num > 1
    attempts,     \* history: the OpenAI turns given to write_capture
    rows,         \* number of turn rows committed for the session
    total,        \* total_turns of the session's row, which turns_captured equals, or
                  \* None without a row
    phantom,      \* history: the session's row counts a first turn that has no row
    slipped,      \* history: a committed turn was not added to the total
    completed     \* history: texts whose completed item was read

peers == << said, fromClient, answer, fromUpstream >>
gathered == << acc, counted, initial, latest >>
tables == << rows, total, phantom, slipped >>
relayVars == << codex, relaying, peers, gathered, created, attempts, tables,
                completed >>

Request == {"prompt", "tools"}   \* response.create, with a user prompt or not

\* Types of a frame, by what Feed does with them: rate_limits, parts of a tool
\* call or of reasoning, the two forms of a text, a message item and the rest.
FrameKind == {"rate_limits", "tool", "delta", "done", "completed", "incomplete", "unknown"}

\* CodexFrameAccumulator::new.
NoFrames == [rates |-> 0, content |-> FALSE, complete |-> FALSE,
             done |-> None, delta |-> << >>]

Idle == [of |-> 0, stage |-> "idle", items |-> 0, notes |-> 0]

RelayInit ==
    /\ codex \in BOOLEAN
    /\ relaying \in {"off", "select"}
    /\ said = 0 /\ fromClient = << >>
    /\ answer = Idle /\ fromUpstream = << >>
    /\ acc = NoFrames /\ counted = {}
    /\ initial = None /\ latest = None
    /\ created = FALSE /\ attempts = << >>
    /\ rows = 0 /\ total = None /\ phantom = FALSE /\ slipped = FALSE
    /\ completed = {}

-----------------------------------------------------------------------------
(* The peers.  The client waits for the end of an answer before it asks    *)
(* again; rate_limits comes before an answer or between two of them.       *)

Say(kind) ==
    /\ relaying # "off" /\ relaying # "ended"
    /\ said < MaxSaid
    /\ fromClient = << >>
    /\ kind \in Request => answer.stage = "idle" /\ fromUpstream = << >>
    /\ said' = said + 1
    /\ fromClient' = << [id |-> said + 1, kind |-> kind] >>
    /\ UNCHANGED << codex, relaying, answer, fromUpstream, gathered, created,
                    attempts, tables, completed >>

Send(kind, next) ==
    /\ relaying # "off" /\ relaying # "ended"
    /\ fromUpstream = << >>
    /\ fromUpstream' = << [kind |-> kind, text |-> << answer.of, answer.items >>] >>
    /\ answer' = next
    /\ UNCHANGED << codex, relaying, said, fromClient, gathered, created, attempts,
                    tables, completed >>

Note == [answer EXCEPT !.notes = @ + 1]

Answer ==
    \/ /\ answer.stage \in {"idle", "asked"} /\ answer.notes < MaxNotes
       /\ Send("rate_limits", Note)
    \/ /\ answer.stage \in {"asked", "open"} /\ answer.notes < MaxNotes
       /\ Send("tool", [Note EXCEPT !.stage = "open"])
    \/ /\ answer.stage \in {"asked", "open"} /\ answer.items < MaxItems
       /\ Send("delta", [answer EXCEPT !.stage = "delta"])
    \/ /\ answer.stage = "delta" /\ answer.notes < MaxNotes
       /\ Send("delta", Note)
    \/ /\ answer.stage = "delta"
       /\ Send("done", [answer EXCEPT !.stage = "done"])
    \/ /\ answer.stage = "done"
       /\ \E kind \in {"completed", "incomplete"} :
            Send(kind, [answer EXCEPT !.stage = "open", !.items = @ + 1])
    \/ /\ answer.stage \in {"asked", "open"}
       /\ Send("unknown", [answer EXCEPT !.stage = "idle"])

-----------------------------------------------------------------------------
(* CodexFrameAccumulator.                                                  *)

\* Mutant of Feed: a completed item does not end the turn.
FeedRateLimitsOnly(a, f) ==
    CASE f.kind = "rate_limits" ->
             [a EXCEPT !.rates = 1, !.content = FALSE,
                       !.complete = @ \/ (a.rates > 0 /\ a.content)]
      [] f.kind = "delta" ->
             [a EXCEPT !.content = TRUE,
                       !.delta = IF Len(@) < MaxText THEN Append(@, f.text) ELSE @]
      [] f.kind = "done" -> [a EXCEPT !.content = TRUE, !.done = f.text]
      [] f.kind \in {"tool", "completed", "incomplete"} -> [a EXCEPT !.content = TRUE]
      [] OTHER -> a

\* rates is the count of rate_limits frames up to 1.
Feed(a, f) ==
    CASE f.kind = "rate_limits" ->
             [a EXCEPT !.rates = 1, !.content = FALSE,
                       !.complete = @ \/ (a.rates > 0 /\ a.content)]
      [] f.kind = "delta" ->
             [a EXCEPT !.content = TRUE,
                       !.delta = IF Len(@) < MaxText THEN Append(@, f.text) ELSE @]
      [] f.kind = "done" ->
             [a EXCEPT !.content = TRUE, !.done = f.text]
      [] f.kind \in {"completed", "incomplete"} ->
             [a EXCEPT !.content = TRUE,
                       !.done = IF @ = None THEN f.text ELSE @,
                       !.complete = @ \/ f.kind = "completed"]
      [] f.kind = "tool" -> [a EXCEPT !.content = TRUE]
      [] OTHER -> a

\* finish: the texts in the response text.
Texts(a) == IF a.done # None THEN {a.done} ELSE {a.delta[i] : i \in DOMAIN a.delta}

HasContent(a) == a.done # None \/ a.delta # << >>

-----------------------------------------------------------------------------
(* What is recorded.                                                       *)

\* The request of a turn: latest_request.or(initial_request).
TurnRequest == IF latest # None THEN latest ELSE initial

Record(r) == attempts' = Append(attempts, r) /\ relaying' = "write"

\* capture_complete tells the two apart.
Turn(a) ==
    [request |-> TurnRequest, counted |-> counted, texts |-> Texts(a), complete |-> TRUE]

PartialTurn(a) == [Turn(a) EXCEPT !.complete = FALSE]

\* A message of another provider is a turn of its own, with zero tokens.
RecordMessage == relaying' = "write" /\ UNCHANGED << gathered, attempts >>

\* std::mem::take(acc), and the reset after capture_codex_accumulated_turn;
\* the initial request stays.
Forget ==
    /\ acc' = NoFrames /\ counted' = {} /\ latest' = None
    /\ UNCHANGED initial

IsFirstRequest(m) == initial = None \/ (initial.kind = "tools" /\ m.kind = "prompt")

ReadClient ==
    /\ relaying = "select"
    /\ fromClient # << >>
    /\ fromClient' = Tail(fromClient)
    /\ LET m == Head(fromClient) IN
        /\ answer' = IF m.kind \in Request THEN [Idle EXCEPT !.of = m.id, !.stage = "asked"] ELSE answer
        /\ IF codex
           THEN /\ counted' = counted \cup {m.id}
                /\ initial' = IF m.kind \in Request /\ IsFirstRequest(m) THEN m ELSE initial
                /\ latest' = IF m.kind \in Request THEN m ELSE latest
                /\ UNCHANGED << acc, relaying, attempts >>
           ELSE RecordMessage
    /\ UNCHANGED << codex, said, fromUpstream, created, tables, completed >>

ReadUpstream ==
    /\ relaying = "select"
    /\ fromUpstream # << >>
    /\ fromUpstream' = Tail(fromUpstream)
    /\ LET f == Head(fromUpstream) IN
        /\ completed' = IF f.kind = "completed" THEN completed \cup {f.text} ELSE completed
        /\ IF ~codex
           THEN RecordMessage
           ELSE IF Feed(acc, f).complete
           THEN Record(Turn(Feed(acc, f))) /\ Forget
           ELSE /\ acc' = Feed(acc, f)
                /\ UNCHANGED << counted, initial, latest, relaying, attempts >>
    /\ UNCHANGED << codex, said, fromClient, answer, created, tables >>

\* A peer closes, or a read or a write fails: what an unfinished turn has is
\* recorded, when there is text in it.
Close ==
    /\ relaying = "select"
    /\ IF codex /\ HasContent(acc)
       THEN attempts' = Append(attempts, PartialTurn(acc)) /\ Forget /\ relaying' = "last write"
       ELSE relaying' = "ended" /\ UNCHANGED << attempts, gathered >>
    /\ UNCHANGED << codex, peers, created, tables, completed >>

-----------------------------------------------------------------------------
(* write_capture and update_session_totals.                                *)

After(step) == IF step \in {"last write", "last total"} THEN "ended" ELSE "select"

\* Mutant of FirstTotal: a session row counts its turn, whichever it is.
OwnTotal == IF total # None THEN total ELSE 1

\* The session row of the first turn counts it, that of a later one is
\* inserted with zeros when the first could not be written.
FirstTotal == IF total # None THEN total ELSE IF created THEN 0 ELSE 1

WriteTurn ==
    /\ relaying \in {"write", "last write"}
    /\ rows' = rows + 1
    /\ total' = FirstTotal
    /\ created' = TRUE
    /\ relaying' = IF ~created THEN After(relaying)
                   ELSE IF relaying = "write" THEN "total" ELSE "last total"
    /\ UNCHANGED << codex, peers, gathered, attempts, phantom, slipped, completed >>

\* write_capture gave up, or the process died: the turn is dead-lettered at
\* best, and the session counts as created.  No statement of the last try or
\* of an earlier one was committed, or the session's row without the turn's,
\* which is a statement of its own, or both without an answer.
WriteTurnFails ==
    /\ relaying \in {"write", "last write"}
    /\ \/ UNCHANGED tables
       \/ /\ total' = FirstTotal
          /\ phantom' = (phantom \/ ~created)
          /\ UNCHANGED << rows, slipped >>
       \/ /\ total' = FirstTotal
          /\ rows' = rows + 1
          /\ slipped' = (slipped \/ created)
          /\ UNCHANGED phantom
    /\ created' = TRUE
    /\ relaying' \in {After(relaying), "ended"}
    /\ UNCHANGED << codex, peers, gathered, attempts, completed >>

UpdateTotals ==
    /\ relaying \in {"total", "last total"}
    /\ total' = total + 1
    /\ relaying' = After(relaying)
    /\ UNCHANGED << codex, peers, gathered, created, attempts, rows, phantom, slipped, completed >>

\* The update fails, which is logged, or the process dies.
UpdateTotalsFails ==
    /\ relaying \in {"total", "last total"}
    /\ slipped' = TRUE
    /\ relaying' \in {After(relaying), "ended"}
    /\ UNCHANGED << codex, peers, gathered, created, attempts, rows, total, phantom, completed >>

-----------------------------------------------------------------------------
Peers == Answer \/ \E kind \in Request \cup {"other"} : Say(kind)

RelayStep ==
    \/ ReadClient \/ ReadUpstream \/ Close
    \/ WriteTurn \/ WriteTurnFails \/ UpdateTotals \/ UpdateTotalsFails

RelayNext == Peers \/ RelayStep

-----------------------------------------------------------------------------
(* Properties.                                                             *)

\* Types of the variables.
RelayTypeOK ==
    /\ codex \in BOOLEAN /\ {created, phantom, slipped} \subseteq BOOLEAN
    /\ relaying \in {"off", "select", "write", "last write", "total", "last total", "ended"}
    /\ said \in 0 .. MaxSaid /\ counted \subseteq 1 .. MaxSaid
    /\ rows \in Nat /\ total \in Nat \cup {None}
    /\ acc.rates \in 0 .. 1 /\ Len(acc.delta) <= MaxText
    /\ \A i \in DOMAIN fromUpstream : fromUpstream[i].kind \in FrameKind

TurnsWith(text) == {i \in DOMAIN attempts : text \in attempts[i].texts}
TurnsCounting(id) == {i \in DOMAIN attempts : id \in attempts[i].counted}

\* The text of every answer the upstream completed is given to the store in
\* exactly one turn, marked as complete, and no message of the client is
\* counted in two turns or both in a turn and in the tokens of the next one.
AnswersRecordedOnce == codex =>
    /\ \A text \in completed :
        /\ Cardinality(TurnsWith(text)) = 1
        /\ \A i \in TurnsWith(text) : attempts[i].complete
    /\ \A id \in 1 .. said :
        Cardinality(TurnsCounting(id)) + (IF id \in counted THEN 1 ELSE 0) <= 1

\* The total of a session exceeds the turns it has rows for by at most one:
\* the first turn, when its session row was committed and the turn was not.
\* Between two turns it is exact but for that turn, also when a later turn had
\* to write the session row, unless an update failed or a commit was not
\* acknowledged (write_graph and update_session_totals).
TotalIsRows ==
    total # None =>
        LET turns == rows + (IF phantom THEN 1 ELSE 0) IN
        /\ total <= turns
        /\ relaying \in {"select", "ended"} /\ ~slipped => total = turns
=============================================================================
