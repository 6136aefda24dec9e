---------------------------------- MODULE Tui ----------------------------------
(***************************************************************************)
(* The terminal UI: a main loop that applies the answers of the polling    *)
(* tasks, draws and handles one key (runtime::run), and per query a task   *)
(* that reads the variables of its watch channel, asks the API and sends   *)
(* the answer to the loop.  An answer is as old as its question: the user  *)
(* may be elsewhere when it is applied.                                    *)
(*                                                                         *)
(* The contents of a lens are represented by the variables they were       *)
(* fetched with.  Which row a cursor is on is left open, but for the list  *)
(* of turns of SessionDetail.  A command or a search is one key.           *)
(***************************************************************************)
EXTENDS Naturals, Sequences, FiniteSets

CONSTANTS
    Session,
    TurnsOf,      \* for each session, its turns in order
    Matches,      \* turns that match a search
    Tasks,        \* polling tasks, a subset of AllTasks with "detail" and "turn"
    Windows,      \* time windows, of which "today" is the first
    MaxPending,   \* answers of a task that are not applied yet
    MaxKeys,      \* keys the user presses
    MaxFailures,  \* answers that fail
    None

VARIABLES
    history,   \* HistoryStack.stack
    place,     \* HistoryStack.cursor
    pinned,    \* PinnedTabs
    sel,       \* SelectionRegistry
    window,    \* time window
    group,     \* CostLens.group
    audit,     \* AuditLens: type and search filter
    modal,     \* SessionsLens.filter_open
    shown,     \* for each task, the variables of what its lens holds
    cursor,    \* SessionDetailLens.selected
    filtered,  \* SessionDetailLens.search_filter
    watch,     \* watch channel of each task
    coming,    \* for each task, the variables of its answers that are in the
               \* update channel or under way, in order
    quit,
    keys,      \* number of keys pressed
    errors     \* number of answers that failed

nav == << history, place, pinned, modal, quit >>
filters == << sel, window, group, audit >>
detail == << cursor, filtered >>
io == << coming, errors >>
vars == << nav, filters, detail, shown, watch, io, keys >>

Lenses == {"realtime", "sessions", "cost", "agents", "audit", "help"}
RealtimeTasks == {"stats", "feed", "status"}
CostTasks == {"breakdown", "total", "daily"}
AgentsTasks == {"summary", "distribution", "developers", "repositories"}
AllTasks == RealtimeTasks \cup CostTasks \cup AgentsTasks
                \cup {"sessions", "detail", "turn", "audit"}

Groups == << "provider", "model", "framework" >>

Lens == history[place]

Loaded(k) == k \in Tasks => shown[k] # None

-----------------------------------------------------------------------------
(* The variables of the queries; None: the lens is not on display.         *)

On(lens, v) == IF Lens = lens THEN v ELSE None

SessionsVars == [group |-> sel.group, window |-> window]
AuditVars == On("audit", [filter |-> audit, window |-> window])
CostVars(k) ==
    On("cost", [by |-> IF k = "breakdown" THEN group ELSE 0, window |-> window])
AgentsVars == On("agents", [window |-> window])
DetailId == On("detail", sel.session)
TurnId == On("turn", sel.turn)

VarsOf(k) ==
    CASE k \in RealtimeTasks -> [window |-> "now"]
      [] k \in CostTasks -> CostVars(k)
      [] k \in AgentsTasks -> AgentsVars
      [] k = "sessions" -> SessionsVars
      [] k = "detail" -> DetailId
      [] k = "turn" -> TurnId
      [] k = "audit" -> AuditVars

Init ==
    /\ history = << "realtime" >> /\ place = 1
    /\ pinned = {} /\ modal = FALSE /\ quit = FALSE
    /\ sel = [session |-> None, turn |-> None, group |-> None]
    /\ window = "today" /\ group = 1 /\ audit = "all"
    /\ shown = [k \in Tasks |-> None]
    /\ cursor = 1 /\ filtered = FALSE
    /\ watch = [k \in Tasks |-> VarsOf(k)]
    /\ coming = [k \in Tasks |-> << >>]
    /\ keys = 0 /\ errors = 0

-----------------------------------------------------------------------------
(* The polling tasks.  A tick comes at any time, so that a task need not   *)
(* tell it from a change of its variables: it reads the latest.  The lens  *)
(* of a task that is left out of Tasks always has rows.                    *)

Ask(k) ==
    /\ ~quit
    /\ watch[k] # None
    /\ Len(coming[k]) < MaxPending
    /\ coming' = [coming EXCEPT ![k] = Append(@, watch[k])]
    /\ UNCHANGED << nav, filters, detail, shown, watch, errors, keys >>

\* An error, or no such session or turn: the lens keeps what it holds.
Fail(k) ==
    /\ ~quit
    /\ coming[k] # << >>
    /\ errors < MaxFailures
    /\ errors' = errors + 1
    /\ coming' = [coming EXCEPT ![k] = SubSeq(@, 1, Len(@) - 1)]
    /\ UNCHANGED << nav, filters, detail, shown, watch, keys >>

-----------------------------------------------------------------------------
(* The list of turns of SessionDetail.                                     *)

Visible == IF filtered THEN SelectSeq(TurnsOf[shown["detail"]], LAMBDA t : t \in Matches)
           ELSE TurnsOf[shown["detail"]]

\* selected_turn_id.
SelectedTurn ==
    IF shown["detail"] # None /\ cursor \in DOMAIN Visible THEN Visible[cursor] ELSE None

\* set_selected_to_id: the position in all turns, or the top.
PositionOf(t, s) ==
    IF \E i \in DOMAIN TurnsOf[s] : TurnsOf[s][i] = t
    THEN CHOOSE i \in DOMAIN TurnsOf[s] : TurnsOf[s][i] = t
    ELSE 1

\* Mutant of Focus: the cursor starts at the turn of the drill.
FocusOnDrill(s) == sel.turn

\* The turn the cursor goes to: the one it is on when the session is the same,
\* else the one a drill asked for.
Focus(s) == IF shown["detail"] = s /\ SelectedTurn # None THEN SelectedTurn ELSE sel.turn

ApplyDetail(s) ==
    /\ cursor' = PositionOf(Focus(s), s)
    /\ filtered' = (filtered /\ shown["detail"] # None)

\* apply_update: each task has its part of the state.
Apply(k) ==
    /\ ~quit
    /\ coming[k] # << >>
    /\ shown' = [shown EXCEPT ![k] = Head(coming[k])]
    /\ IF k = "detail" THEN ApplyDetail(Head(coming[k])) ELSE UNCHANGED detail
    /\ coming' = [coming EXCEPT ![k] = Tail(@)]
    /\ UNCHANGED << nav, filters, watch, errors, keys >>

-----------------------------------------------------------------------------
(* Keys.  After each the variables of all queries are sent.                *)

\* Mutant of Sent: only the variables of the lens that was left.
SentBefore == watch' = [k \in Tasks |-> VarsOf(k)]

Sent == watch' = [k \in Tasks |-> VarsOf(k)']

Key ==
    /\ ~quit
    /\ keys < MaxKeys
    /\ keys' = keys + 1
    /\ Sent
    /\ UNCHANGED io

Push(lens) ==
    /\ history' = Append(SubSeq(history, 1, place), lens)
    /\ place' = place + 1

Open == \E lens \in Lenses \cup pinned :
    /\ Push(lens)
    /\ UNCHANGED << pinned, modal, quit, filters, detail, shown >>
    /\ Key

Pin ==
    /\ pinned' = pinned \cup {Lens}
    /\ UNCHANGED << history, place, modal, quit, filters, detail, shown >>
    /\ Key

\* Esc closes the modal of Sessions first.
Back ==
    /\ IF Lens = "sessions" /\ modal
       THEN modal' = FALSE /\ UNCHANGED place
       ELSE place > 1 /\ place' = place - 1 /\ UNCHANGED modal
    /\ UNCHANGED << history, pinned, quit, filters, detail, shown >>
    /\ Key

Forward ==
    /\ place < Len(history)
    /\ place' = place + 1
    /\ UNCHANGED << history, pinned, modal, quit, filters, detail, shown >>
    /\ Key

\* f: the modal of Sessions, the type of Audit.
CycleFilter ==
    /\ \/ Lens = "sessions" /\ modal' = TRUE /\ UNCHANGED audit
       \/ Lens = "audit" /\ audit' \in {"all", "some"} /\ UNCHANGED modal
    /\ UNCHANGED << history, place, pinned, quit, sel, window, group, detail, shown >>
    /\ Key

CycleGroup ==
    /\ Lens = "cost"
    /\ group' = (group % Len(Groups)) + 1
    /\ UNCHANGED << nav, sel, window, audit, detail, shown >>
    /\ Key

SetWindow ==
    /\ window' \in Windows
    /\ UNCHANGED << nav, sel, group, audit, detail, shown >>
    /\ Key

Search ==
    /\ \/ /\ Lens = "detail" /\ shown["detail"] # None
          /\ filtered' \in BOOLEAN /\ cursor' = 1 /\ UNCHANGED audit
       \/ Lens = "audit" /\ audit' \in {"all", "some"} /\ UNCHANGED detail
    /\ UNCHANGED << nav, sel, window, group, shown >>
    /\ Key

\* Where select_next, select_prev, select_top and select_bottom go.
Steps == {1, Len(Visible), cursor - 1, cursor + 1} \cap (1 .. Len(Visible) \cup {1})

Move ==
    /\ Lens = "detail" /\ shown["detail"] # None
    /\ cursor' \in Steps
    /\ UNCHANGED << nav, filters, filtered, shown >>
    /\ Key

\* The details of another session are dropped.
Cleared(s) ==
    shown' = IF shown["detail"] = s THEN shown
             ELSE [shown EXCEPT !["detail"] = None, !["turn"] = None]

\* From a row of Sessions or Audit.
DrillSession ==
    /\ Lens \in {"sessions", "audit"} /\ Loaded(Lens)
    /\ IF Lens = "sessions" /\ modal
       THEN modal' = FALSE /\ UNCHANGED << history, place, sel, shown >>
       ELSE \E s \in Session :
            /\ Cleared(s)
            /\ sel' = [sel EXCEPT !.session = s, !.turn = None]
            /\ Push("detail") /\ UNCHANGED modal
    /\ UNCHANGED << pinned, quit, window, group, audit, detail >>
    /\ Key

\* From a row of the live feed, which names a turn.
DrillFeed ==
    /\ Lens = "realtime" /\ Loaded("feed")
    /\ \E s \in Session : \E i \in DOMAIN TurnsOf[s] :
        sel' = [sel EXCEPT !.session = s, !.turn = TurnsOf[s][i]]
    /\ shown' = [shown EXCEPT !["detail"] = None, !["turn"] = None]
    /\ Push("detail")
    /\ UNCHANGED << pinned, modal, quit, window, group, audit, detail >>
    /\ Key

DrillTurn ==
    /\ Lens = "detail" /\ SelectedTurn # None
    /\ sel' = [sel EXCEPT !.turn = SelectedTurn]
    /\ shown' = IF shown["turn"] = SelectedTurn THEN shown ELSE [shown EXCEPT !["turn"] = None]
    /\ Push("turn")
    /\ UNCHANGED << pinned, modal, quit, window, group, audit, detail >>
    /\ Key

\* The key of the row is one of the grouping it was fetched with, and it is
\* tagged with the present one.
DrillCost ==
    /\ Lens = "cost"
    /\ sel' = IF shown["breakdown"] = None THEN sel
              ELSE [sel EXCEPT !.group = [tag |-> group, key |-> shown["breakdown"].by]]
    /\ Push("sessions")
    /\ UNCHANGED << pinned, modal, quit, window, group, audit, detail, shown >>
    /\ Key

Quit ==
    /\ quit' = TRUE
    /\ UNCHANGED << history, place, pinned, modal, filters, detail, shown >>
    /\ Key

-----------------------------------------------------------------------------
Press ==
    \/ Open \/ Pin \/ Back \/ Forward \/ CycleFilter \/ CycleGroup \/ SetWindow
    \/ Search \/ Move \/ DrillSession \/ DrillFeed \/ DrillTurn \/ DrillCost \/ Quit

Next ==
    \/ \E k \in Tasks : Ask(k) \/ Fail(k) \/ Apply(k)
    \/ Press

\* Every task ticks, a request has an end, and the loop runs every 100 ms.
Fairness == \A k \in Tasks : WF_vars(Ask(k)) /\ WF_vars(Apply(k))

FairSpec == Init /\ [][Next]_vars /\ Fairness

-----------------------------------------------------------------------------
(* Properties.                                                             *)

\* Whatever answers were under way when the user moved on, once the keys and
\* the failures stop every lens on display comes to hold, and keeps, what its
\* present variables ask for.
Settles ==
    <>[](quit \/ \A k \in Tasks : VarsOf(k) # None => shown[k] = VarsOf(k))

\* An answer that refreshes the details of the session on display leaves the
\* cursor on its turn, wherever the user moved it since the drill; with a
\* search filter it does not.
RefreshKeepsTurn ==
    [][Apply("detail") /\ Head(coming["detail"]) = shown["detail"]
            /\ ~filtered /\ SelectedTurn # None
        => SelectedTurn' = SelectedTurn]_vars
=============================================================================
