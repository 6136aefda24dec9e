------------------------------- MODULE Parts -------------------------------
(***************************************************************************)
(* Six components that share no state, side by side: the attachments, and  *)
(* beside them the write-ahead log, the session's conversation, the        *)
(* WebSocket frames, the certificates and the terminal UI.  part chooses,  *)
(* at the start, which of them runs; the others stay in their initial      *)
(* states.                                                                 *)
(***************************************************************************)
EXTENDS Attachments

CONSTANTS
    None,
    Exchange, Process, Pid, Conn, MaxOpen, ScanFails,            \* Wal
    Captures, Asked, Preflight, MaxFailures,                     \* Conversation
    MaxFrames, Sizes, ReadSize, MaxAccum, MaxMessage, MaxGarbage, Data, NoOpcode,
    Thread, GatewayOf, Host, Capacity, MaxWaits, MaxAge, Validity, MaxTime,
    Session, TurnsOf, Matches, Tasks, Windows, MaxPending, MaxKeys

VARIABLES
    part,
    pid, wal, flushed, open, next_seq, work, doing, mine, started, acked, written, exposed,
    graph, turns, session, events, next, stage, conn, req, prompts, seq, new, from,
    column, mixed, returned, misread, failures, last,
    frames, got, parsed, start, buffer, captured, headless, garbage, loop,
    key, cert, keyTmp, certTmp, lock, proc, waits, loaded, cache, step, host, leaf,
    now, late,
    history, place, pinned, sel, window, group, audit, modal, shown, cursor,
    filtered, watch, coming, quit, keys, errors

W == INSTANCE Wal WITH step <- doing, stored <- written
C == INSTANCE Conversation
F == INSTANCE Frames
S == INSTANCE Certificates
T == INSTANCE Tui

\* None stands for what is absent; a connection's exchanges are finitely many.
ASSUME WalAssumption ==
    /\ IsFiniteSet(Exchange) /\ ScanFails \in BOOLEAN
    /\ None \notin Exchange \cup W!Entry \cup W!Name

\* A request is a list of messages with a hash of each column: that of a sentinel
\* when the request has no system prompt or no tools.
ASSUME ConversationAssumption ==
    /\ Captures \in Nat
    /\ \A c \in 1 .. Captures : Asked[c] \subseteq C!Request
    /\ None \notin C!Prompt \cup C!Row

\* A frame has at least the two bytes of its header.
ASSUME FramesAssumption ==
    /\ Sizes \subseteq Nat \ {0}
    /\ MaxAccum \in Nat /\ MaxMessage \in Nat /\ ReadSize \in Nat
    /\ Data \cap {"continuation", "control", "unknown"} = {}
    /\ NoOpcode \notin Data

\* Session details are polled for.
ASSUME TuiAssumption == "detail" \in Tasks

\* A leaf leaves the cache well before it expires (12 and 24 hours).
ASSUME CertificatesAssumption ==
    /\ None \notin Process
    /\ GatewayOf \in [Thread -> Process]
    /\ IsFiniteSet(Host)
    /\ Capacity \in Nat \ {0}
    /\ MaxAge \in Nat \ {0} /\ Validity \in Nat /\ MaxAge <= Validity

walVars ==
    << pid, wal, flushed, open, next_seq, work, doing, mine, started,
       acked, written, exposed >>
conversationVars ==
    << graph, turns, session, events, next, stage, conn, req, prompts, seq, new, from,
       column, mixed, returned, misread, failures, last >>
frameVars == << frames, got, parsed, start, buffer, captured, headless, garbage, loop >>
certificateVars ==
    << key, cert, keyTmp, certTmp, lock, proc, waits, loaded, cache, step, host, leaf,
       now, late >>
tuiVars ==
    << history, place, pinned, sel, window, group, audit, modal, shown, cursor,
       filtered, watch, coming, quit, keys, errors >>
allVars == << part, vars, walVars, conversationVars, frameVars, certificateVars,
              tuiVars >>

PartsInit ==
    /\ part \in {"attachments", "wal", "conversation", "frames", "certificates", "tui"}
    /\ Init /\ W!Init /\ C!Init /\ F!Init /\ S!Init /\ T!Init
    /\ part # "attachments" => backend = "sqlite" /\ store = "local" /\ replayed = {}
    /\ part # "wal" => pid = CHOOSE p \in Pid : TRUE
    /\ part # "conversation" => graph = "sqlite"

PartsNext ==
    /\ UNCHANGED part
    /\ IF part = "attachments" THEN Next ELSE UNCHANGED vars
    /\ IF part = "wal" THEN W!Next ELSE UNCHANGED walVars
    /\ IF part = "conversation" THEN C!Next ELSE UNCHANGED conversationVars
    /\ IF part = "frames" THEN F!Next ELSE UNCHANGED frameVars
    /\ IF part = "certificates" THEN S!Next ELSE UNCHANGED certificateVars
    /\ IF part = "tui" THEN T!Next ELSE UNCHANGED tuiVars

\* The fairness of the captures and of the terminal UI.
PartsSpec ==
    /\ PartsInit /\ [][PartsNext]_allVars
    /\ \A t \in Turn : WF_vars(part = "attachments" /\ Progress(t))
    /\ \A k \in Tasks :
        /\ WF_tuiVars(part = "tui" /\ T!Ask(k))
        /\ WF_tuiVars(part = "tui" /\ T!Apply(k))

-----------------------------------------------------------------------------
(* Properties of the instances, each stated and explained in its module.   *)

\* An entry all logs know of stays unflushed until its exchange is stored (mark_flushed).
NothingBuried == W!NothingBuried

\* No such entry is replaced by another (append_entry, open_with_mode).
EntriesSurvive == W!EntriesSurvive

\* Every message of a conversation is in the delta of one turn
\* (compute_true_delta over the sum of the recorded lengths).
EveryMessageOnce == C!EveryMessageOnce

\* The session row agrees with its turns (totals, backfills, drift).
SessionAgrees == C!SessionAgrees

\* No change of a baseline without its event (record_drift_event).
DriftIsTold == C!DriftIsTold

\* The messages handed on are those of the stream (parse_frame, push).
CapturedExactly == F!CapturedExactly

\* The certificates that are shown verify (ensure_ca, CertCache).
ChainsVerify == S!ChainsVerify

\* Threads that make a leaf at the same time use one (get_or_generate).
OneLeafKept == S!OneLeafKept

\* Every displayed lens comes to hold what its variables ask (runtime::run).
Settles == part = "tui" => T!Settles

\* A refresh leaves the cursor on its turn (SessionDetail, lens_update).
RefreshKeepsTurn == T!RefreshKeepsTurn

\* Every capture ends (write_attachment, reconciliation).
CapturesEnd == part = "attachments" => \A t \in Turn : <>(pc[t] \in Ended)
=============================================================================
