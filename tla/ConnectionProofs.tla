-------------------------- MODULE ConnectionProofs --------------------------
(***************************************************************************)
(* The safety of Connection for any number of requests, messages and       *)
(* pieces.  The total of a WebSocket session is one behind what it counts  *)
(* while an update is due and else only after one was lost (Booked); the   *)
(* relay runs inside the connection's task and nowhere else (InTask).  A   *)
(* request is captured under its own number, which is above all before it, *)
(* and not before it is over (Numbered); what is over without a capture    *)
(* was not answered (Unanswered).  The texts of a session come in order:   *)
(* what is recorded lies before the item under way, and no text is both    *)
(* recorded and gathered (Listening), so that a turn which is given to the *)
(* store has neither texts nor messages of an earlier one.                 *)
(***************************************************************************)
EXTENDS Connection, FiniteSetTheorems, TLAPS

Updating == relaying \in {"total", "last total"}

\* The turns that a session row may count: the rows, and a first turn that
\* was not written.
Counted == rows + (IF phantom THEN 1 ELSE 0)

Booked ==
    /\ created \in BOOLEAN /\ slipped \in BOOLEAN /\ phantom \in BOOLEAN
    /\ rows \in Nat /\ total \in Nat \cup {None}
    /\ created = FALSE => total = None
    /\ total = None => Counted = 0 /\ ~Updating
    /\ total # None /\ ~Updating => total <= Counted /\ (slipped = FALSE => total = Counted)
    /\ total # None /\ Updating => total + 1 <= Counted /\ (slipped = FALSE => total + 1 = Counted)

InTask == task # "relay" => relaying \in {"off", "ended"}

TotalInv == Booked /\ InTask

USE RelayAssumption, ConnectionAssumption

-----------------------------------------------------------------------------
(* The total of the session.                                               *)

\* The numbers of the books, for given flags.
LEMMA Balance ==
    ASSUME NEW c \in BOOLEAN, NEW l \in BOOLEAN, created' = c, slipped' = l,
           phantom' \in BOOLEAN, rows' \in Nat, total' \in Nat \cup {None},
           c = FALSE => total' = None,
           total' = None => Counted' = 0 /\ ~Updating',
           total' # None /\ ~Updating' => total' <= Counted' /\ (l = FALSE => total' = Counted'),
           total' # None /\ Updating' => total' + 1 <= Counted' /\ (l = FALSE => total' + 1 = Counted')
    PROVE  Booked'
<1>1. created' \in BOOLEAN /\ slipped' \in BOOLEAN /\ (created' = FALSE => total' = None)
  BY Zenon
<1>2. /\ total' # None /\ ~Updating' => total' <= Counted' /\ (slipped' = FALSE => total' = Counted')
      /\ total' # None /\ Updating' => total' + 1 <= Counted' /\ (slipped' = FALSE => total' + 1 = Counted')
  BY Zenon
<1>3. QED
  BY <1>1, <1>2, Zenon DEF Booked

\* A step of the relay keeps the books.
LEMMA RelayBooks ==
    ASSUME Booked, RelayNext
    PROVE  Booked'
<1>1. /\ rows \in Nat /\ total \in Nat \cup {None}
      /\ total = None => Counted = 0 /\ ~Updating
      /\ total # None /\ ~Updating => total <= Counted
      /\ total # None /\ Updating => total + 1 <= Counted
  BY Zenon DEF Booked
<1>2. /\ created \in BOOLEAN /\ slipped \in BOOLEAN /\ phantom \in BOOLEAN
      /\ created = FALSE => total = None
      /\ total # None /\ ~Updating => (slipped = FALSE => total = Counted)
      /\ total # None /\ Updating => (slipped = FALSE => total + 1 = Counted)
  BY Zenon DEF Booked
<1>0. Counted \in Nat /\ (total = None => rows = 0 /\ phantom = FALSE)
  <2>1. ASSUME Counted = 0 PROVE rows = 0 /\ phantom = FALSE
    BY <1>1, <1>2, <2>1 DEF Counted
  <2>2. Counted \in Nat
    BY <1>1, <1>2 DEF Counted
  <2>3. QED
    BY <1>1, <2>1, <2>2, Zenon
<1>3. ASSUME UNCHANGED << created, tables >>, Updating' <=> Updating
      PROVE  Booked'
  <2>1. Counted' = Counted
    BY <1>3, Zenon DEF tables, Counted
  <2>2. QED
    BY <1>3, <2>1, Zenon DEF tables, Booked
<1>4. CASE Peers
  <2>1. UNCHANGED << created, tables >> /\ relaying' = relaying
    BY <1>4, Zenon DEF Peers, Answer, Say, Send
  <2>2. Updating' <=> Updating
    BY <2>1, Zenon DEF Updating
  <2>3. QED
    BY <1>3, <2>1, <2>2, Zenon
<1>5. CASE ReadClient \/ ReadUpstream \/ Close
  <2>1. UNCHANGED << created, tables >> /\ relaying = "select"
    BY <1>5, Zenon DEF ReadClient, ReadUpstream, Close
  <2>2. relaying' \in {relaying, "write", "last write", "ended"}
    BY <1>5 DEF ReadClient, ReadUpstream, Close, RecordMessage, Record
  <2>3. ~Updating' /\ ~Updating
    BY <2>1, <2>2 DEF Updating
  <2>4. QED
    BY <1>3, <2>1, <2>3, Zenon
<1>6. CASE WriteTurn \/ WriteTurnFails
  <2>1. relaying \in {"write", "last write"}
    BY <1>6, Zenon DEF WriteTurn, WriteTurnFails
  <2>2. ~Updating
    BY <2>1 DEF Updating
  <2>3. created' = TRUE
    BY <1>6, Zenon DEF WriteTurn, WriteTurnFails
  <2>4. After(relaying) \in {"select", "ended"}
    BY DEF After
  <2>5. ASSUME created = FALSE
        PROVE  total = None /\ rows = 0 /\ phantom = FALSE /\ FirstTotal = 1
    BY <1>0, <1>2, <2>5, Zenon DEF FirstTotal
  <2>6. ASSUME created = TRUE
        PROVE  FirstTotal = IF total # None THEN total ELSE 0
    BY <2>6, Zenon DEF FirstTotal
  <2>7. CASE WriteTurn
    <3>1. /\ rows' = rows + 1 /\ total' = FirstTotal
          /\ slipped' = slipped /\ phantom' = phantom
      BY <2>7, Zenon DEF WriteTurn
    <3>5. rows' \in Nat /\ phantom' \in BOOLEAN /\ Counted' = Counted + 1
      <4>1. Counted' = rows' + (IF phantom' THEN 1 ELSE 0)
        BY Zenon DEF Counted
      <4>2. rows' \in Nat /\ phantom' \in BOOLEAN
        BY <1>1, <1>2, <3>1
      <4>3. Counted' = Counted + 1
        BY <1>1, <1>2, <3>1, <4>1 DEF Counted
      <4>4. QED
        BY <4>2, <4>3, Zenon
    <3>2. CASE created = FALSE
      <4>1. relaying' = After(relaying)
        BY <2>7, <3>2, Zenon DEF WriteTurn
      <4>2. total = None /\ total' = 1
        BY <2>5, <3>1, <3>2, Zenon
      <4>3. ~Updating'
        BY <2>4, <4>1 DEF Updating
      <4>4. Counted' = Counted + 1 /\ Counted = 0
        BY <1>1, <3>5, <4>2, Zenon
      <4>5. total' \in Nat /\ rows' \in Nat /\ total' = Counted' /\ total' <= Counted'
        BY <3>5, <4>2, <4>4
      <4>6. slipped' = slipped /\ slipped \in BOOLEAN
        BY <1>2, <3>1, Zenon
      <4>7. QED
        BY <2>3, <3>5, <4>3, <4>5, <4>6, Balance
    <3>3. CASE created = TRUE
      <4>1. relaying' \in {"total", "last total"}
        BY <2>7, <3>3, Zenon DEF WriteTurn
      <4>2. total' = IF total # None THEN total ELSE 0
        BY <2>6, <3>1, <3>3, Zenon
      <4>3. Counted' = Counted + 1 /\ (total # None => total <= Counted)
        BY <1>1, <2>2, <3>5, Zenon
      <4>4. total' \in Nat /\ rows' \in Nat /\ total' + 1 <= Counted'
        BY <1>0, <1>1, <3>5, <4>3, <4>2
      <4>5. Updating'
        BY <4>1 DEF Updating
      <4>6. slipped = FALSE => (total # None => total = Counted)
        BY <1>2, <2>2, Zenon
      <4>7. slipped = FALSE => total' + 1 = Counted'
        <5>1. SUFFICES ASSUME total # None => total = Counted PROVE total' + 1 = Counted'
          BY <4>6, Zenon
        <5>2. QED
          BY <1>1, <4>3, <4>2, <5>1
      <4>8. slipped' = slipped /\ slipped \in BOOLEAN
        BY <1>2, <3>1, Zenon
      <4>9. QED
        BY <2>3, <3>5, <4>4, <4>7, <4>8, <4>5, Balance
    <3>4. QED
      BY <1>2, <3>2, <3>3, Zenon
  <2>8. CASE WriteTurnFails
    <3>1. relaying' \in {"select", "ended"}
      BY <2>4, <2>8 DEF WriteTurnFails
    <3>2. ~Updating'
      BY <3>1 DEF Updating
    <3>3. CASE UNCHANGED tables
      <4>1. rows' = rows /\ total' = total /\ slipped' = slipped /\ phantom' = phantom
        BY <3>3, Zenon DEF tables
      <4>2. Counted' = Counted
        BY <4>1, Zenon DEF Counted
      <4>3. QED
        BY <1>1, <1>2, <2>2, <2>3, <3>2, <4>1, <4>2, Zenon DEF Booked
    <3>4. CASE /\ total' = FirstTotal /\ phantom' = (phantom \/ ~created)
               /\ UNCHANGED << rows, slipped >>
      <4>1. CASE created = TRUE
        <5>1. phantom' = phantom
          BY <1>2, <3>4, <4>1
        <5>2. Counted' = Counted /\ rows' = rows /\ slipped' = slipped
          BY <3>4, <5>1 DEF Counted
        <5>3. total' = IF total # None THEN total ELSE 0
          BY <2>6, <3>4, <4>1, Zenon
        <5>4. total' \in Nat /\ rows' \in Nat /\ total' <= Counted'
          BY <1>0, <1>1, <2>2, <5>2, <5>3
        <5>5. slipped = FALSE => total' = Counted'
          BY <1>1, <1>2, <2>2, <5>2, <5>3, Zenon
        <5>6. QED
          BY <1>2, <2>3, <3>2, <5>1, <5>2, <5>4, <5>5, Balance
      <4>2. CASE created = FALSE
        <5>1. rows = 0 /\ total' = 1 /\ rows' = rows /\ slipped' = slipped
          BY <2>5, <3>4, <4>2, Zenon
        <5>2. phantom' = TRUE
          BY <1>2, <3>4, <4>2
        <5>3. Counted' = 0 + 1
          BY <5>1, <5>2, Zenon DEF Counted
        <5>4. total' \in Nat /\ rows' \in Nat /\ total' = Counted' /\ total' <= Counted'
          BY <5>1, <5>3
        <5>5. QED
          BY <1>2, <2>3, <3>2, <5>1, <5>2, <5>4, Balance
      <4>3. QED
        BY <1>2, <4>1, <4>2, Zenon
    <3>5. CASE /\ rows' = rows + 1 /\ total' = FirstTotal
               /\ slipped' = (slipped \/ created) /\ UNCHANGED phantom
      <4>1. rows' \in Nat /\ phantom' \in BOOLEAN /\ Counted' = Counted + 1
        <5>1. Counted' = rows' + (IF phantom' THEN 1 ELSE 0)
          BY Zenon DEF Counted
        <5>2. rows' \in Nat /\ phantom' \in BOOLEAN
          BY <1>1, <1>2, <3>5
        <5>3. Counted' = Counted + 1
          BY <1>1, <1>2, <3>5, <5>1 DEF Counted
        <5>4. QED
          BY <5>2, <5>3, Zenon
      <4>2. CASE created = TRUE
        <5>1. slipped' = TRUE
          BY <3>5, <4>2, Zenon
        <5>2. total' = IF total # None THEN total ELSE 0
          BY <2>6, <3>5, <4>2, Zenon
        <5>3. total' \in Nat /\ total' <= Counted'
          BY <1>0, <1>1, <2>2, <4>1, <5>2
        <5>4. QED
          BY <2>3, <3>2, <4>1, <5>1, <5>3, Balance
      <4>3. CASE created = FALSE
        <5>1. Counted = 0 /\ total' = 1
          BY <1>1, <2>5, <3>5, <4>3, Zenon
        <5>2. total' \in Nat /\ total' = Counted' /\ total' <= Counted'
          BY <4>1, <5>1
        <5>3. slipped' \in BOOLEAN
          BY <1>2, <3>5, <4>3
        <5>4. QED
          BY <2>3, <3>2, <4>1, <5>2, <5>3, Balance
      <4>4. QED
        BY <1>2, <4>2, <4>3, Zenon
    <3>6. QED
      BY <2>8, <3>3, <3>4, <3>5, Zenon DEF WriteTurnFails
  <2>9. QED
    BY <1>6, <2>7, <2>8
<1>7. CASE UpdateTotals \/ UpdateTotalsFails
  <2>1. /\ relaying \in {"total", "last total"}
        /\ relaying' \in {After(relaying), "ended"}
    BY <1>7 DEF UpdateTotals, UpdateTotalsFails
  <2>2. Updating /\ ~Updating'
    BY <2>1 DEF After, Updating
  <2>3. rows' = rows /\ created' = created /\ phantom' = phantom /\ Counted' = Counted
    <3>1. rows' = rows /\ created' = created /\ phantom' = phantom
      BY <1>7, Zenon DEF UpdateTotals, UpdateTotalsFails
    <3>2. QED
      BY <3>1 DEF Counted
  <2>4. total # None /\ total \in Nat /\ total + 1 <= Counted
    BY <1>1, <2>2
  <2>5. created = TRUE
    BY <1>2, <2>4, Zenon
  <2>6. CASE UpdateTotals
    <3>1. slipped' = slipped /\ total' = total + 1
      BY <2>6, Zenon DEF UpdateTotals
    <3>2. total' \in Nat /\ rows' \in Nat /\ total' <= Counted'
      BY <1>0, <1>1, <2>3, <2>4, <3>1
    <3>3. slipped = FALSE => total' = Counted'
      BY <1>2, <2>2, <2>3, <2>4, <3>1, Zenon
    <3>4. QED
      BY <1>2, <2>2, <2>3, <2>5, <3>1, <3>2, <3>3, Balance
  <2>7. CASE UpdateTotalsFails
    <3>1. slipped' = TRUE /\ total' = total
      BY <2>7, Zenon DEF UpdateTotalsFails
    <3>2. total' \in Nat /\ rows' \in Nat /\ total' <= Counted'
      BY <1>0, <1>1, <2>3, <2>4, <3>1
    <3>3. QED
      BY <1>2, <2>2, <2>3, <2>5, <3>1, <3>2, Balance
  <2>8. QED
    BY <1>7, <2>6, <2>7
<1>8. QED
  BY <1>4, <1>5, <1>6, <1>7 DEF RelayNext, RelayStep

\* Outside of the relay, the task leaves the books alone.
LEMMA TaskBooks ==
    ASSUME TotalInv, [Next]_vars
    PROVE  TotalInv'
<1> USE DEF TotalInv, InTask
<1>1. ASSUME UNCHANGED relayVars, task' \in {task} \cup
                {"first", "tls", "pass", "request", "forward", "stream", "capture",
                 "error", "upgrade", "done"}, task # "relay" \/ task' = task
      PROVE  TotalInv'
  BY <1>1 DEF relayVars, tables, Booked, Updating, Counted
<1>2. CASE \/ FirstBytesFail \/ OpenTunnel \/ BadConnect \/ NoServerName \/ AnswerProbe
           \/ Handshake \/ PassThroughEnds \/ RequestEnds \/ ReadFails \/ ConnectFails
           \/ WriteFails \/ UpstreamEnds \/ ErrorEnds
  BY <1>1, <1>2 DEF FirstBytesFail, OpenTunnel, BadConnect, NoServerName, AnswerProbe,
       FirstBytes, Handshake, PassThroughEnds, RequestEnds, ReadFails, ConnectFails,
       WriteFails, UpstreamEnds, ErrorEnds, Tunnel, Goto, Quiet
<1>3. CASE ReadRequest \/ Connect \/ ReadPieces \/ TotalTimeout \/ CaptureResponse \/ AnswerError
  BY <1>1, <1>3 DEF ReadRequest, Connect, ReadPieces, TotalTimeout, CaptureResponse,
       AnswerError, Goto
<1>4. CASE Ask \/ ClientLeaves \/ UpstreamSends \/ UNCHANGED vars
  BY <1>1, <1>4 DEF Ask, ClientLeaves, UpstreamSends, vars
<1>5. CASE Upgrade
  <2>1. UNCHANGED << created, tables >> /\ relaying \in {"off", "ended"}
    BY <1>5 DEF Upgrade
  <2>2. \/ task' = "relay" /\ relaying' = "select"
        \/ task' = "done" /\ relaying' = relaying
    BY <1>5 DEF Upgrade, Goto
  <2>3. QED
    BY <2>1, <2>2 DEF tables, Booked, Updating, Counted
<1>6. CASE Relaying
  <2>1. Booked'
    BY <1>6, RelayBooks DEF Relaying
  <2>2. InTask'
    BY <1>6 DEF Relaying, Goto
  <2>3. QED
    BY <2>1, <2>2
<1>7. QED
  BY <1>2, <1>3, <1>4, <1>5, <1>6 DEF Next, TaskStep

\* The total of a WebSocket session counts its rows and at most one turn more,
\* the first, when its session row was committed without it; between two turns
\* it is exactly that unless an update was lost (write_graph and
\* update_session_totals), for any number of messages.
THEOREM TotalStaysRows == Spec => []TotalIsRows
<1>1. Init => TotalInv
  <2>1. SUFFICES ASSUME Init PROVE TotalInv
    OBVIOUS
  <2>2. /\ created = FALSE /\ slipped = FALSE /\ phantom = FALSE
        /\ rows = 0 /\ total = None /\ relaying = "off"
    BY <2>1 DEF Init, RelayInit
  <2>3. Counted = 0
    BY <2>2 DEF Counted
  <2>4. QED
    BY <2>2, <2>3 DEF TotalInv, Booked, InTask, Updating
<1>2. TotalInv => TotalIsRows
  <2>1. SUFFICES ASSUME TotalInv, total # None PROVE
            /\ total <= Counted
            /\ relaying \in {"select", "ended"} /\ ~slipped => total = Counted
    BY DEF TotalIsRows, Counted
  <2>2. total \in Nat /\ Counted \in Nat /\ (Updating => total + 1 <= Counted)
        /\ (~Updating => total <= Counted /\ (slipped = FALSE => total = Counted))
    <3>1. rows \in Nat /\ phantom \in BOOLEAN
      BY <2>1, Zenon DEF TotalInv, Booked
    <3>2. Counted \in Nat
      BY <3>1 DEF Counted
    <3>3. QED
      BY <2>1, <3>2, Zenon DEF TotalInv, Booked
  <2>3. ~slipped => slipped = FALSE
    BY <2>1, Zenon DEF TotalInv, Booked
  <2>4. total <= Counted
    BY <2>2
  <2>5. ~Updating /\ ~slipped => total = Counted
    BY <2>2, <2>3, Zenon
  <2>6. QED
    BY <2>4, <2>5, Zenon DEF Updating
<1>3. QED
  BY <1>1, <1>2, TaskBooks, PTL DEF Spec

-----------------------------------------------------------------------------
(* One capture for each answered request.                                  *)

AtWork == task \in {"forward", "stream", "capture", "error", "upgrade"}

\* Number of the last request that was read.
Last == IF request = None THEN 0 ELSE request.n

Responses ==
    [framing : Framing \cup {"none"}, size : Nat, sent : Nat, over : BOOLEAN]

Typed ==
    /\ request \in {None} \cup [n : Nat, api : BOOLEAN, clean : BOOLEAN]
    /\ response \in Responses
    /\ got \in Nat
    /\ inbox = << >> \/ \E r : r.api \in BOOLEAN /\ inbox = << r >>

\* The next request has a number that no capture and no answer has.
Numbered ==
    /\ inbox # << >> => Head(inbox).n = Last + 1
    /\ \A c \in captures : c.n \in Nat /\ c.n <= Last
    /\ \A n \in answered : n \in Nat /\ n <= Last
    /\ AtWork => request # None /\ \A c \in captures : c.n # request.n
    /\ task \in {"first", "tls", "pass"} => request = None

\* Only a tunnel or a direct TLS connection gets past the first bytes.
Served == task \notin {"first", "done"} => arrival.mode \in {"connect", "tls"}

\* What ends without a capture was not answered; what is upgraded had a 101.
Unanswered ==
    /\ task \in {"forward", "error"} => request.n \notin answered
    /\ task = "stream" /\ got = 0 => request.n \notin answered
    /\ task = "upgrade" => response.framing = "upgrade"

\* The last request has its capture, or a reason to have none.
Settled ==
    request # None /\ request.n \in answered =>
        \/ Cardinality({c \in captures : c.n = request.n}) = 1
        \/ ~ShouldCapture
        \/ request.n \in gaveUp
        \/ arrival.mode = "tls" /\ response.framing = "upgrade"

CapturedInv == Typed /\ Numbered /\ Unanswered /\ AnsweredIsCaptured

\* No step serves a probe.
LEMMA ServedStays ==
    ASSUME Served, [Next]_vars
    PROVE  Served'
<1>1. CASE FirstBytesFail \/ OpenTunnel \/ BadConnect \/ NoServerName \/ AnswerProbe
  BY <1>1 DEF Served, FirstBytesFail, OpenTunnel, BadConnect, NoServerName, AnswerProbe,
     Quiet, Goto
<1>2. arrival' = arrival
  BY DEF Next, TaskStep, FirstBytesFail, OpenTunnel, BadConnect, NoServerName, AnswerProbe,
     Handshake, ReadRequest, RequestEnds, Connect, ConnectFails, ReadPieces, WriteFails,
     UpstreamEnds, ReadFails, TotalTimeout, CaptureResponse, AnswerError, ErrorEnds, Upgrade,
     PassThroughEnds, Relaying, Ask, ClientLeaves, UpstreamSends, Quiet, vars
<1>3. CASE Ask \/ ClientLeaves \/ UpstreamSends \/ UNCHANGED vars
  BY <1>2, <1>3 DEF Served, Ask, ClientLeaves, UpstreamSends, vars
<1>4. CASE \/ Handshake \/ ReadRequest \/ RequestEnds \/ Connect \/ ConnectFails
           \/ ReadPieces \/ WriteFails \/ UpstreamEnds \/ ReadFails \/ TotalTimeout
           \/ CaptureResponse \/ AnswerError \/ ErrorEnds \/ Upgrade
           \/ PassThroughEnds \/ Relaying
  <2>1. task \notin {"first", "done"}
    BY <1>4 DEF Handshake, ReadRequest, RequestEnds, Connect, ConnectFails, ReadPieces,
       WriteFails, UpstreamEnds, ReadFails, TotalTimeout, CaptureResponse, AnswerError,
       ErrorEnds, Upgrade, PassThroughEnds, Relaying
  <2>2. QED
    BY <1>2, <2>1 DEF Served
<1>5. QED
  BY <1>1, <1>3, <1>4 DEF Next, TaskStep

\* AnsweredIsCaptured is Settled between two exchanges.
LEMMA Between == AnsweredIsCaptured <=> (task \in {"request", "relay", "done"} => Settled)
BY DEF AnsweredIsCaptured, Settled

\* The record that stands for no response is one.
LEMMA NoResponseTyped ==
    /\ NoResponse \in Responses
    /\ \A f \in Framing, n \in Nat :
        [NoResponse EXCEPT !.framing = f, !.size = n]
            \in Responses
<1>1. NoResponse \in Responses
  BY DEF NoResponse, Responses
<1>2. ASSUME NEW f \in Framing, NEW n \in Nat
      PROVE  [NoResponse EXCEPT !.framing = f, !.size = n]
                \in Responses
  BY <1>1, <1>2 DEF Responses
<1>3. QED
  BY <1>1, <1>2

\* A number no capture had is in one capture afterwards.
LEMMA FirstCapture ==
    ASSUME NEW k \in {"response", "error", "upgrade"}, Captured(k), UNCHANGED request,
           \A c \in captures : c.n # request.n
    PROVE  /\ ShouldCapture => Cardinality({c \in captures' : c.n = request'.n}) = 1
           /\ \A c \in captures' : c \in captures \/ c.n = request.n
<1> DEFINE r == [n |-> request.n, kind |-> k, got |-> got]
<1>1. captures' = IF ShouldCapture THEN captures \cup {r} ELSE captures
  BY DEF Captured
<1>2. ASSUME ShouldCapture PROVE {c \in captures' : c.n = request'.n} = {r}
  BY <1>1, <1>2
<1>3. Cardinality({r}) = 1
  BY FS_Singleton
<1>4. ASSUME ShouldCapture PROVE Cardinality({c \in captures' : c.n = request'.n}) = 1
  BY <1>2, <1>3, <1>4
<1>5. \A c \in captures' : c \in captures \/ c.n = request.n
  BY <1>1
<1>6. QED
  BY <1>4, <1>5

\* The first bytes, the handshake and what a peer does by itself.
LEMMA QuietCaptured ==
    ASSUME CapturedInv,
           UNCHANGED << arrival, request, inbox, got, history >>,
           response' \in Responses,
           response'.framing = response.framing,
           \/ task' = task
           \/ task \in {"first", "tls", "pass"} /\ task' \in {"tls", "pass", "request", "done"}
           \/ task \in {"request", "relay"} /\ task' \in {"done", "relay"}
           \/ task \in {"forward", "stream"} /\ task' \in {"capture"}
           \/ task = "forward" /\ task' = "error"
           \/ task = "stream" /\ got = 0 /\ task' = "error"
           \/ task = "error" /\ task' = "done"
    PROVE  CapturedInv'
<1>1. Typed'
  BY DEF CapturedInv, Typed
<1>2. Last' = Last
  BY DEF Last
<1>3. Numbered'
  BY <1>2 DEF CapturedInv, Numbered, AtWork, history
<1>4. Unanswered'
  BY DEF CapturedInv, Unanswered, history
<1>5. UNCHANGED << captures, answered, gaveUp >>
  BY DEF history
<1>6. ShouldCapture' <=> ShouldCapture
  BY DEF ShouldCapture
<1>7. Settled => Settled'
  BY <1>5, <1>6 DEF Settled
<1>8. task' \in {"request", "relay", "done"} => Settled
  BY Between DEF CapturedInv, Numbered, Unanswered, Settled
<1>9. AnsweredIsCaptured'
  BY <1>7, <1>8 DEF AnsweredIsCaptured, Settled
<1>10. QED
  BY <1>1, <1>3, <1>4, <1>9 DEF CapturedInv

\* A capture, after which the exchange is settled.
LEMMA CaptureSettles ==
    ASSUME CapturedInv, NEW k \in {"response", "error", "upgrade"}, Captured(k),
           AtWork, task' \in {"request", "done", "relay"},
           UNCHANGED << arrival, inbox, request, response, got, gaveUp >>,
           answered' \in {answered, answered \cup {request.n}}
    PROVE  CapturedInv'
<1>1. Typed' /\ request # None /\ request.n \in Nat /\ Last = request.n /\ Last' = Last
  BY DEF CapturedInv, Typed, Numbered, Last
<1>2. \A c \in captures : c.n # request.n
  BY DEF CapturedInv, Numbered
<1>3. /\ ShouldCapture => Cardinality({c \in captures' : c.n = request'.n}) = 1
      /\ \A c \in captures' : c \in captures \/ c.n = request.n
  BY <1>2, FirstCapture
<1>4. Numbered'
  <2>1. \A c \in captures' : c.n \in Nat /\ c.n <= Last'
    BY <1>1, <1>3 DEF CapturedInv, Numbered
  <2>2. \A n \in answered' : n \in Nat /\ n <= Last'
    BY <1>1 DEF CapturedInv, Numbered
  <2>3. inbox' # << >> => Head(inbox').n = Last' + 1
    BY <1>1 DEF CapturedInv, Numbered
  <2>4. QED
    BY <2>1, <2>2, <2>3 DEF Numbered, AtWork
<1>5. Unanswered'
  BY DEF Unanswered
<1>6. AnsweredIsCaptured'
  <2>1. ShouldCapture' <=> ShouldCapture
    BY DEF ShouldCapture
  <2>2. QED
    BY <1>3, <2>1 DEF AnsweredIsCaptured
<1>7. QED
  BY <1>1, <1>4, <1>5, <1>6 DEF CapturedInv

\* A request is read under a number that is not in use.
LEMMA ReadRequestCaptured ==
    ASSUME CapturedInv, ReadRequest
    PROVE  CapturedInv'
<1>1. PICK r : r.api \in BOOLEAN /\ inbox = << r >>
  BY DEF ReadRequest, CapturedInv, Typed
<1>2. Head(inbox) = r /\ r.n = Last + 1
  BY <1>1 DEF CapturedInv, Numbered
<1>3. Last \in Nat
  BY DEF CapturedInv, Typed, Last
<1>4. /\ request' = [n |-> r.n, api |-> r.api, clean |-> stray = "none"]
      /\ response' = NoResponse /\ got' = 0 /\ inbox' = << >> /\ task' = "forward"
      /\ UNCHANGED << captures, answered >>
  BY <1>2 DEF ReadRequest, Goto, history
<1>5. request' \in [n : Nat, api : BOOLEAN, clean : BOOLEAN]
  <2>1. r.n \in Nat
    BY <1>2, <1>3
  <2>2. (stray = "none") \in BOOLEAN
    BY Zenon
  <2>3. QED
    BY <1>1, <1>4, <2>1, <2>2
<1>6. Typed'
  BY <1>4, <1>5, NoResponseTyped DEF Typed
<1>7. request' # None /\ Last' = r.n /\ request'.n = r.n
  BY <1>4, <1>5 DEF Last
<1>8. Numbered'
  <2>1. \A c \in captures' : c.n \in Nat /\ c.n <= Last' /\ c.n # request'.n
    BY <1>2, <1>3, <1>4, <1>7 DEF CapturedInv, Numbered
  <2>2. \A n \in answered' : n \in Nat /\ n <= Last'
    BY <1>2, <1>3, <1>4, <1>7 DEF CapturedInv, Numbered
  <2>3. QED
    BY <1>4, <1>7, <2>1, <2>2 DEF Numbered
<1>9. Unanswered'
  <2>1. request'.n \notin answered'
    BY <1>2, <1>3, <1>4, <1>7 DEF CapturedInv, Numbered
  <2>2. QED
    BY <1>4, <2>1 DEF Unanswered
<1>10. AnsweredIsCaptured'
  BY <1>4 DEF AnsweredIsCaptured
<1>11. QED
  BY <1>6, <1>8, <1>9, <1>10 DEF CapturedInv

\* What has been read of a response counts, so that its end is captured.
LEMMA ReadPiecesCaptured ==
    ASSUME CapturedInv, ReadPieces
    PROVE  CapturedInv'
<1>1. PICK n \in got + 1 .. response.sent :
        /\ got' = Kept(n)
        /\ Answer1(n)
        /\ IF Kept(n) = n /\ response.framing = "upgrade"
           THEN task' = "upgrade"
           ELSE task' = IF n > MaxResponse \/ Whole(n) THEN "capture" ELSE "stream"
  BY DEF ReadPieces, Goto
<1>2. /\ task = "stream"
      /\ UNCHANGED << arrival, inbox, request, response, captures, gaveUp >>
  BY DEF ReadPieces
<1>3. /\ got \in Nat /\ n \in Nat /\ n > 0 /\ MaxResponse \in Nat
  BY DEF CapturedInv, Typed
<1>4. got' \in Nat /\ (task' = "stream" => got' > 0)
  BY <1>1, <1>3 DEF Kept
<1>5. answered' \in {answered, answered \cup {request.n}}
  BY <1>1 DEF Answer1
<1>6. Typed' /\ Last' = Last /\ request # None /\ Last = request.n /\ request.n \in Nat
  BY <1>2, <1>4 DEF CapturedInv, Typed, Last, Numbered, AtWork
<1>7. Numbered'
  <2>1. \A m \in answered' : m \in Nat /\ m <= Last'
    BY <1>5, <1>6 DEF CapturedInv, Numbered
  <2>2. inbox' # << >> => Head(inbox').n = Last' + 1
    BY <1>2, <1>6 DEF CapturedInv, Numbered
  <2>3. /\ \A c \in captures' : c.n \in Nat /\ c.n <= Last' /\ c.n # request'.n
        /\ request' # None
    BY <1>2, <1>6 DEF CapturedInv, Numbered, AtWork
  <2>4. task' \in {"upgrade", "capture", "stream"}
    BY <1>1
  <2>5. QED
    BY <2>1, <2>2, <2>3, <2>4 DEF Numbered
<1>8. Unanswered'
  BY <1>1, <1>2, <1>4 DEF Unanswered
<1>9. AnsweredIsCaptured'
  BY <1>1 DEF AnsweredIsCaptured
<1>10. QED
  BY <1>6, <1>7, <1>8, <1>9 DEF CapturedInv

\* Every step keeps the invariant.
LEMMA CapturedStays ==
    ASSUME CapturedInv, Served, [Next]_vars
    PROVE  CapturedInv'
<1>1. CASE \/ FirstBytesFail \/ OpenTunnel \/ BadConnect \/ NoServerName \/ AnswerProbe
           \/ Handshake \/ PassThroughEnds \/ RequestEnds \/ ConnectFails
           \/ WriteFails \/ UpstreamEnds \/ ErrorEnds
  <2>1. UNCHANGED << arrival, request, response, inbox, got, history >>
    BY <1>1 DEF FirstBytesFail, OpenTunnel, BadConnect, NoServerName, AnswerProbe,
       Handshake, PassThroughEnds, RequestEnds, ConnectFails, WriteFails, UpstreamEnds,
       ErrorEnds, Quiet, exchange
  <2>2. \/ task \in {"first", "tls", "pass"} /\ task' \in {"tls", "pass", "request", "done"}
        \/ task = "request" /\ task' = "done"
        \/ task = "stream" /\ task' = "capture"
        \/ task = "forward" /\ task' = "error"
        \/ task = "error" /\ task' = "done"
    BY <1>1 DEF FirstBytesFail, OpenTunnel, BadConnect, NoServerName, AnswerProbe,
       FirstBytes, Handshake, PassThroughEnds, RequestEnds, ConnectFails, WriteFails,
       UpstreamEnds, ErrorEnds, Tunnel, Goto
  <2>3. response \in Responses
    BY DEF CapturedInv, Typed
  <2>4. QED
    BY <2>1, <2>2, <2>3, QuietCaptured
<1>2. CASE ReadFails
  <2>1. UNCHANGED << arrival, request, response, inbox, got, history >>
    BY <1>2 DEF ReadFails, Quiet, exchange
  <2>2. \/ task = "stream" /\ task' = "capture"
        \/ task = "stream" /\ got = 0 /\ task' = "error"
    BY <1>2 DEF ReadFails, ErrorIsAnswered, Goto
  <2>3. response \in Responses
    BY DEF CapturedInv, Typed
  <2>4. QED
    BY <2>1, <2>2, <2>3, QuietCaptured
<1>3. CASE ClientLeaves \/ Relaying \/ UNCHANGED vars
  <2>1. UNCHANGED << arrival, request, response, inbox, got, history >>
    BY <1>3 DEF ClientLeaves, Relaying, vars, exchange
  <2>2. task' = task \/ (task = "relay" /\ task' \in {"done", "relay"})
    BY <1>3 DEF ClientLeaves, Relaying, vars, Goto
  <2>3. response \in Responses
    BY DEF CapturedInv, Typed
  <2>4. QED
    BY <2>1, <2>2, <2>3, QuietCaptured
<1>4. CASE UpstreamSends
  <2>1. UNCHANGED << arrival, request, inbox, got, history >> /\ task' = task
    BY <1>4 DEF UpstreamSends
  <2>2. response \in Responses
    BY DEF CapturedInv, Typed
  <2>3. /\ response' \in Responses
        /\ response'.framing = response.framing
    <3>1. CASE response' = [response EXCEPT !.sent = @ + 1]
      BY <2>2, <3>1 DEF Responses
    <3>2. CASE response' = [response EXCEPT !.over = TRUE]
      BY <2>2, <3>2 DEF Responses
    <3>3. QED
      BY <1>4, <3>1, <3>2 DEF UpstreamSends
  <2>4. QED
    BY <2>1, <2>3, QuietCaptured
<1>5. CASE Ask
  <2>1. PICK r : /\ inbox' = << r >> /\ r.api \in BOOLEAN
                 /\ r.n = IF request = None THEN 1 ELSE request.n + 1
    <3>1. PICK f \in {"none", "length", "oversize", "chunked"}, b \in BOOLEAN :
            inbox' = << [n |-> IF request = None THEN 1 ELSE request.n + 1,
                         framing |-> f, api |-> b] >>
      BY <1>5 DEF Ask
    <3>2. QED
      BY <3>1
  <2>2. UNCHANGED << arrival, task, request, response, got, captures, answered, gaveUp >>
    BY <1>5 DEF Ask, exchange, history
  <2>3. Typed' /\ Last' = Last /\ Head(inbox') = r /\ r.n = Last + 1
    BY <2>1, <2>2 DEF CapturedInv, Typed, Last
  <2>4. Numbered' /\ Unanswered'
    BY <2>2, <2>3 DEF CapturedInv, Numbered, Unanswered, AtWork
  <2>5. AnsweredIsCaptured'
    BY <2>2 DEF CapturedInv, AnsweredIsCaptured, ShouldCapture
  <2>6. QED
    BY <2>3, <2>4, <2>5 DEF CapturedInv
<1>6. CASE Connect
  <2>1. /\ task = "forward" /\ task' = "stream"
        /\ UNCHANGED << arrival, inbox, request, got, captures, answered, gaveUp >>
    BY <1>6 DEF Connect, Goto, history
  <2>2. PICK f \in Framing, n \in Nat : response' = [NoResponse EXCEPT !.framing = f, !.size = n]
    <3>1. PICK f \in Framing : \E n \in 1 .. IF f = "upgrade" THEN 1 ELSE MaxPieces :
            response' = [NoResponse EXCEPT !.framing = f, !.size = n]
      BY <1>6 DEF Connect
    <3>2. (IF f = "upgrade" THEN 1 ELSE MaxPieces) \in Nat
      BY ConnectionAssumption
    <3>3. PICK n \in 1 .. IF f = "upgrade" THEN 1 ELSE MaxPieces :
            response' = [NoResponse EXCEPT !.framing = f, !.size = n]
      BY <3>1
    <3>4. n \in Nat
      BY <3>2, <3>3
    <3>5. QED
      BY <3>3, <3>4
  <2>3. response' \in Responses
    BY <2>2, NoResponseTyped
  <2>4. Typed' /\ Last' = Last
    BY <2>1, <2>3 DEF CapturedInv, Typed, Last
  <2>5. Numbered' /\ Unanswered'
    BY <2>1, <2>4 DEF CapturedInv, Numbered, Unanswered, AtWork
  <2>6. AnsweredIsCaptured'
    BY <2>1 DEF AnsweredIsCaptured
  <2>7. QED
    BY <2>4, <2>5, <2>6 DEF CapturedInv
<1>7. CASE TotalTimeout
  <2>1. /\ task \in {"forward", "stream"} /\ task' = "done"
        /\ gaveUp' = gaveUp \cup {request.n}
        /\ UNCHANGED << arrival, inbox, request, response, got, captures, answered >>
    BY <1>7 DEF TotalTimeout, Goto, exchange
  <2>2. Typed' /\ Last' = Last
    BY <2>1 DEF CapturedInv, Typed, Last
  <2>3. Numbered' /\ Unanswered'
    BY <2>1, <2>2 DEF CapturedInv, Numbered, Unanswered, AtWork
  <2>4. AnsweredIsCaptured'
    BY <2>1 DEF AnsweredIsCaptured
  <2>5. QED
    BY <2>2, <2>3, <2>4 DEF CapturedInv
<1>8. CASE CaptureResponse
  <2>1. /\ AtWork /\ Captured("response") /\ task' \in {"request", "done", "relay"}
        /\ UNCHANGED << arrival, inbox, request, response, got, gaveUp, answered >>
    BY <1>8 DEF CaptureResponse, exchange, AtWork
  <2>2. QED
    BY <2>1, CaptureSettles
<1>9. CASE AnswerError
  <2>1. /\ AtWork /\ Captured("error") /\ task' \in {"request", "done", "relay"}
        /\ answered' = answered \cup {request.n}
        /\ UNCHANGED << arrival, inbox, request, response, got, gaveUp >>
    BY <1>9 DEF AnswerError, exchange, AtWork
  <2>2. QED
    BY <2>1, CaptureSettles
<1>10. CASE Upgrade
  <2>1. /\ task = "upgrade"
        /\ UNCHANGED << arrival, inbox, request, response, got, gaveUp, answered >>
    BY <1>10 DEF Upgrade, exchange
  <2>2. CASE arrival.mode = "connect"
    <3>1. AtWork /\ Captured("upgrade") /\ task' = "relay"
      BY <1>10, <2>1, <2>2 DEF Upgrade, Goto, AtWork
    <3>2. QED
      BY <2>1, <3>1, CaptureSettles
  <2>3. CASE arrival.mode # "connect"
    <3>1. captures' = captures /\ task' = "done"
      BY <1>10, <2>3 DEF Upgrade, Goto
    <3>2. Typed' /\ Last' = Last
      BY <2>1 DEF CapturedInv, Typed, Last
    <3>3. Numbered' /\ Unanswered'
      BY <2>1, <3>1, <3>2 DEF CapturedInv, Numbered, Unanswered, AtWork
    <3>4. AnsweredIsCaptured'
      BY <2>1, <2>3, <3>1 DEF AnsweredIsCaptured, CapturedInv, Unanswered, Served
    <3>5. QED
      BY <3>2, <3>3, <3>4 DEF CapturedInv
  <2>4. QED
    BY <2>2, <2>3
<1>11. QED
  BY <1>1, <1>2, <1>3, <1>4, <1>5, <1>6, <1>7, <1>8, <1>9, <1>10,
     ReadRequestCaptured, ReadPiecesCaptured DEF Next, TaskStep

\* The invariant of the captures holds in every state.
LEMMA CapturedAlways == Spec => [](CapturedInv /\ Served)
<1>1. Init => CapturedInv /\ Served
  <2>1. SUFFICES ASSUME Init PROVE CapturedInv /\ Served
    OBVIOUS
  <2>2. /\ task = "first" /\ inbox = << >> /\ request = None /\ response = NoResponse
        /\ got = 0 /\ captures = {} /\ answered = {}
    BY <2>1 DEF Init
  <2>3. Typed
    BY <2>2, NoResponseTyped DEF Typed
  <2>4. Numbered /\ Unanswered /\ AnsweredIsCaptured /\ Served
    BY <2>2 DEF Numbered, Unanswered, AnsweredIsCaptured, Served, AtWork
  <2>5. QED
    BY <2>3, <2>4 DEF CapturedInv
<1>2. QED
  BY <1>1, CapturedStays, ServedStays, PTL DEF Spec

\* An API request whose whole response the client has is captured once, or
\* there is a reason why not (handle_mitm_tunnel), for any number of requests
\* and pieces and any limit of the capture buffer.
THEOREM AnsweredCaptured == Spec => []AnsweredIsCaptured
<1>1. CapturedInv => AnsweredIsCaptured
  BY DEF CapturedInv
<1>2. QED
  BY <1>1, CapturedAlways, PTL

-----------------------------------------------------------------------------
(* The answers and the messages of a WebSocket session.                    *)

Text == Nat \X Nat
Message == [id : Nat, kind : Request \cup {"other"}]
Frame == [kind : FrameKind, text : Text]
Frames == [rates : Nat, content : BOOLEAN, complete : BOOLEAN, done : Text \cup {None},
           delta : Seq(Text)]
Attempt == [request : Message \cup {None}, counted : SUBSET Nat, texts : SUBSET Text,
            complete : BOOLEAN]

RelayTyped ==
    /\ said \in Nat
    /\ answer \in [of : Nat, stage : {"idle", "asked", "open", "delta", "done"},
                   items : Nat, notes : Nat]
    /\ acc \in Frames /\ counted \in SUBSET Nat
    /\ initial \in Message \cup {None} /\ latest \in Message \cup {None}
    /\ attempts \in Seq(Attempt)
    /\ completed \in SUBSET Text
    /\ fromClient # << >> => \E m \in Message : fromClient = << m >>
    /\ fromUpstream # << >> => \E f \in Frame : fromUpstream = << f >>

\* A request that was not read yet is the last message, and no answer is open.
Waiting ==
    /\ answer.of <= said
    /\ fromClient # << >> =>
        /\ Head(fromClient).id = said
        /\ Head(fromClient).kind \in Request =>
            /\ answer.of < said /\ answer.stage = "idle"
            /\ fromUpstream # << >> => Head(fromUpstream).kind = "rate_limits"

\* A message that was read and is not the one under way.
Heard(id) == id <= said /\ (fromClient # << >> => id # said)

CountedOnce ==
    /\ \A id \in counted : Heard(id)
    /\ \A i \in 1 .. Len(attempts) : \A id \in attempts[i].counted :
        /\ Heard(id) /\ id \notin counted
        /\ \A j \in 1 .. Len(attempts) : id \in attempts[j].counted => j = i

Recorded(text) == \E i \in 1 .. Len(attempts) : text \in attempts[i].texts

CompletedOnce ==
    \A text \in completed :
        \E i \in 1 .. Len(attempts) :
            /\ text \in attempts[i].texts /\ attempts[i].complete = TRUE
            /\ \A j \in 1 .. Len(attempts) : text \in attempts[j].texts => j = i

\* Texts come in the order of the requests and of the items of an answer.
Below(x, y) == x[1] < y[1] \/ (x[1] = y[1] /\ x[2] < y[2])

Present == << answer.of, answer.items >>

\* The accumulator has the text.
Gathered(a, text) == a.done = text \/ \E i \in 1 .. Len(a.delta) : a.delta[i] = text

\* The frame under way: that of a finished item has the text that is gathered.
UnderWay(f) ==
    /\ f.kind \in {"delta", "done"} => f.text = Present /\ answer.stage = f.kind
    /\ f.kind \in {"completed", "incomplete"} => f.text = acc.done /\ answer.stage = "open"
    /\ f.kind = "tool" => answer.stage = "open"
    /\ f.kind = "unknown" => answer.stage = "idle"
    /\ f.kind = "rate_limits" => answer.stage \in {"idle", "asked"}

Listening ==
    /\ acc.complete = FALSE
    /\ \A text \in Text : Recorded(text) => Below(text, Present) /\ ~Gathered(acc, text)
    /\ \A text \in Text : Gathered(acc, text) =>
        Below(text, Present) \/ (text = Present /\ answer.stage \in {"delta", "done"})
    /\ fromUpstream # << >> => UnderWay(Head(fromUpstream))
    /\ answer.stage = "done" /\ fromUpstream = << >> => acc.done = Present

\* No more than a last turn is written.
Closed == relaying \in {"last write", "last total", "ended"}

AnswersInv ==
    /\ RelayTyped /\ Waiting /\ CountedOnce
    /\ codex => CompletedOnce /\ (~Closed => Listening)

\* The relay has not begun before the upgrade.
Fresh == task \notin {"relay", "done"} => relaying = "off"

\* The texts of a turn are those that are gathered.
LEMMA TextsGathered ==
    ASSUME NEW a \in Frames
    PROVE  /\ Texts(a) \in SUBSET Text
           /\ \A text \in Texts(a) : Gathered(a, text)
           /\ \A text \in Text : a.done = text => Texts(a) = {text}
<1>1. None \notin Text
  BY DEF Text
<1>2. a.done \in Text \cup {None} /\ a.delta \in Seq(Text)
  BY DEF Frames
<1>3. DOMAIN a.delta = 1 .. Len(a.delta) /\ \A i \in 1 .. Len(a.delta) : a.delta[i] \in Text
  BY <1>2
<1>4. QED
  BY <1>1, <1>2, <1>3 DEF Texts, Gathered

\* What feed adds to what is gathered, and when it ends a turn.
LEMMA FeedGathers ==
    ASSUME NEW a \in Frames, a.complete = FALSE, NEW f \in Frame
    PROVE  /\ Feed(a, f) \in Frames
           /\ \A text \in Text : Gathered(Feed(a, f), text) =>
                \/ Gathered(a, text)
                \/ f.kind \in {"delta", "done", "completed", "incomplete"} /\ text = f.text
           /\ f.kind = "done" => Feed(a, f).done = f.text
           /\ a.done = f.text /\ f.kind = "completed" => Feed(a, f).done = f.text
           /\ f.kind = "completed" => Feed(a, f).complete = TRUE
           /\ Feed(a, f).complete => f.kind \in {"completed", "rate_limits"}
           /\ Feed(a, f).complete \in BOOLEAN
<1>1. /\ a.rates \in Nat /\ a.content \in BOOLEAN /\ a.complete = FALSE
      /\ a.done \in Text \cup {None} /\ a.delta \in Seq(Text)
      /\ f.kind \in FrameKind /\ f.text \in Text
  BY DEF Frames, Frame
<1>2. CASE f.kind = "rate_limits"
  <2>1. PICK b \in BOOLEAN : b = (a.complete \/ (a.rates > 0 /\ a.content))
    BY Zenon
  <2>2. Feed(a, f) = [a EXCEPT !.rates = 1, !.content = FALSE, !.complete = b]
    BY <1>2, <2>1 DEF Feed
  <2>3. /\ Feed(a, f) \in Frames /\ Feed(a, f).done = a.done /\ Feed(a, f).delta = a.delta
        /\ Feed(a, f).complete = b
    <3>1. 1 \in Nat /\ FALSE \in BOOLEAN /\ b \in BOOLEAN
      BY <2>1
    <3>2. [a EXCEPT !.rates = 1, !.content = FALSE, !.complete = b] \in Frames
      BY <3>1 DEF Frames
    <3>3. QED
      BY <2>2, <3>2 DEF Frames
  <2>4. QED
    BY <1>2, <2>1, <2>3 DEF Gathered
<1>3. CASE f.kind = "delta"
  <2>1. PICK d : d = IF Len(a.delta) < MaxText THEN Append(a.delta, f.text) ELSE a.delta
    OBVIOUS
  <2>2. Feed(a, f) = [a EXCEPT !.content = TRUE, !.delta = d]
    BY <1>3, <2>1 DEF Feed
  <2>3. /\ d \in Seq(Text)
        /\ \A i \in 1 .. Len(d) : d[i] = f.text \/ \E j \in 1 .. Len(a.delta) : a.delta[j] = d[i]
    <3>1. CASE d = a.delta
      BY <1>1, <3>1
    <3>2. CASE d = Append(a.delta, f.text)
      <4>1. d \in Seq(Text) /\ Len(d) = Len(a.delta) + 1 /\ Len(a.delta) \in Nat
        BY <1>1, <3>2
      <4>2. /\ d[Len(a.delta) + 1] = f.text
            /\ \A j \in 1 .. Len(a.delta) : d[j] = a.delta[j]
        BY <1>1, <3>2
      <4>3. ASSUME NEW n \in Nat
            PROVE  \A i \in 1 .. n + 1 : i \in 1 .. n \/ i = n + 1
        OBVIOUS
      <4>4. \A i \in 1 .. Len(d) : i \in 1 .. Len(a.delta) \/ i = Len(a.delta) + 1
        BY <4>1, <4>3
      <4>5. QED
        BY <4>1, <4>2, <4>4
    <3>3. QED
      BY <2>1, <3>1, <3>2
  <2>4. /\ Feed(a, f) \in Frames /\ Feed(a, f).done = a.done /\ Feed(a, f).delta = d
        /\ Feed(a, f).complete = FALSE
    BY <1>1, <2>2, <2>3 DEF Frames
  <2>5. QED
    BY <1>3, <2>3, <2>4 DEF Gathered
<1>4. CASE f.kind = "done"
  <2>1. Feed(a, f) = [a EXCEPT !.content = TRUE, !.done = f.text]
    BY <1>4 DEF Feed
  <2>2. /\ Feed(a, f) \in Frames /\ Feed(a, f).done = f.text /\ Feed(a, f).delta = a.delta
        /\ Feed(a, f).complete = FALSE
    BY <1>1, <2>1 DEF Frames
  <2>3. QED
    BY <1>4, <2>2 DEF Gathered
<1>5. CASE f.kind \in {"completed", "incomplete"}
  <2>1. PICK b \in BOOLEAN : b = (a.complete \/ f.kind = "completed")
    BY Zenon
  <2>2. PICK d : d = IF a.done = None THEN f.text ELSE a.done
    OBVIOUS
  <2>3. Feed(a, f) = [a EXCEPT !.content = TRUE, !.done = d, !.complete = b]
    BY <1>5, <2>1, <2>2 DEF Feed
  <2>4. d \in Text /\ (b <=> f.kind = "completed")
    BY <1>1, <2>1, <2>2
  <2>5. /\ Feed(a, f) \in Frames /\ Feed(a, f).done = d /\ Feed(a, f).delta = a.delta
        /\ Feed(a, f).complete = b
    BY <1>1, <2>3, <2>4 DEF Frames
  <2>6. QED
    BY <1>5, <2>2, <2>4, <2>5 DEF Gathered
<1>6. CASE f.kind = "tool"
  <2>1. Feed(a, f) = [a EXCEPT !.content = TRUE]
    BY <1>6 DEF Feed
  <2>2. /\ Feed(a, f) \in Frames /\ Feed(a, f).done = a.done /\ Feed(a, f).delta = a.delta
        /\ Feed(a, f).complete = FALSE
    BY <1>1, <2>1 DEF Frames
  <2>3. QED
    BY <1>6, <2>2 DEF Gathered
<1>7. CASE f.kind = "unknown"
  <2>1. Feed(a, f) = a
    BY <1>7 DEF Feed
  <2>2. QED
    BY <1>7, <2>1
<1>8. QED
  BY <1>1, <1>2, <1>3, <1>4, <1>5, <1>6, <1>7 DEF FrameKind

\* No text that is recorded is gathered again, by the frame that is read.
LEMMA NothingGatheredTwice ==
    ASSUME AnswersInv, codex, relaying = "select", NEW f \in Frame, fromUpstream = << f >>
    PROVE  /\ \A text \in Text : Recorded(text) => ~Gathered(Feed(acc, f), text)
           /\ \A text \in Text : Gathered(Feed(acc, f), text) =>
                \/ Below(text, Present)
                \/ text = Present /\ answer.stage \in {"delta", "done"}
           /\ f.kind = "completed" => Feed(acc, f).done = f.text
<1>1. Listening /\ acc \in Frames /\ acc.complete = FALSE
  BY DEF AnswersInv, Closed, Listening, RelayTyped
<1>2. /\ \A text \in Text : Recorded(text) => Below(text, Present) /\ ~Gathered(acc, text)
      /\ \A text \in Text : Gathered(acc, text) =>
            Below(text, Present) \/ (text = Present /\ answer.stage \in {"delta", "done"})
  BY <1>1 DEF Listening
<1>3. UnderWay(f)
  BY <1>1 DEF Listening
<1>4. f.text \in Text /\ answer.of \in Nat /\ answer.items \in Nat
  BY DEF Frame, AnswersInv, RelayTyped
<1>5. ~Below(Present, Present)
  BY <1>4 DEF Below, Present
<1>6. f.kind \in {"completed", "incomplete"} => Gathered(acc, f.text) /\ f.text = acc.done
  BY <1>3 DEF UnderWay, Gathered
<1>7. f.kind \in {"delta", "done"} => f.text = Present /\ answer.stage = f.kind
  BY <1>3 DEF UnderWay
<1>8. \A text \in Text : Gathered(Feed(acc, f), text) =>
        \/ Gathered(acc, text)
        \/ f.kind \in {"delta", "done", "completed", "incomplete"} /\ text = f.text
  BY <1>1, FeedGathers
<1>9. \A text \in Text : Gathered(Feed(acc, f), text) =>
        Gathered(acc, text) \/ (text = Present /\ answer.stage \in {"delta", "done"})
  BY <1>6, <1>7, <1>8
<1>10. f.kind = "completed" => Feed(acc, f).done = f.text
  BY <1>1, <1>6, FeedGathers
<1>11. QED
  BY <1>2, <1>5, <1>9, <1>10

\* A turn that is given to the store has the messages and the texts that no
\* turn before it has.
LEMMA TurnGiven ==
    ASSUME AnswersInv, NEW r \in Attempt, r.counted = counted, attempts' = Append(attempts, r),
           UNCHANGED << said, fromClient >>, counted' = {}
    PROVE  /\ attempts' \in Seq(Attempt)
           /\ CountedOnce'
           /\ \A text \in Text : Recorded(text)' => Recorded(text) \/ text \in r.texts
           /\ CompletedOnce /\ (\A text \in Text : Recorded(text) => text \notin r.texts) =>
                \A done \in SUBSET Text :
                    /\ completed' = completed \cup done
                    /\ done \subseteq r.texts
                    /\ r.complete = TRUE \/ done = {}
                    => CompletedOnce'
<1> DEFINE n == Len(attempts)
<1>1. attempts \in Seq(Attempt) /\ CountedOnce /\ completed \in SUBSET Text
  BY DEF AnswersInv, RelayTyped
<1>2. /\ attempts' \in Seq(Attempt) /\ Len(attempts') = n + 1 /\ n \in Nat
      /\ \A i \in 1 .. n : attempts'[i] = attempts[i]
      /\ attempts'[n + 1] = r
  BY <1>1
<1>3. \A i \in 1 .. Len(attempts') : i \in 1 .. n \/ i = n + 1
  BY <1>2
<1>4. \A i \in 1 .. n : i \in 1 .. Len(attempts') /\ i # n + 1
  BY <1>2
<1>5. n + 1 \in 1 .. Len(attempts')
  BY <1>2
<1>6. \A id : Heard(id)' <=> Heard(id)
  BY DEF Heard
<1> HIDE DEF n
<1>7. CountedOnce'
  <2>1. ASSUME NEW i \in 1 .. Len(attempts'), NEW id \in attempts'[i].counted
        PROVE  /\ Heard(id)
               /\ \A j \in 1 .. Len(attempts') : id \in attempts'[j].counted => j = i
    BY <1>1, <1>2, <1>3, <1>4, <2>1 DEF CountedOnce, n
  <2>2. QED
    BY <1>6, <2>1 DEF CountedOnce
<1>8. \A text \in Text : Recorded(text)' => Recorded(text) \/ text \in r.texts
  BY <1>2, <1>3 DEF Recorded, n
<1>9. ASSUME CompletedOnce, \A text \in Text : Recorded(text) => text \notin r.texts,
             NEW done \in SUBSET Text, completed' = completed \cup done,
             done \subseteq r.texts, r.complete = TRUE \/ done = {}
      PROVE  CompletedOnce'
  <2>1. ASSUME NEW text \in completed
        PROVE  \E i \in 1 .. Len(attempts') :
                /\ text \in attempts'[i].texts /\ attempts'[i].complete = TRUE
                /\ \A j \in 1 .. Len(attempts') : text \in attempts'[j].texts => j = i
    <3>1. PICK i \in 1 .. n :
            /\ text \in attempts[i].texts /\ attempts[i].complete = TRUE
            /\ \A j \in 1 .. n : text \in attempts[j].texts => j = i
      BY <1>9, <2>1 DEF CompletedOnce, n
    <3>2. text \notin r.texts
      BY <1>1, <1>9, <2>1, <3>1 DEF Recorded, n
    <3>3. i \in 1 .. Len(attempts') /\ attempts'[i] = attempts[i]
      BY <1>2, <1>4
    <3>4. ASSUME NEW j \in 1 .. Len(attempts'), text \in attempts'[j].texts
          PROVE  j = i
      <4>1. j # n + 1
        BY <1>2, <3>2, <3>4
      <4>2. j \in 1 .. n /\ attempts'[j] = attempts[j]
        BY <1>2, <1>3, <4>1
      <4>3. QED
        BY <3>1, <3>4, <4>2
    <3>5. QED
      BY <3>1, <3>3, <3>4
  <2>2. ASSUME NEW text \in done
        PROVE  \E i \in 1 .. Len(attempts') :
                /\ text \in attempts'[i].texts /\ attempts'[i].complete = TRUE
                /\ \A j \in 1 .. Len(attempts') : text \in attempts'[j].texts => j = i
    <3>1. \A j \in 1 .. n : text \notin attempts[j].texts
      BY <1>9, <2>2 DEF Recorded, n
    <3>2. r.complete = TRUE /\ text \in r.texts
      BY <1>9, <2>2
    <3>3. ASSUME NEW j \in 1 .. Len(attempts'), text \in attempts'[j].texts
          PROVE  j = n + 1
      <4>1. ASSUME j \in 1 .. n PROVE FALSE
        BY <1>2, <3>1, <3>3, <4>1
      <4>2. QED
        BY <1>3, <4>1
    <3>4. PICK i \in 1 .. Len(attempts') : i = n + 1
      BY <1>5
    <3>5. attempts'[i] = r
      BY <1>2, <3>4
    <3>6. QED
      BY <3>2, <3>3, <3>4, <3>5
  <2>3. QED
    BY <1>9, <2>1, <2>2 DEF CompletedOnce
<1>10. QED
  BY <1>2, <1>7, <1>8, <1>9

\* The turn of what is gathered.
LEMMA TurnTyped ==
    ASSUME RelayTyped, NEW a \in Frames
    PROVE  /\ Turn(a) \in Attempt /\ PartialTurn(a) \in Attempt
           /\ Turn(a).counted = counted /\ PartialTurn(a).counted = counted
           /\ Turn(a).texts = Texts(a) /\ PartialTurn(a).texts = Texts(a)
           /\ Turn(a).complete = TRUE
<1>1. TurnRequest \in Message \cup {None}
  BY DEF TurnRequest, RelayTyped
<1>2. Texts(a) \in SUBSET Text /\ counted \in SUBSET Nat
  BY TextsGathered DEF RelayTyped
<1>3. QED
  BY <1>1, <1>2 DEF Turn, PartialTurn, Attempt

\* The accumulator begins empty.
LEMMA NothingGathered ==
    /\ NoFrames \in Frames /\ NoFrames.complete = FALSE
    /\ \A text \in Text : ~Gathered(NoFrames, text)
<1>1. None \notin Text
  BY DEF Text
<1>2. NoFrames \in Frames /\ NoFrames.complete = FALSE /\ NoFrames.done = None
      /\ Len(NoFrames.delta) = 0
  BY DEF NoFrames, Frames
<1>3. QED
  BY <1>1, <1>2 DEF Gathered

\* A frame of the upstream, as it answers.
LEMMA SendAnswers ==
    ASSUME AnswersInv, NEW kind \in FrameKind, NEW stage, NEW items, NEW notes,
           stage \in {"idle", "asked", "open", "delta", "done"}, items \in Nat, notes \in Nat,
           Send(kind, [of |-> answer.of, stage |-> stage, items |-> items, notes |-> notes]),
           \/ kind = "rate_limits" /\ answer.stage \in {"idle", "asked"} /\ stage = answer.stage
           \/ kind = "tool" /\ answer.stage \in {"asked", "open"} /\ stage = "open"
           \/ kind = "delta" /\ answer.stage \in {"asked", "open", "delta"} /\ stage = "delta"
           \/ kind = "done" /\ answer.stage = "delta" /\ stage = "done"
           \/ kind \in {"completed", "incomplete"} /\ answer.stage = "done" /\ stage = "open"
           \/ kind = "unknown" /\ answer.stage \in {"asked", "open"} /\ stage = "idle",
           items = IF answer.stage = "done" THEN answer.items + 1 ELSE answer.items
    PROVE  AnswersInv'
<1>0. PICK f : f = [kind |-> kind, text |-> << answer.of, answer.items >>]
  OBVIOUS
<1>1. /\ fromUpstream = << >> /\ fromUpstream' = << f >>
      /\ answer' = [of |-> answer.of, stage |-> stage, items |-> items, notes |-> notes]
      /\ UNCHANGED << codex, relaying, said, fromClient, acc, counted, initial, latest,
                      attempts, completed >>
  BY <1>0 DEF Send, gathered
<1>2. RelayTyped /\ answer.of \in Nat /\ answer.items \in Nat
  BY DEF AnswersInv, RelayTyped
<1>3. f \in Frame /\ f.kind = kind /\ f.text = Present
  BY <1>0, <1>2 DEF Frame, Text, Present
<1>4. /\ answer'.of = answer.of /\ answer'.stage = stage /\ answer'.items = items
      /\ Head(fromUpstream') = f
  BY <1>1
<1>5. RelayTyped'
  BY <1>1, <1>2, <1>3 DEF RelayTyped
<1>6. Waiting'
  BY <1>1, <1>3, <1>4 DEF AnswersInv, Waiting
<1>7. CountedOnce'
  <2>1. CountedOnce
    BY DEF AnswersInv
  <2>2. \A id : Heard(id)' <=> Heard(id)
    BY <1>1 DEF Heard
  <2>3. QED
    BY <1>1, <2>1, <2>2 DEF CountedOnce
<1>8. ASSUME codex, CompletedOnce PROVE CompletedOnce'
  BY <1>1, <1>8 DEF CompletedOnce
<1>9. ASSUME Listening PROVE Listening'
  <2>1. Present' = << answer.of, items >> /\ Present = << answer.of, answer.items >>
    BY <1>4 DEF Present
  <2>2. \A text \in Text : Below(text, Present) => Below(text, Present')
    BY <1>2, <2>1 DEF Below, Text
  <2>3. answer.stage = "done" => Below(Present, Present')
    BY <1>2, <2>1 DEF Below
  <2>4. answer.stage # "done" => Present' = Present
    BY <2>1
  <2>5. answer.stage = "delta" => stage \in {"delta", "done"}
    OBVIOUS
  <2>6. \A text \in Text : Recorded(text)' => Below(text, Present') /\ ~Gathered(acc', text)
    BY <1>1, <1>9, <2>2 DEF Listening, Recorded
  <2>7. \A text \in Text : Gathered(acc', text) =>
            Below(text, Present') \/ (text = Present' /\ answer'.stage \in {"delta", "done"})
    BY <1>1, <1>4, <1>9, <2>2, <2>3, <2>4, <2>5 DEF Listening
  <2>8. UnderWay(f)'
    <3>1. answer.stage = "done" => acc.done = Present
      BY <1>1, <1>9 DEF Listening
    <3>2. QED
      BY <1>1, <1>3, <1>4, <2>4, <3>1 DEF UnderWay
  <2>9. UnderWay(Head(fromUpstream))'
    BY <1>4, <2>8
  <2>10. acc'.complete = FALSE /\ fromUpstream' # << >>
    BY <1>1, <1>9 DEF Listening
  <2>11. QED
    BY <2>6, <2>7, <2>9, <2>10 DEF Listening
<1>10. Closed' <=> Closed
  BY <1>1 DEF Closed
<1>11. QED
  BY <1>1, <1>5, <1>6, <1>7, <1>8, <1>9, <1>10 DEF AnswersInv

\* The upstream answers.
LEMMA AnswerStep ==
    ASSUME AnswersInv, Answer
    PROVE  AnswersInv'
<1>1. /\ answer \in [of : Nat, stage : {"idle", "asked", "open", "delta", "done"},
                     items : Nat, notes : Nat]
      /\ answer = [of |-> answer.of, stage |-> answer.stage, items |-> answer.items,
                   notes |-> answer.notes]
  BY DEF AnswersInv, RelayTyped
<1>2. /\ [answer EXCEPT !.stage = "delta"] =
            [of |-> answer.of, stage |-> "delta", items |-> answer.items, notes |-> answer.notes]
      /\ [answer EXCEPT !.stage = "done"] =
            [of |-> answer.of, stage |-> "done", items |-> answer.items, notes |-> answer.notes]
      /\ [answer EXCEPT !.stage = "idle"] =
            [of |-> answer.of, stage |-> "idle", items |-> answer.items, notes |-> answer.notes]
  BY <1>1
<1>3. Note = [of |-> answer.of, stage |-> answer.stage, items |-> answer.items,
              notes |-> answer.notes + 1]
  BY <1>1 DEF Note
<1>4. [Note EXCEPT !.stage = "open"] =
        [of |-> answer.of, stage |-> "open", items |-> answer.items, notes |-> answer.notes + 1]
  BY <1>3
<1>5. [answer EXCEPT !.stage = "open", !.items = @ + 1] =
        [of |-> answer.of, stage |-> "open", items |-> answer.items + 1, notes |-> answer.notes]
  <2>1. PICK n \in Nat : n = answer.items + 1
    BY <1>1
  <2>2. [answer EXCEPT !.stage = "open", !.items = n] =
            [of |-> answer.of, stage |-> "open", items |-> n, notes |-> answer.notes]
    <3>1. PICK e : e = [answer EXCEPT !.stage = "open", !.items = n]
      OBVIOUS
    <3>2. e \in [of : Nat, stage : {"idle", "asked", "open", "delta", "done"},
                 items : Nat, notes : Nat]
      BY <1>1, <3>1
    <3>3. e.of = answer.of /\ e.stage = "open" /\ e.items = n /\ e.notes = answer.notes
      BY <1>1, <3>1
    <3>4. QED
      BY <3>1, <3>2, <3>3
  <2>3. QED
    BY <2>1, <2>2
<1>6. answer.notes + 1 \in Nat /\ answer.notes \in Nat /\ answer.items + 1 \in Nat
      /\ answer.items \in Nat
  BY <1>1
<1>7. CASE answer.stage \in {"idle", "asked"} /\ Send("rate_limits", Note)
  BY <1>1, <1>3, <1>6, <1>7, SendAnswers DEF FrameKind
<1>8. CASE answer.stage \in {"asked", "open"} /\ Send("tool", [Note EXCEPT !.stage = "open"])
  BY <1>4, <1>6, <1>8, SendAnswers DEF FrameKind
<1>9. CASE answer.stage \in {"asked", "open"} /\ Send("delta", [answer EXCEPT !.stage = "delta"])
  BY <1>2, <1>6, <1>9, SendAnswers DEF FrameKind
<1>10. CASE answer.stage = "delta" /\ Send("delta", Note)
  BY <1>3, <1>6, <1>10, SendAnswers DEF FrameKind
<1>11. CASE answer.stage = "delta" /\ Send("done", [answer EXCEPT !.stage = "done"])
  BY <1>2, <1>6, <1>11, SendAnswers DEF FrameKind
<1>12. ASSUME answer.stage = "done", NEW kind \in {"completed", "incomplete"},
              Send(kind, [answer EXCEPT !.stage = "open", !.items = @ + 1])
       PROVE  AnswersInv'
  BY <1>5, <1>6, <1>12, SendAnswers DEF FrameKind
<1>13. CASE answer.stage \in {"asked", "open"} /\ Send("unknown", [answer EXCEPT !.stage = "idle"])
  BY <1>2, <1>6, <1>13, SendAnswers DEF FrameKind
<1>14. QED
  BY <1>7, <1>8, <1>9, <1>10, <1>11, <1>12, <1>13 DEF Answer

\* The client sends a message.
LEMMA SayAnswers ==
    ASSUME AnswersInv, NEW kind \in Request \cup {"other"}, Say(kind)
    PROVE  AnswersInv'
<1>1. PICK m : m = [id |-> said + 1, kind |-> kind]
  OBVIOUS
<1>2. /\ fromClient = << >> /\ fromClient' = << m >> /\ said' = said + 1
      /\ kind \in Request => answer.stage = "idle" /\ fromUpstream = << >>
      /\ UNCHANGED << codex, relaying, answer, fromUpstream, acc, counted, initial, latest,
                      attempts, completed >>
  BY <1>1 DEF Say, gathered
<1>3. RelayTyped /\ said \in Nat /\ answer.of \in Nat /\ answer.of <= said
  BY DEF AnswersInv, RelayTyped, Waiting
<1>4. m \in Message /\ m.id = said' /\ m.kind = kind /\ Head(fromClient') = m
  BY <1>1, <1>2, <1>3 DEF Message
<1>5. RelayTyped'
  <2>1. said' \in Nat /\ \E q \in Message : fromClient' = << q >>
    BY <1>2, <1>3, <1>4
  <2>2. /\ answer' = answer /\ acc' = acc /\ counted' = counted /\ initial' = initial
        /\ latest' = latest /\ attempts' = attempts /\ completed' = completed
        /\ fromUpstream' = fromUpstream
    BY <1>2
  <2>3. RelayTyped
    BY <1>3
  <2>4. QED
    BY <2>1, <2>2, <2>3, Zenon DEF RelayTyped
<1>6. Waiting'
  BY <1>2, <1>3, <1>4 DEF Waiting
<1>7. CountedOnce'
  <2>1. CountedOnce /\ attempts \in Seq(Attempt) /\ counted \in SUBSET Nat
    BY <1>3 DEF AnswersInv, RelayTyped
  <2>2. \A id \in Nat : Heard(id) => Heard(id)'
    BY <1>2, <1>3 DEF Heard
  <2>3. ASSUME NEW i \in 1 .. Len(attempts) PROVE attempts[i].counted \subseteq Nat
    <3>1. attempts[i] \in Attempt
      BY <2>1
    <3>2. QED
      BY <3>1 DEF Attempt
  <2>4. attempts' = attempts /\ counted' = counted
    BY <1>2
  <2>5. ASSUME NEW id \in counted PROVE Heard(id)'
    <3>1. Heard(id) /\ id \in Nat
      BY <2>1 DEF CountedOnce
    <3>2. QED
      BY <2>2, <3>1
  <2>6. ASSUME NEW i \in 1 .. Len(attempts), NEW id \in attempts[i].counted
        PROVE  /\ Heard(id)' /\ id \notin counted
               /\ \A j \in 1 .. Len(attempts) : id \in attempts[j].counted => j = i
    <3>1. /\ Heard(id) /\ id \notin counted
          /\ \A j \in 1 .. Len(attempts) : id \in attempts[j].counted => j = i
      BY <2>1 DEF CountedOnce
    <3>2. id \in Nat
      BY <2>3
    <3>3. QED
      BY <2>2, <3>1, <3>2
  <2>7. QED
    BY <2>4, <2>5, <2>6, Zenon DEF CountedOnce
<1>8. CompletedOnce => CompletedOnce'
  BY <1>2 DEF CompletedOnce
<1>9. Listening => Listening'
  BY <1>2 DEF Listening, Recorded, Gathered, Below, Present, UnderWay
<1>10. Closed' <=> Closed
  BY <1>2 DEF Closed
<1>11. QED
  BY <1>2, <1>5, <1>6, <1>7, <1>8, <1>9, <1>10 DEF AnswersInv

\* The relay reads a message of the client.
LEMMA ReadClientAnswers ==
    ASSUME AnswersInv, ReadClient
    PROVE  AnswersInv'
<1>1. RelayTyped /\ said \in Nat /\ counted \in SUBSET Nat /\ answer.of \in Nat
      /\ answer.items \in Nat
  BY DEF AnswersInv, RelayTyped
<1>2. PICK m \in Message : fromClient = << m >>
  BY <1>1 DEF ReadClient, RelayTyped
<1>3. /\ fromClient' = << >> /\ Head(fromClient) = m /\ fromClient # << >>
      /\ UNCHANGED << codex, said, fromUpstream, completed >>
      /\ relaying = "select" /\ relaying' \in {"select", "write"}
      /\ UNCHANGED << acc, attempts >>
      /\ answer' = IF m.kind \in Request THEN [Idle EXCEPT !.of = m.id, !.stage = "asked"]
                   ELSE answer
      /\ counted' = IF codex THEN counted \cup {m.id} ELSE counted
  BY <1>2 DEF ReadClient, RecordMessage, gathered
<1>4. initial' \in {m, initial} /\ latest' \in {m, latest}
  BY <1>3 DEF ReadClient, RecordMessage, gathered
<1>5. /\ m.id = said /\ m.id \in Nat
      /\ m.kind \in Request =>
            /\ answer.of < said /\ answer.stage = "idle"
            /\ fromUpstream # << >> => Head(fromUpstream).kind = "rate_limits"
      /\ answer.of <= said
  BY <1>3 DEF AnswersInv, Waiting, Message
<1>6. m.kind \in Request =>
        /\ answer' = [of |-> said, stage |-> "asked", items |-> 0, notes |-> 0]
  BY <1>3, <1>5 DEF Idle
<1>7. RelayTyped'
  <2>1. answer' \in [of : Nat, stage : {"idle", "asked", "open", "delta", "done"},
                     items : Nat, notes : Nat]
    <3>1. CASE m.kind \in Request
      BY <1>1, <1>6, <3>1
    <3>2. CASE m.kind \notin Request
      BY <1>1, <1>3, <3>2 DEF RelayTyped
    <3>3. QED
      BY <3>1, <3>2
  <2>2. counted' \in SUBSET Nat
    BY <1>1, <1>3, <1>5
  <2>3. initial' \in Message \cup {None} /\ latest' \in Message \cup {None}
    BY <1>1, <1>4 DEF RelayTyped
  <2>4. QED
    BY <1>1, <1>3, <2>1, <2>2, <2>3 DEF RelayTyped
<1>8. Waiting'
  BY <1>1, <1>3, <1>5, <1>6 DEF Waiting
<1>9. CountedOnce'
  <2>1. CountedOnce
    BY DEF AnswersInv
  <2>2. \A id : Heard(id) => id # said /\ Heard(id)'
    BY <1>3 DEF Heard
  <2>3. Heard(said)'
    BY <1>1, <1>3 DEF Heard
  <2>4. counted' \in {counted, counted \cup {said}}
    BY <1>3, <1>5
  <2>5. QED
    BY <1>3, <2>1, <2>2, <2>3, <2>4 DEF CountedOnce
<1>10. CompletedOnce => CompletedOnce'
  BY <1>3 DEF CompletedOnce
<1>11. ASSUME codex, Listening PROVE Listening'
  <2>1. CASE m.kind \notin Request
    BY <1>3, <1>11, <2>1 DEF Listening, Recorded, Gathered, Below, Present, UnderWay
  <2>2. CASE m.kind \in Request
    <3>1. /\ Present' = << said, 0 >> /\ Present = << answer.of, answer.items >>
          /\ answer'.stage = "asked"
      BY <1>6, <2>2 DEF Present
    <3>2. answer.of < said /\ answer.stage = "idle"
      BY <1>5, <2>2
    <3>3. \A text \in Text : Below(text, Present) => Below(text, Present')
      BY <1>1, <3>1, <3>2 DEF Below, Text
    <3>4. \A text \in Text : Recorded(text)' => Below(text, Present') /\ ~Gathered(acc', text)
      BY <1>3, <1>11, <3>3 DEF Listening, Recorded
    <3>5. \A text \in Text : Gathered(acc', text) => Below(text, Present')
      BY <1>3, <1>11, <3>2, <3>3 DEF Listening
    <3>6. fromUpstream' # << >> => UnderWay(Head(fromUpstream))'
      BY <1>3, <1>5, <2>2, <3>1 DEF UnderWay
    <3>7. acc'.complete = FALSE
      BY <1>3, <1>11 DEF Listening
    <3>8. QED
      BY <3>1, <3>4, <3>5, <3>6, <3>7 DEF Listening
  <2>3. QED
    BY <2>1, <2>2
<1>12. Closed' <=> Closed
  BY <1>3 DEF Closed
<1>13. QED
  BY <1>3, <1>7, <1>8, <1>9, <1>10, <1>11, <1>12 DEF AnswersInv

\* The relay reads a frame of the upstream, which may end a turn.
LEMMA ReadUpstreamAnswers ==
    ASSUME AnswersInv, ReadUpstream
    PROVE  AnswersInv'
<1>1. RelayTyped
  BY DEF AnswersInv
<1>2. PICK f \in Frame : fromUpstream = << f >>
  BY <1>1 DEF ReadUpstream, RelayTyped
<1>3. /\ fromUpstream' = << >> /\ fromUpstream # << >> /\ Head(fromUpstream) = f
      /\ UNCHANGED << codex, said, fromClient, answer >>
      /\ relaying = "select" /\ relaying' \in {"select", "write"}
      /\ completed' = IF f.kind = "completed" THEN completed \cup {f.text} ELSE completed
  BY <1>2 DEF ReadUpstream, RecordMessage, Record
<1>4. ~Closed /\ ~Closed'
  BY <1>3 DEF Closed
<1>5. /\ f.kind \in FrameKind /\ f.text \in Text /\ completed' \in SUBSET Text
      /\ acc \in Frames
  BY <1>1, <1>3 DEF Frame, RelayTyped
<1>6. Waiting'
  BY <1>3 DEF AnswersInv, Waiting
<1>7. ASSUME UNCHANGED << attempts, counted >>
      PROVE  CountedOnce'
  BY <1>3, <1>7 DEF AnswersInv, CountedOnce, Heard
<1>8. CASE ~codex
  <2>1. UNCHANGED << acc, counted, initial, latest, attempts >>
    BY <1>8 DEF ReadUpstream, RecordMessage, gathered
  <2>2. RelayTyped'
    BY <1>1, <1>3, <1>5, <2>1 DEF RelayTyped
  <2>3. QED
    BY <1>3, <1>6, <1>7, <1>8, <2>1, <2>2 DEF AnswersInv
<1>9. CASE codex
  <2> DEFINE g == Feed(acc, f)
  <2>1. Listening /\ CompletedOnce
    BY <1>4, <1>9 DEF AnswersInv
  <2>2. /\ acc.complete = FALSE /\ UnderWay(f)
        /\ \A text \in Text : Recorded(text) => Below(text, Present)
    BY <1>3, <2>1 DEF Listening
  <2>3. /\ g \in Frames /\ g.complete \in BOOLEAN
        /\ g.complete => f.kind \in {"completed", "rate_limits"}
        /\ f.kind = "completed" => g.complete
        /\ f.kind = "done" => g.done = f.text
    BY <1>5, <2>2, FeedGathers
  <2>4. /\ \A text \in Text : Recorded(text) => ~Gathered(g, text)
        /\ \A text \in Text : Gathered(g, text) =>
                Below(text, Present) \/ (text = Present /\ answer.stage \in {"delta", "done"})
        /\ f.kind = "completed" => g.done = f.text
    BY <1>2, <1>3, <1>9, NothingGatheredTwice
  <2>5. Present' = Present
    BY <1>3 DEF Present
  <2>6. CASE g.complete
    <3>1. /\ attempts' = Append(attempts, Turn(g)) /\ relaying' = "write"
          /\ acc' = NoFrames /\ counted' = {} /\ latest' = None /\ initial' = initial
      BY <1>3, <1>9, <2>6, Zenon DEF ReadUpstream, Record, Forget
    <3>2. /\ Turn(g) \in Attempt /\ Turn(g).counted = counted /\ Turn(g).texts = Texts(g)
          /\ Turn(g).complete = TRUE
      BY <1>1, <2>3, TurnTyped
    <3>3. /\ Texts(g) \in SUBSET Text
          /\ \A text \in Texts(g) : Gathered(g, text)
          /\ f.kind = "completed" => Texts(g) = {f.text}
      BY <1>5, <2>3, <2>4, TextsGathered
    <3>4. \A text \in Text : Recorded(text) => text \notin Texts(g)
      BY <2>4, <3>3
    <3>5. PICK done \in SUBSET Text :
            /\ completed' = completed \cup done /\ done \subseteq Turn(g).texts
      <4>1. CASE f.kind = "completed"
        <5>1. {f.text} \in SUBSET Text /\ {f.text} \subseteq Turn(g).texts
          BY <1>5, <3>2, <3>3, <4>1
        <5>2. completed' = completed \cup {f.text}
          BY <1>3, <4>1
        <5>3. QED
          BY <5>1, <5>2
      <4>2. CASE f.kind # "completed"
        <5>1. completed' = completed \cup {} /\ {} \in SUBSET Text /\ {} \subseteq Turn(g).texts
          BY <1>3, <4>2
        <5>2. QED
          BY <5>1
      <4>3. QED
        BY <4>1, <4>2
    <3>6. /\ attempts' \in Seq(Attempt) /\ CountedOnce' /\ CompletedOnce'
          /\ \A text \in Text : Recorded(text)' => Recorded(text) \/ text \in Texts(g)
      <4>1. PICK r \in Attempt : r = Turn(g)
        BY <3>2
      <4>2. /\ r.counted = counted /\ r.texts = Texts(g) /\ r.complete = TRUE
            /\ attempts' = Append(attempts, r) /\ done \subseteq r.texts
            /\ \A text \in Text : Recorded(text) => text \notin r.texts
        BY <3>1, <3>2, <3>4, <3>5, <4>1
      <4>3. /\ attempts' \in Seq(Attempt) /\ CountedOnce' /\ CompletedOnce'
            /\ \A text \in Text : Recorded(text)' => Recorded(text) \/ text \in r.texts
        BY <1>1, <1>3, <2>1, <3>1, <3>5, <4>2, TurnGiven
      <4>4. QED
        BY <4>2, <4>3
    <3>7. RelayTyped'
      BY <1>1, <1>3, <1>5, <3>1, <3>6, NothingGathered DEF RelayTyped
    <3>8. answer.stage \notin {"delta", "done"}
      BY <2>2, <2>3, <2>6 DEF UnderWay
    <3>9. \A text \in Text : Recorded(text)' => Below(text, Present)
      BY <2>2, <2>4, <3>3, <3>6, <3>8
    <3>10. Listening'
      BY <1>3, <2>5, <3>1, <3>8, <3>9, NothingGathered DEF Listening
    <3>11. QED
      BY <1>6, <3>6, <3>7, <3>10 DEF AnswersInv
  <2>7. CASE ~g.complete
    <3>1. /\ acc' = g /\ UNCHANGED << counted, initial, latest, relaying, attempts >>
          /\ completed' = completed
      BY <1>3, <1>9, <2>3, <2>7, Zenon DEF ReadUpstream
    <3>2. RelayTyped'
      BY <1>1, <1>3, <1>5, <2>3, <3>1 DEF RelayTyped
    <3>3. CompletedOnce'
      BY <2>1, <3>1 DEF CompletedOnce
    <3>4. answer.stage = "done" => f.kind = "done" /\ f.text = Present
      BY <1>5, <2>2 DEF UnderWay, FrameKind
    <3>5. \A text : Recorded(text)' <=> Recorded(text)
      BY <3>1 DEF Recorded
    <3>6. acc'.complete = FALSE
      BY <2>3, <2>7, <3>1
    <3>7. Listening'
      BY <1>3, <2>2, <2>3, <2>4, <2>5, <3>1, <3>4, <3>5, <3>6 DEF Listening
    <3>8. QED
      BY <1>6, <1>7, <3>1, <3>2, <3>3, <3>7 DEF AnswersInv
  <2>8. QED
    BY <2>6, <2>7
<1>10. QED
  BY <1>8, <1>9

\* A peer closes: what is gathered is given to the store.
LEMMA CloseAnswers ==
    ASSUME AnswersInv, Close
    PROVE  AnswersInv'
<1>1. /\ RelayTyped /\ acc \in Frames
      /\ UNCHANGED << codex, said, fromClient, answer, fromUpstream, completed >>
      /\ relaying = "select" /\ relaying' \in {"last write", "ended"}
  BY DEF AnswersInv, RelayTyped, Close, peers
<1>2. ~Closed /\ Closed'
  BY <1>1 DEF Closed
<1>3. Waiting'
  BY <1>1 DEF AnswersInv, Waiting
<1>4. CASE codex /\ HasContent(acc)
  <2>1. /\ attempts' = Append(attempts, PartialTurn(acc))
        /\ acc' = NoFrames /\ counted' = {} /\ latest' = None /\ initial' = initial
    BY <1>4 DEF Close, Forget
  <2>2. /\ PartialTurn(acc) \in Attempt /\ PartialTurn(acc).counted = counted
        /\ PartialTurn(acc).texts = Texts(acc)
    BY <1>1, TurnTyped
  <2>3. CompletedOnce /\ Listening
    BY <1>2, <1>4 DEF AnswersInv
  <2>4. \A text \in Text : Recorded(text) => text \notin Texts(acc)
    BY <1>1, <2>3, TextsGathered DEF Listening
  <2>5. PICK done \in SUBSET Text : done = {}
    OBVIOUS
  <2>6. attempts' \in Seq(Attempt) /\ CountedOnce' /\ CompletedOnce'
    <3>1. PICK r \in Attempt : r = PartialTurn(acc)
      BY <2>2
    <3>2. /\ r.counted = counted /\ attempts' = Append(attempts, r) /\ done \subseteq r.texts
          /\ \A text \in Text : Recorded(text) => text \notin r.texts
          /\ completed' = completed \cup done
      BY <1>1, <2>1, <2>2, <2>4, <2>5, <3>1
    <3>3. QED
      BY <1>1, <2>1, <2>3, <2>5, <3>2, TurnGiven
  <2>7. RelayTyped'
    BY <1>1, <2>1, <2>6, NothingGathered DEF RelayTyped
  <2>8. QED
    BY <1>2, <1>3, <2>6, <2>7 DEF AnswersInv
<1>5. CASE ~(codex /\ HasContent(acc))
  <2>1. UNCHANGED << acc, counted, initial, latest, attempts >>
    BY <1>5 DEF Close, gathered
  <2>2. RelayTyped'
    BY <1>1, <2>1 DEF RelayTyped
  <2>3. CountedOnce'
    BY <1>1, <2>1 DEF AnswersInv, CountedOnce, Heard
  <2>4. CompletedOnce => CompletedOnce'
    BY <1>1, <2>1 DEF CompletedOnce
  <2>5. QED
    BY <1>1, <1>2, <1>3, <2>2, <2>3, <2>4 DEF AnswersInv
<1>6. QED
  BY <1>4, <1>5

\* The store and the task leave the answers alone.
LEMMA AnswersUntouched ==
    ASSUME AnswersInv,
           UNCHANGED << codex, peers, gathered, attempts, completed >>,
           Closed => Closed'
    PROVE  AnswersInv'
<1>1. /\ UNCHANGED << codex, said, fromClient, answer, fromUpstream, attempts, completed >>
      /\ UNCHANGED << acc, counted, initial, latest >>
  BY DEF peers, gathered
<1>2. RelayTyped'
  BY <1>1 DEF AnswersInv, RelayTyped
<1>3. Waiting' /\ CountedOnce'
  BY <1>1 DEF AnswersInv, Waiting, CountedOnce, Heard
<1>4. CompletedOnce => CompletedOnce'
  BY <1>1 DEF CompletedOnce
<1>5. Listening => Listening'
  BY <1>1 DEF Listening, Recorded, Gathered, Below, Present, UnderWay
<1>6. QED
  BY <1>1, <1>2, <1>3, <1>4, <1>5 DEF AnswersInv

\* A step of the relay keeps the invariant.
LEMMA RelayAnswers ==
    ASSUME AnswersInv, RelayNext
    PROVE  AnswersInv'
<1>1. CASE Peers
  BY <1>1, AnswerStep, SayAnswers DEF Peers
<1>2. CASE WriteTurn \/ WriteTurnFails \/ UpdateTotals \/ UpdateTotalsFails
  <2>1. UNCHANGED << codex, peers, gathered, attempts, completed >>
    BY <1>2 DEF WriteTurn, WriteTurnFails, UpdateTotals, UpdateTotalsFails
  <2>2. Closed => Closed'
    BY <1>2 DEF WriteTurn, WriteTurnFails, UpdateTotals, UpdateTotalsFails, Closed, After
  <2>3. QED
    BY <2>1, <2>2, AnswersUntouched
<1>3. QED
  BY <1>1, <1>2, ReadClientAnswers, ReadUpstreamAnswers, CloseAnswers
     DEF RelayNext, RelayStep

\* The relay begins with the upgrade and nothing is recorded before.
LEMMA TaskAnswers ==
    ASSUME AnswersInv, Fresh, [Next]_vars
    PROVE  AnswersInv' /\ Fresh'
<1>1. ASSUME UNCHANGED relayVars,
             task' = task \/ task \notin {"relay", "done"}
      PROVE  AnswersInv' /\ Fresh'
  <2>1. UNCHANGED << codex, peers, gathered, attempts, completed >> /\ relaying' = relaying
    BY <1>1 DEF relayVars
  <2>2. Closed => Closed'
    BY <2>1 DEF Closed
  <2>3. QED
    BY <1>1, <2>1, <2>2, AnswersUntouched DEF Fresh
<1>2. CASE \/ FirstBytesFail \/ OpenTunnel \/ BadConnect \/ NoServerName \/ AnswerProbe
           \/ Handshake \/ PassThroughEnds \/ RequestEnds \/ ReadFails \/ ConnectFails
           \/ WriteFails \/ UpstreamEnds \/ ErrorEnds
  BY <1>1, <1>2 DEF FirstBytesFail, OpenTunnel, BadConnect, NoServerName, AnswerProbe,
       FirstBytes, Handshake, PassThroughEnds, RequestEnds, ReadFails, ConnectFails,
       WriteFails, UpstreamEnds, ErrorEnds, Quiet
<1>3. CASE ReadRequest \/ Connect \/ ReadPieces \/ TotalTimeout \/ CaptureResponse \/ AnswerError
  BY <1>1, <1>3 DEF ReadRequest, Connect, ReadPieces, TotalTimeout, CaptureResponse,
       AnswerError
<1>4. CASE Ask \/ ClientLeaves \/ UpstreamSends \/ UNCHANGED vars
  BY <1>1, <1>4 DEF Ask, ClientLeaves, UpstreamSends, vars
<1>5. CASE Upgrade
  <2>1. /\ relaying = "off" /\ relaying' \in {"off", "select"}
        /\ UNCHANGED << codex, peers, gathered, attempts, completed >>
        /\ task' \in {"relay", "done"}
    BY <1>5 DEF Upgrade, Fresh, Goto
  <2>2. Closed => Closed'
    BY <2>1 DEF Closed
  <2>3. QED
    BY <2>1, <2>2, AnswersUntouched DEF Fresh
<1>6. CASE Relaying
  BY <1>6, RelayAnswers DEF Relaying, Goto, Fresh
<1>7. QED
  BY <1>2, <1>3, <1>4, <1>5, <1>6 DEF Next, TaskStep

\* What the invariant says of the history.
LEMMA OnceFromInv ==
    ASSUME AnswersInv
    PROVE  AnswersRecordedOnce
<1>1. attempts \in Seq(Attempt) /\ DOMAIN attempts = 1 .. Len(attempts)
  BY DEF AnswersInv, RelayTyped
<1>2. ASSUME codex, NEW text \in completed
      PROVE  /\ Cardinality(TurnsWith(text)) = 1
             /\ \A i \in TurnsWith(text) : attempts[i].complete
  <2>1. PICK i \in 1 .. Len(attempts) :
            /\ text \in attempts[i].texts /\ attempts[i].complete = TRUE
            /\ \A j \in 1 .. Len(attempts) : text \in attempts[j].texts => j = i
    BY <1>2 DEF AnswersInv, CompletedOnce
  <2>2. TurnsWith(text) = {i}
    BY <1>1, <2>1 DEF TurnsWith
  <2>3. Cardinality(TurnsWith(text)) = 1
    BY <2>2, FS_Singleton
  <2>4. QED
    BY <2>1, <2>2, <2>3
<1>3. ASSUME NEW id
      PROVE  Cardinality(TurnsCounting(id)) + (IF id \in counted THEN 1 ELSE 0) <= 1
  <2>1. /\ \A i \in 1 .. Len(attempts) : id \in attempts[i].counted =>
            /\ id \notin counted
            /\ \A j \in 1 .. Len(attempts) : id \in attempts[j].counted => j = i
    BY DEF AnswersInv, CountedOnce
  <2>2. CASE TurnsCounting(id) = {}
    <3>1. Cardinality(TurnsCounting(id)) = 0
      BY <2>2, FS_EmptySet
    <3>2. QED
      BY <3>1
  <2>3. CASE TurnsCounting(id) # {}
    <3>1. PICK i \in 1 .. Len(attempts) : id \in attempts[i].counted
      BY <1>1, <2>3 DEF TurnsCounting
    <3>2. TurnsCounting(id) = {i} /\ id \notin counted
      BY <1>1, <2>1, <3>1 DEF TurnsCounting
    <3>3. Cardinality(TurnsCounting(id)) = 1
      BY <3>2, FS_Singleton
    <3>4. QED
      BY <3>2, <3>3
  <2>4. QED
    BY <2>2, <2>3
<1>4. QED
  BY <1>2, <1>3 DEF AnswersRecordedOnce

\* The invariant of the answers holds in every state.
LEMMA AnswersAlways == Spec => []AnswersInv
<1>1. Init => AnswersInv /\ Fresh
  <2>1. SUFFICES ASSUME Init PROVE AnswersInv /\ Fresh
    OBVIOUS
  <2>2. /\ said = 0 /\ fromClient = << >> /\ answer = Idle /\ fromUpstream = << >>
        /\ acc = NoFrames /\ counted = {} /\ initial = None /\ latest = None
        /\ attempts = << >> /\ completed = {} /\ relaying = "off"
    BY <2>1 DEF Init, RelayInit
  <2>3. /\ answer \in [of : Nat, stage : {"idle", "asked", "open", "delta", "done"},
                       items : Nat, notes : Nat]
        /\ answer.of = 0 /\ answer.stage = "idle"
    BY <2>2 DEF Idle
  <2>4. attempts \in Seq(Attempt) /\ Len(attempts) = 0
    BY <2>2
  <2>5. RelayTyped /\ Waiting
    BY <2>2, <2>3, <2>4, NothingGathered DEF RelayTyped, Waiting
  <2>6. CountedOnce /\ CompletedOnce
    BY <2>2, <2>4 DEF CountedOnce, CompletedOnce
  <2>7. Listening
    BY <2>2, <2>3, <2>4, NothingGathered DEF Listening, Recorded
  <2>8. QED
    BY <2>2, <2>5, <2>6, <2>7 DEF AnswersInv, Fresh
<1>2. AnswersInv /\ Fresh /\ [Next]_vars => AnswersInv' /\ Fresh'
  BY TaskAnswers
<1>3. QED
  BY <1>1, <1>2, PTL DEF Spec

\* The text of every answer the upstream completed is given to the store in
\* exactly one turn, marked as complete, and no message of the client is
\* counted twice (CodexFrameAccumulator and websocket_relay), for any number
\* of messages, items and frames and any limit of the deltas.
THEOREM AnswersOnce == Spec => []AnswersRecordedOnce
<1>1. AnswersInv => AnswersRecordedOnce
  BY OnceFromInv
<1>2. QED
  BY <1>1, AnswersAlways, PTL

\* The request, the response and what the relay gathers keep their types: in
\* particular at most one request and one frame wait to be read, and a turn
\* given to the store has a request of the client or none (CodexFrameAccumulator).
THEOREM TypeCorrect == Spec => [](Typed /\ RelayTyped)
<1>1. CapturedInv /\ AnswersInv => Typed /\ RelayTyped
  BY DEF CapturedInv, AnswersInv
<1>2. QED
  BY <1>1, CapturedAlways, AnswersAlways, PTL
=============================================================================
