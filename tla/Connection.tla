----------------------------- MODULE Connection -----------------------------
(***************************************************************************)
(* The task of one client connection: the first bytes (run_listener), the  *)
(* TLS tunnel and its HTTP exchanges (handle_mitm_tunnel and its twin for  *)
(* a direct TLS connection), the streaming of a response that is copied    *)
(* for the capture (stream_to_client_and_accumulate), the tunnels that are *)
(* passed through, and the WebSocket relay (module Relay).                 *)
(*                                                                         *)
(* A response is counted in pieces, the first of them its headers; a step  *)
(* is one await of the task that ends, or one act of a peer.               *)
(***************************************************************************)
EXTENDS Relay

CONSTANTS
    MaxRequests,  \* requests the client makes
    MaxPieces,    \* pieces in a response
    MaxResponse,  \* pieces that are kept (MAX_RESPONSE_SIZE)
    MaxUpgrade    \* bound: the last request that may be answered by an upgrade

ASSUME ConnectionAssumption ==
    /\ {MaxRequests, MaxPieces, MaxResponse, MaxUpgrade} \subseteq Nat \ {0}
    /\ None \notin [n : Nat, api : BOOLEAN, clean : BOOLEAN]

VARIABLES
    arrival,   \* how the client connects, and to what host
    task,      \* step of the task
    open,      \* the client is there
    inbox,     \* request the client sent, not read by the task
    request,   \* request at work, or None
    stray,     \* unread rest of the last request: "none", "crlf" or "body"
    response,  \* what the upstream answers
    got,       \* pieces in the capture buffer
    captures,  \* history: what was handed to the capture
    answered,  \* history: requests whose whole response the client has
    gaveUp     \* history: requests that ran into UPSTREAM_TOTAL_TIMEOUT

exchange == << request, response, got >>
history == << captures, answered, gaveUp >>
vars == << arrival, task, open, inbox, stray, exchange, history, relayVars >>

Arrivals ==
    [mode : {"connect", "tls", "health", "other"}, \* what detect_connection_mode sees
     known : BOOLEAN,      \* detect_provider knows the host: MITM
     https : BOOLEAN,      \* port 443; looked at for an unknown host only
     blankLine : BOOLEAN]  \* the first bytes hold CR LF CR LF

Framing == {"length", "chunked", "lookalike", "trailers", "close", "bodiless", "upgrade"}

NoResponse == [framing |-> "none", size |-> 0, sent |-> 0, over |-> FALSE]

Init ==
    /\ RelayInit
    /\ relaying = "off"
    /\ arrival \in Arrivals
    /\ arrival.mode # "tls" => arrival.blankLine
    /\ arrival.known => arrival.https
    /\ arrival.mode \in {"health", "other"} => ~arrival.known /\ arrival.https
    /\ codex => arrival.known
    /\ task = "first" /\ open = TRUE
    /\ inbox = << >> /\ request = None /\ stray = "none"
    /\ response = NoResponse /\ got = 0
    /\ captures = {} /\ answered = {} /\ gaveUp = {}

-----------------------------------------------------------------------------
(* The peers.                                                              *)

\* The client asks when it has the whole last response.  An API request is
\* one that should_intercept takes by its method and path.
Ask ==
    /\ open /\ task \in {"request", "capture"}
    /\ inbox = << >>
    /\ request # None => request.n \in answered
    /\ LET n == IF request = None THEN 1 ELSE request.n + 1 IN
        /\ n <= MaxRequests
        /\ \E framing \in {"none", "length", "oversize", "chunked"} : \E api \in BOOLEAN :
            inbox' = << [n |-> n, framing |-> framing, api |-> api] >>
    /\ UNCHANGED << arrival, task, open, stray, exchange, history, relayVars >>

\* In the relay this is Close.
ClientLeaves ==
    /\ open /\ task # "relay"
    /\ open' = FALSE
    /\ UNCHANGED << arrival, task, inbox, stray, exchange, history, relayVars >>

\* The upstream sends a piece, or it closes or breaks the connection.
UpstreamSends ==
    /\ task = "stream"
    /\ ~response.over
    /\ \/ /\ response.sent < response.size
          /\ response' = [response EXCEPT !.sent = @ + 1]
       \/ response' = [response EXCEPT !.over = TRUE]
    /\ UNCHANGED << arrival, task, open, inbox, stray, request, got, history, relayVars >>

-----------------------------------------------------------------------------
(* The first bytes.                                                        *)

Goto(step) == task' = step

Quiet == UNCHANGED << arrival, open, inbox, stray, exchange, history, relayVars >>

\* The loop reads up to a blank line, or the end of what the client sends,
\* whatever the connection mode.
FirstBytes == task = "first" /\ (arrival.blankLine \/ ~open)

Tunnel == IF arrival.known THEN "tls" ELSE IF arrival.https THEN "pass" ELSE "done"

\* More than 8 KB without a blank line, a failing read, or nothing at all.
FirstBytesFail == FirstBytes /\ Goto("done") /\ Quiet

\* The 200 of a CONNECT request needs a client.
OpenTunnel ==
    /\ FirstBytes
    /\ arrival.mode = "tls" \/ (arrival.mode = "connect" /\ open)
    /\ Goto(Tunnel)
    /\ Quiet

\* parse_connect_request: no method, host, valid name or port; status 400.
BadConnect == FirstBytes /\ arrival.mode = "connect" /\ Goto("done") /\ Quiet

\* extract_sni_hostname: a record that is cut, or one without a name.
NoServerName == FirstBytes /\ arrival.mode = "tls" /\ Goto("done") /\ Quiet

\* /healthz and /metrics are answered, anything else gets status 400.
AnswerProbe ==
    /\ FirstBytes
    /\ arrival.mode \in {"health", "other"}
    /\ Goto("done")
    /\ Quiet

\* The leaf certificate (module Certificates), then the handshake, which has
\* a timeout.
Handshake ==
    /\ task = "tls"
    /\ task' \in {"done"} \cup IF open THEN {"request"} ELSE {}
    /\ Quiet

\* copy_bidirectional, up to an end of the client or of the upstream.
PassThroughEnds ==
    /\ task = "pass"
    /\ Goto("done")
    /\ Quiet

-----------------------------------------------------------------------------
(* read_http_request and should_intercept.                                 *)

\* The read of a chunked body ends with the line of the last chunk: the CR LF
\* after it is dropped when it has arrived.  A Content-Length above
\* MAX_BODY_SIZE counts as none: the body is not waited for.
Rest(r) ==
    CASE r.framing = "chunked" -> {"none", "crlf"}
      [] r.framing = "oversize" -> {"body"}
      [] OTHER -> {"none"}

\* A request that starts with a stray CR LF has an empty first line.
ShouldCapture == request.api /\ request.clean

ReadRequest ==
    /\ task = "request"
    /\ inbox # << >>
    /\ stray # "body"
    /\ inbox' = << >>
    /\ LET r == Head(inbox) IN
        /\ stray' \in Rest(r)
        /\ request' = [n |-> r.n, api |-> r.api, clean |-> stray = "none"]
    /\ response' = NoResponse /\ got' = 0
    /\ Goto("forward")
    /\ UNCHANGED << arrival, open, history, relayVars >>

\* The client left, no request came in READ_REQUEST_TIMEOUT, or what came is
\* none: the rest of a body exceeds the limit of the headers.
RequestEnds ==
    /\ task = "request"
    /\ Goto("done")
    /\ Quiet

-----------------------------------------------------------------------------
(* stream_to_client_and_accumulate.                                        *)

Connect ==
    /\ task = "forward"
    /\ \E framing \in Framing : \E size \in 1 .. IF framing = "upgrade" THEN 1 ELSE MaxPieces :
        /\ framing = "upgrade" => request.n <= MaxUpgrade
        /\ response' = [NoResponse EXCEPT !.framing = framing, !.size = size]
    /\ Goto("stream")
    /\ UNCHANGED << arrival, open, inbox, stray, request, got, history, relayVars >>

\* The whole response has arrived: by its length, or by the last chunk at the
\* end of what was read, which a piece in the middle can look like.  101 ends
\* with the headers.  Else only the end of the connection ends it.
Whole(n) ==
    \/ response.framing = "length" /\ n = response.size
    \/ response.framing = "chunked" /\ n = response.size
    \/ response.framing = "lookalike" /\ n >= 2
    \/ response.framing = "upgrade"

\* A read that would exceed the limit is forwarded and not kept.
Kept(n) == IF n > MaxResponse THEN got ELSE n

\* After forwarding the pieces up to n: the client has the response when it
\* can tell its end.
Answer1(n) ==
    answered' = IF n = response.size /\ response.framing # "close"
                THEN answered \cup {request.n} ELSE answered

ReadPieces ==
    /\ task = "stream"
    /\ open
    /\ \E n \in got + 1 .. response.sent :
        /\ got' = Kept(n)
        /\ Answer1(n)
        /\ IF Kept(n) = n /\ response.framing = "upgrade"
           THEN Goto("upgrade")
           ELSE Goto(IF n > MaxResponse \/ Whole(n) THEN "capture" ELSE "stream")
    /\ UNCHANGED << arrival, open, inbox, stray, request, response, captures, gaveUp, relayVars >>

\* The client left: the pieces cannot be written.
WriteFails ==
    /\ task = "stream"
    /\ ~open /\ got < response.sent
    /\ Goto("capture")
    /\ Quiet

\* The upstream closed.
UpstreamEnds ==
    /\ task = "stream"
    /\ response.over /\ got = response.sent
    /\ Goto("capture")
    /\ Quiet

\* An error of the response counts as its end when something has arrived.
ErrorIsAnswered == got = 0

\* A read fails or takes UPSTREAM_READ_TIMEOUT.
ReadFails ==
    /\ task = "stream"
    /\ Goto(IF ErrorIsAnswered THEN "error" ELSE "capture")
    /\ Quiet

\* No connection, no handshake, or the request cannot be sent.
ConnectFails ==
    /\ task = "forward"
    /\ Goto("error")
    /\ Quiet

\* Mutant of TotalTimeout: the exchange is tried again.
TotalTimeoutRetries ==
    /\ task \in {"forward", "stream"}
    /\ Goto("forward")
    /\ gaveUp' = gaveUp \cup {request.n}
    /\ UNCHANGED << arrival, open, inbox, stray, exchange, captures, answered, relayVars >>

\* UPSTREAM_TOTAL_TIMEOUT, which starts before any read does.
TotalTimeout ==
    /\ task \in {"forward", "stream"}
    /\ Goto("done")
    /\ gaveUp' = gaveUp \cup {request.n}
    /\ UNCHANGED << arrival, open, inbox, stray, exchange, captures, answered, relayVars >>

-----------------------------------------------------------------------------
(* After the exchange.                                                     *)

\* Mutant of Captured: a response that was cut is not captured.
CapturedWhole(kind) ==
    captures' = IF ShouldCapture /\ got = response.size
                THEN captures \cup {[n |-> request.n, kind |-> kind, got |-> got]}
                ELSE captures

Captured(kind) ==
    captures' = IF ShouldCapture
                THEN captures \cup {[n |-> request.n, kind |-> kind, got |-> got]}
                ELSE captures

\* record_capture and process_capture_with_pipeline, then the next request
\* unless the client left.
CaptureResponse ==
    /\ task = "capture"
    /\ Captured("response")
    /\ task' \in {"done"} \cup IF open THEN {"request"} ELSE {}
    /\ UNCHANGED << arrival, open, inbox, stray, exchange, answered, gaveUp, relayVars >>

\* The 502 of the gateway; a direct TLS connection is closed without it.
AnswerError ==
    /\ task = "error"
    /\ arrival.mode = "connect" /\ open
    /\ Captured("error")
    /\ answered' = answered \cup {request.n}
    /\ task' \in {"request", "done"}
    /\ UNCHANGED << arrival, open, inbox, stray, exchange, gaveUp, relayVars >>

ErrorEnds ==
    /\ task = "error"
    /\ Goto("done")
    /\ Quiet

\* The handshake of a WebSocket is captured to disk, and the relay starts; a
\* direct TLS connection is closed.
Upgrade ==
    /\ task = "upgrade"
    /\ IF arrival.mode = "connect"
       THEN Goto("relay") /\ relaying' = "select" /\ Captured("upgrade")
       ELSE Goto("done") /\ UNCHANGED << relaying, captures >>
    /\ UNCHANGED << arrival, open, inbox, stray, exchange, answered, gaveUp, codex, peers,
                    gathered, created, attempts, tables, completed >>

Relaying ==
    /\ task = "relay"
    /\ RelayNext
    /\ Goto(IF relaying' = "ended" THEN "done" ELSE "relay")
    /\ UNCHANGED << arrival, open, inbox, stray, exchange, history >>

-----------------------------------------------------------------------------
\* What the task does by itself, a timeout included.
TaskStep ==
    \/ FirstBytesFail \/ OpenTunnel \/ BadConnect \/ NoServerName \/ AnswerProbe
    \/ Handshake
    \/ ReadRequest \/ RequestEnds
    \/ Connect \/ ConnectFails \/ ReadPieces \/ WriteFails \/ UpstreamEnds
    \/ ReadFails \/ TotalTimeout
    \/ CaptureResponse \/ AnswerError \/ ErrorEnds \/ Upgrade

Next ==
    \/ TaskStep \/ PassThroughEnds \/ Relaying
    \/ Ask \/ ClientLeaves \/ UpstreamSends

Spec == Init /\ [][Next]_vars

\* Every await of the tunnel has a timeout or is a read of the client, who
\* may stay away for ever: passing through and relaying have none.
FairSpec == Spec /\ WF_vars(TaskStep)

-----------------------------------------------------------------------------
(* Properties.                                                             *)

\* Types of the variables.
TypeOK ==
    /\ RelayTypeOK
    /\ arrival \in Arrivals
    /\ task \in {"first", "tls", "pass", "request", "forward", "stream", "capture",
                 "error", "upgrade", "relay", "done"}
    /\ stray \in {"none", "crlf", "body"}
    /\ got \in 0 .. MaxResponse
    /\ response.sent <= response.size
    /\ answered \subseteq 1 .. MaxRequests /\ gaveUp \subseteq 1 .. MaxRequests

\* An API request whose whole response the client has is captured, once, before the
\* next request is read and before the task ends, unless the total timeout
\* struck, its first line was hidden by the rest of the last request, or a
\* direct TLS connection was upgraded, which nothing serves.
AnsweredIsCaptured ==
    task \in {"request", "relay", "done"} /\ request # None /\ request.n \in answered =>
        \/ Cardinality({c \in captures : c.n = request.n}) = 1
        \/ ~ShouldCapture
        \/ request.n \in gaveUp
        \/ arrival.mode = "tls" /\ response.framing = "upgrade"

\* An exchange ends, whatever the upstream does.
ExchangeEnds == (task \in {"forward", "stream"}) ~> (task \notin {"forward", "stream"})
=============================================================================
