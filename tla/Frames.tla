------------------------------- MODULE Frames -------------------------------
(***************************************************************************)
(* How websocket_relay turns the bytes of one direction into the messages  *)
(* that are captured: reads of any size are forwarded as they are and      *)
(* gathered in a buffer (client_accum, upstream_accum); parse_frame takes  *)
(* complete frames off it, MessageAssembler joins the fragments, and what  *)
(* is left in the buffer is dropped when it exceeds 1 MB.                  *)
(*                                                                         *)
(* The stream is the frames one after the other and a position is a number *)
(* of bytes from its start, so the buffer holds what lies between parsed   *)
(* and got.                                                                *)
(***************************************************************************)
EXTENDS Naturals, Sequences, FiniteSets

CONSTANTS
    MaxFrames,   \* frames the peer sends
    Sizes,       \* sizes of a frame
    ReadSize,    \* the most a read returns (16 KB)
    MaxAccum,    \* residue that is kept (1 MB)
    MaxMessage,  \* MAX_MESSAGE_SIZE
    MaxGarbage,  \* bound on the frames that are read from misplaced bytes
    Data,        \* opcodes of data frames: text and binary
    NoOpcode

VARIABLES
    frames,    \* frames the peer sent, in order
    got,       \* position up to which the stream was read
    parsed,    \* position up to which it was parsed
    start,     \* start_opcode
    buffer,    \* frames in MessageAssembler.buffer, << number, size >>
    captured,  \* history: messages handed on, each the sequence of its frames
    headless,  \* history: bytes that were read together with the 101 headers
    garbage,   \* history: number of frames read from misplaced bytes
    loop       \* step: "headers", "read", "parse" or "ended"

assembler == << start, buffer, captured >>
vars == << frames, got, parsed, assembler, headless, garbage, loop >>

Opcode == Data \cup {"continuation", "control", "unknown"}
Frame == [opcode : Opcode, fin : BOOLEAN, size : Sizes]

\* EndOf[n]: the position after frame n.
EndOf ==
    LET e[n \in 0 .. Len(frames)] == IF n = 0 THEN 0 ELSE e[n - 1] + frames[n].size
    IN  e

Init ==
    /\ frames = << >> /\ got = 0 /\ parsed = 0
    /\ start = NoOpcode /\ buffer = << >> /\ captured = << >>
    /\ headless = 0 /\ garbage = 0
    /\ loop = "headers"

-----------------------------------------------------------------------------
(* The peer keeps to RFC 6455.                                             *)

IsData(n) == frames[n].opcode # "control"

\* A fragmented message is not at its end.
Fragmented ==
    \E n \in DOMAIN frames :
        IsData(n) /\ ~frames[n].fin /\ \A m \in n + 1 .. Len(frames) : ~IsData(m)

\* No extension is in use, for the relay strips Sec-WebSocket-Extensions from
\* the handshake, so that no frame has RSV bits.
Legal(f) ==
    \/ f.opcode = "control" /\ f.fin
    \/ f.opcode = "continuation" /\ Fragmented
    \/ f.opcode \in Data /\ ~Fragmented

\* What was sent is only seen once it is read, so that all of it can be sent
\* before the first read.
SendFrame ==
    /\ loop = "headers"
    /\ Len(frames) < MaxFrames
    /\ \E f \in Frame : Legal(f) /\ frames' = Append(frames, f)
    /\ UNCHANGED << got, parsed, assembler, headless, garbage, loop >>

\* The read that completes the 101 headers may bring frames of the upstream:
\* they are forwarded and reach no buffer of the relay.
ReadHeaders ==
    /\ loop = "headers"
    /\ headless' \in 0 .. EndOf[Len(frames)]
    /\ got' = headless' /\ parsed' = headless'
    /\ loop' = "read"
    /\ UNCHANGED << frames, assembler, garbage >>

-----------------------------------------------------------------------------
(* One iteration of the select loop.                                       *)

Read ==
    /\ loop = "read"
    /\ \E k \in 1 .. ReadSize : got + k <= EndOf[Len(frames)] /\ got' = got + k
    /\ loop' = "parse"
    /\ UNCHANGED << frames, parsed, assembler, headless, garbage >>

\* The stream ends, or a read or the write to the other side fails.
Close ==
    /\ loop = "read"
    /\ loop' = "ended"
    /\ UNCHANGED << frames, got, parsed, assembler, headless, garbage >>

SizeOf(s) ==
    LET sum[i \in 0 .. Len(s)] == IF i = 0 THEN 0 ELSE sum[i - 1] + s[i][2]
    IN  sum[Len(s)]

\* Mutant of Push: a continuation frame is added whatever is in progress.
PushOrphans(f, n) ==
    LET all == Append(buffer, << n, f.size >>) IN
    IF f.opcode \in {"control", "unknown"} THEN UNCHANGED assembler
    ELSE IF f.fin
    THEN captured' = Append(captured, all) /\ start' = NoOpcode /\ buffer' = << >>
    ELSE buffer' = all /\ UNCHANGED << start, captured >>

\* MessageAssembler::push of frame f, number n of the stream.
Push(f, n) ==
    LET one == << << n, f.size >> >>
        all == buffer \o one
    IN
    \/ /\ f.opcode \in Data
       /\ IF f.fin
          THEN captured' = Append(captured, one) /\ UNCHANGED << start, buffer >>
          ELSE start' = f.opcode /\ buffer' = one /\ UNCHANGED captured
    \/ /\ f.opcode = "continuation" /\ start # NoOpcode
       /\ start' = IF SizeOf(all) > MaxMessage \/ f.fin THEN NoOpcode ELSE start
       /\ buffer' = IF SizeOf(all) > MaxMessage \/ f.fin THEN << >> ELSE all
       /\ captured' = IF SizeOf(all) <= MaxMessage /\ f.fin THEN Append(captured, all)
                      ELSE captured
    \/ /\ f.opcode \in {"control", "unknown"} \/ (f.opcode = "continuation" /\ start = NoOpcode)
       /\ UNCHANGED assembler

\* A whole frame is at the start of the buffer.
ParseFrame ==
    /\ loop = "parse"
    /\ \E n \in DOMAIN frames :
        /\ parsed = EndOf[n - 1] /\ EndOf[n] <= got
        /\ Push(frames[n], n)
        /\ parsed' = EndOf[n]
    /\ UNCHANGED << frames, got, headless, garbage, loop >>

\* The buffer starts inside a frame: its bytes are read as a header, which may
\* announce any frame (number 0).
Misplaced == parsed < got /\ \A n \in 0 .. Len(frames) : parsed # EndOf[n]

ParseGarbage ==
    /\ loop = "parse"
    /\ Misplaced
    /\ garbage < MaxGarbage /\ garbage' = garbage + 1
    /\ \E f \in [opcode : Opcode, fin : BOOLEAN, size : 1 .. got - parsed] :
        Push(f, 0) /\ parsed' = parsed + f.size
    /\ UNCHANGED << frames, got, headless, loop >>

Excess == got - parsed > MaxAccum

\* parse_frame fails, which is taken for an incomplete frame, or the buffer is
\* empty; then the residue is dropped when it is too long.
ParseStops ==
    /\ loop = "parse"
    /\ Misplaced \/ \A n \in DOMAIN frames : parsed = EndOf[n - 1] => got < EndOf[n]
    /\ parsed' = IF Excess THEN got ELSE parsed
    /\ loop' = "read"
    /\ UNCHANGED << frames, got, assembler, headless, garbage >>

-----------------------------------------------------------------------------
Next ==
    \/ SendFrame \/ ReadHeaders
    \/ Read \/ Close \/ ParseFrame \/ ParseGarbage \/ ParseStops

Spec == Init /\ [][Next]_vars

-----------------------------------------------------------------------------
(* Properties.                                                             *)

\* Types of the variables.
TypeOK ==
    /\ frames \in Seq(Frame)
    /\ 0 <= parsed /\ parsed <= got /\ got <= EndOf[Len(frames)]
    /\ start \in Data \cup {NoOpcode} /\ start = NoOpcode => buffer = << >>
    /\ headless <= parsed
    /\ loop \in {"headers", "read", "parse", "ended"}

\* The bytes of the data frames among the first n.
DataTo ==
    LET bytes[n \in 0 .. Len(frames)] ==
            IF n = 0 THEN 0
            ELSE IF IsData(n) THEN bytes[n - 1] + frames[n].size
            ELSE bytes[n - 1]
    IN  bytes

\* Frames n to e are a message that is not too long.
Message(n, e) ==
    /\ frames[n].opcode \in Data /\ IsData(e) /\ frames[e].fin
    /\ \A m \in n + 1 .. e : frames[m].opcode \notin Data
    /\ \A m \in n .. e - 1 : IsData(m) => ~frames[m].fin
    /\ n < e => DataTo[e] - DataTo[n - 1] <= MaxMessage

\* s is what the data frames from n to e bring, in their order.
Brings(s, n, e) ==
    /\ {s[i] : i \in DOMAIN s}
            = {<< m, frames[m].size >> : m \in {c \in n .. e : IsData(c)}}
    /\ \A i, j \in DOMAIN s : i < j => s[i][1] < s[j][1]

\* s comes before t in the stream.
Precedes(s, t) == \A i \in DOMAIN s, j \in DOMAIN t : s[i][1] < t[j][1]

\* As long as no frame exceeds the residue that is kept and none came with the
\* headers, exactly the messages whose last byte was read are handed on, whole
\* and in their order, however the stream is cut into reads and whatever is
\* between the fragments; a message over the limit is left out alone.
CapturedExactly ==
    LET Kept(n, e) == Message(n, e) /\ EndOf[e] <= parsed IN
    headless = 0 /\ (\A n \in DOMAIN frames : frames[n].size <= MaxAccum) =>
        /\ \A i \in DOMAIN captured : \E e \in DOMAIN frames : \E n \in 1 .. e :
            Kept(n, e) /\ Brings(captured[i], n, e)
        /\ \A e \in DOMAIN frames : \A n \in 1 .. e :
            Kept(n, e) => \E i \in DOMAIN captured : Brings(captured[i], n, e)
        /\ \A i, j \in DOMAIN captured : i < j => Precedes(captured[i], captured[j])
=============================================================================
