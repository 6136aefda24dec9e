------------------------- MODULE ConversationProofs -------------------------
(***************************************************************************)
(* The safety of a session's conversation, for any requests, connections   *)
(* and failures.                                                           *)
(*                                                                         *)
(* The events: a capture moves a baseline only after its event (Telling).  *)
(*                                                                         *)
(* The deltas: while no two captures run together (Alone), a connection    *)
(* that goes on knows at least the number of the last turn (Knows), so     *)
(* that the lengths a capture adds up are those of all turns (IsAhead), and*)
(* its delta begins where the last request ended (Cuts).                   *)
(*                                                                         *)
(* The row: while nothing fails either, it agrees with the turns between   *)
(* captures (Rest), and during one with those it has dealt with (During).  *)
(***************************************************************************)
EXTENDS PartsProofs

Capture == C!Capture
Column == C!Column
Baseline == C!Prompt \cup {None}

\* A turn of the session.
TurnRow ==
    [capture : Capture, req : Seq(C!Message), hash : [Column -> Baseline],
     delta : Seq(C!Message)]

EventRow == [column : Column, new : C!Prompt, capture : Capture]

\* Before its turn is written, and after.
Ahead == {"resolved", "write"}
Written == {"upkeep", "compare", "tell", "move"}

ConTypes ==
    /\ turns \in Seq(TurnRow)
    /\ events \in Seq(EventRow)
    /\ session # None => session \in C!Row
    /\ next \in [Conn -> Nat]
    /\ stage \in [Capture -> Ahead \cup Written \cup C!Ended]
    /\ req \in [Capture -> Seq(C!Message) \cup {None}]
    /\ prompts \in [Capture -> [Column -> C!Prompt] \cup {None}]
    /\ seq \in [Capture -> Nat]
    /\ from \in [Capture -> Nat \ {0}]
    /\ column \in [Capture -> Column]
    /\ DOMAIN new = Capture
    /\ \A c \in Capture : stage[c] # "idle" =>
        req[c] \in Seq(C!Message) /\ prompts[c] \in [Column -> C!Prompt]
    /\ \A c \in Capture : stage[c] \in Written => session \in C!Row

-----------------------------------------------------------------------------
(* Running sums and joins of the deltas.                                   *)

\* Lengths is a function of that form.
LEMMA LengthsUnfold ==
    ASSUME NEW s \in Seq(TurnRow)
    PROVE  /\ C!Lengths(s) \in [0 .. Len(s) -> Nat]
           /\ C!Lengths(s)[0] = 0
           /\ \A i \in 1 .. Len(s) : C!Lengths(s)[i] = C!Lengths(s)[i - 1] + Len(s[i].delta)
<1> DEFINE n == Len(s)
           G == [p \in Nat \X (1 .. n) |-> p[1] + Len(s[p[2]].delta)]
<1>1. n \in Nat /\ \A i \in 1 .. n : Len(s[i].delta) \in Nat
  <2>1. n \in Nat /\ \A i \in 1 .. n : s[i] \in TurnRow
    OBVIOUS
  <2>2. \A r \in TurnRow : r.delta \in Seq(C!Message)
    BY DEF TurnRow
  <2>3. QED
    BY <2>1, <2>2
<1>2. G \in [Nat \X (1 .. n) -> Nat]
  BY <1>1
<1>3. PICK f \in [0 .. n -> Nat] : f[0] = 0 /\ \A i \in 1 .. n : f[i] = G[<< f[i - 1], i >>]
  <2> HIDE DEF G, n
  <2>1. 0 \in Nat
    OBVIOUS
  <2>2. n \in Nat
    BY <1>1
  <2>3. Iterated(Nat, 0, n, G)
    BY <1>2, <2>1, <2>2, IterationExists
  <2>4. QED
    BY <2>3 DEF Iterated
<1>4. ASSUME NEW i \in 1 .. n PROVE f[i] = f[i - 1] + Len(s[i].delta)
  <2>1. << f[i - 1], i >> \in Nat \X (1 .. n)
    <3> HIDE DEF G, n
    <3> QED
      BY <1>1, <1>3
  <2>2. QED
    BY <1>3, <2>1
<1>5. f = [i \in 0 .. n |-> IF i = 0 THEN 0 ELSE f[i - 1] + Len(s[i].delta)]
  BY <1>1, <1>3, <1>4
<1> DEFINE h == C!Lengths(s)
<1>6. h = [i \in 0 .. n |-> IF i = 0 THEN 0 ELSE h[i - 1] + Len(s[i].delta)]
  BY <1>5, Zenon DEF C!Lengths
<1>7. h[0] = 0 /\ \A i \in 1 .. n : h[i] = h[i - 1] + Len(s[i].delta)
  <2> HIDE DEF h
  <2> QED
    BY <1>1, <1>6
<1>8. h \in [0 .. n -> Nat]
  <2> HIDE DEF h
  <2>1. f[0] = h[0] /\ \A i \in 1 .. n : f[i - 1] = h[i - 1] => f[i] = h[i]
    BY <1>3, <1>4, <1>7
  <2>2. \A i \in 0 .. n : f[i] = h[i]
    <3> HIDE DEF n
    <3>1. SameSteps(n, f, h)
      BY <1>1, <2>1 DEF SameSteps
    <3>2. Same(n, f, h)
      BY <3>1, SameFrom
    <3>3. QED
      BY <3>2 DEF Same
  <2>3. QED
    BY <1>3, <1>6, <2>2
<1>9. QED
  BY <1>7, <1>8

\* Joins is a function of that form.
LEMMA JoinsUnfold ==
    ASSUME NEW s \in Seq(TurnRow)
    PROVE  /\ C!Joins(s) \in [0 .. Len(s) -> Seq(C!Message)]
           /\ C!Joins(s)[0] = << >>
           /\ \A i \in 1 .. Len(s) : C!Joins(s)[i] = C!Joins(s)[i - 1] \o s[i].delta
<1> DEFINE n == Len(s)
           M == C!Message
           G == [p \in Seq(C!Message) \X (1 .. n) |-> p[1] \o s[p[2]].delta]
<1>1. n \in Nat /\ \A i \in 1 .. n : s[i].delta \in Seq(C!Message)
  <2>1. n \in Nat /\ \A i \in 1 .. n : s[i] \in TurnRow
    OBVIOUS
  <2>2. \A r \in TurnRow : r.delta \in Seq(C!Message)
    BY DEF TurnRow
  <2>3. QED
    BY <2>1, <2>2
<1>2. G \in [Seq(C!Message) \X (1 .. n) -> Seq(C!Message)]
  BY <1>1
<1>3. PICK f \in [0 .. n -> Seq(C!Message)] : f[0] = << >> /\ \A i \in 1 .. n : f[i] = G[<< f[i - 1], i >>]
  <2> HIDE DEF G, n
  <2>1. << >> \in Seq(C!Message)
    OBVIOUS
  <2>2. n \in Nat
    BY <1>1
  <2>3. Iterated(Seq(C!Message), << >>, n, G)
    BY <1>2, <2>1, <2>2, IterationExists
  <2>4. QED
    BY <2>3 DEF Iterated
<1>4. ASSUME NEW i \in 1 .. n PROVE f[i] = f[i - 1] \o s[i].delta
  <2>1. << f[i - 1], i >> \in Seq(C!Message) \X (1 .. n)
    <3> HIDE DEF G, n
    <3> QED
      BY <1>1, <1>3
  <2>2. QED
    BY <1>3, <2>1
<1>5. f = [i \in 0 .. n |-> IF i = 0 THEN << >> ELSE f[i - 1] \o s[i].delta]
  <2>1. f = [i \in 0 .. n |-> f[i]]
    BY <1>3
  <2>2. \A i \in 0 .. n : f[i] = IF i = 0 THEN << >> ELSE f[i - 1] \o s[i].delta
    <3>1. TAKE i \in 0 .. n
    <3>2. CASE i = 0
      BY <1>3, <3>2
    <3>3. CASE i # 0
      <4>1. i \in 1 .. n
        BY <1>1, <3>3
      <4>2. QED
        BY <1>4, <3>3, <4>1
    <3>4. QED
      BY <3>2, <3>3
  <2>3. QED
    BY <2>1, <2>2, Zenon
<1> DEFINE h == C!Joins(s)
<1>6. h = [i \in 0 .. n |-> IF i = 0 THEN << >> ELSE h[i - 1] \o s[i].delta]
  BY <1>5, Zenon DEF C!Joins
<1>7. h[0] = << >> /\ \A i \in 1 .. n : h[i] = h[i - 1] \o s[i].delta
  <2> HIDE DEF h
  <2>1. \A i \in 0 .. n : h[i] = IF i = 0 THEN << >> ELSE h[i - 1] \o s[i].delta
    BY <1>6, Zenon
  <2>2. 0 \in 0 .. n /\ \A i \in 1 .. n : i \in 0 .. n /\ i # 0
    BY <1>1
  <2>3. QED
    BY <2>1, <2>2, Zenon
<1>8. h \in [0 .. n -> Seq(C!Message)]
  <2> HIDE DEF h
  <2>1. ASSUME NEW i \in 1 .. n, f[i - 1] = h[i - 1] PROVE f[i] = h[i]
    <3>1. f[i] = f[i - 1] \o s[i].delta
      BY <1>4
    <3>2. h[i] = h[i - 1] \o s[i].delta
      BY <1>7
    <3>3. QED
      BY <2>1, <3>1, <3>2, Zenon
  <2>2. f[0] = h[0]
    BY <1>3, <1>7
  <2>3. \A i \in 0 .. n : f[i] = h[i]
    <3> HIDE DEF n
    <3>1. SameSteps(n, f, h)
      BY <1>1, <2>1, <2>2 DEF SameSteps
    <3>2. Same(n, f, h)
      BY <3>1, SameFrom
    <3>3. QED
      BY <3>2 DEF Same
  <2>4. QED
    BY <1>3, <1>6, <2>3
<1>9. QED
  BY <1>7, <1>8

\* One more turn.
LEMMA LengthsAppend ==
    ASSUME NEW s \in Seq(TurnRow), NEW r \in TurnRow
    PROVE  C!Lengths(Append(s, r))[Len(s) + 1] = C!Lengths(s)[Len(s)] + Len(r.delta)
<1> DEFINE n == Len(s)
           t == Append(s, r)
           f == C!Lengths(s)
           g == C!Lengths(t)
<1>1. n \in Nat /\ t \in Seq(TurnRow) /\ Len(t) = n + 1 /\ t[n + 1] = r /\ \A i \in 1 .. n : t[i] = s[i]
  OBVIOUS
<1>2. f[0] = 0 /\ \A i \in 1 .. n : f[i] = f[i - 1] + Len(s[i].delta)
  BY LengthsUnfold
<1>3. g[0] = 0 /\ \A i \in 1 .. n + 1 : g[i] = g[i - 1] + Len(t[i].delta)
  <2> HIDE DEF t
  <2> QED
    BY <1>1, LengthsUnfold
<1> HIDE DEF f, g, t, n
<1>4. f[0] = g[0] /\ \A i \in 1 .. n : f[i - 1] = g[i - 1] => f[i] = g[i]
  <2>1. ASSUME NEW i \in 1 .. n, f[i - 1] = g[i - 1] PROVE f[i] = g[i]
    <3>1. i \in 1 .. n + 1
      BY <1>1
    <3>2. QED
      BY <1>1, <1>2, <1>3, <2>1, <3>1
  <2>2. QED
    BY <1>2, <1>3, <2>1
<1>5. f[n] = g[n]
  <2>1. \A i \in 0 .. n : f[i] = g[i]
    <3>1. SameSteps(n, f, g)
      BY <1>1, <1>4 DEF SameSteps
    <3>2. Same(n, f, g)
      BY <3>1, SameFrom
    <3>3. QED
      BY <3>2 DEF Same
  <2>2. n \in 0 .. n
    BY <1>1
  <2>3. QED
    BY <2>1, <2>2
<1>6. g[n + 1] = g[n] + Len(r.delta)
  <2>1. PICK j \in 1 .. n + 1 : j = n + 1
    BY <1>1
  <2>2. j - 1 = n /\ t[j] = r
    BY <1>1, <2>1
  <2>3. g[j] = g[j - 1] + Len(t[j].delta)
    BY <1>3
  <2>4. QED
    BY <2>1, <2>2, <2>3
<1>7. QED
  BY <1>5, <1>6 DEF f, g, t, n

\* One more turn.
LEMMA JoinsAppend ==
    ASSUME NEW s \in Seq(TurnRow), NEW r \in TurnRow
    PROVE  C!Joins(Append(s, r))[Len(s) + 1] = C!Joins(s)[Len(s)] \o r.delta
<1> DEFINE n == Len(s)
           t == Append(s, r)
           f == C!Joins(s)
           g == C!Joins(t)
<1>1. n \in Nat /\ t \in Seq(TurnRow) /\ Len(t) = n + 1 /\ t[n + 1] = r /\ \A i \in 1 .. n : t[i] = s[i]
  OBVIOUS
<1>2. f[0] = << >> /\ \A i \in 1 .. n : f[i] = f[i - 1] \o s[i].delta
  BY JoinsUnfold
<1>3. g[0] = << >> /\ \A i \in 1 .. n + 1 : g[i] = g[i - 1] \o t[i].delta
  <2> HIDE DEF t
  <2> QED
    BY <1>1, JoinsUnfold
<1> HIDE DEF f, g, t, n
<1>4. f[0] = g[0] /\ \A i \in 1 .. n : f[i - 1] = g[i - 1] => f[i] = g[i]
  <2>1. ASSUME NEW i \in 1 .. n, f[i - 1] = g[i - 1] PROVE f[i] = g[i]
    <3>1. i \in 1 .. n + 1
      BY <1>1
    <3>2. QED
      BY <1>1, <1>2, <1>3, <2>1, <3>1
  <2>2. QED
    BY <1>2, <1>3, <2>1
<1>5. f[n] = g[n]
  <2>1. \A i \in 0 .. n : f[i] = g[i]
    <3>1. SameSteps(n, f, g)
      BY <1>1, <1>4 DEF SameSteps
    <3>2. Same(n, f, g)
      BY <3>1, SameFrom
    <3>3. QED
      BY <3>2 DEF Same
  <2>2. n \in 0 .. n
    BY <1>1
  <2>3. QED
    BY <2>1, <2>2
<1>6. g[n + 1] = g[n] \o r.delta
  <2>1. PICK j \in 1 .. n + 1 : j = n + 1
    BY <1>1
  <2>2. j - 1 = n /\ t[j] = r
    BY <1>1, <2>1
  <2>3. g[j] = g[j - 1] \o t[j].delta
    BY <1>3
  <2>4. QED
    BY <2>1, <2>2, <2>3
<1>7. QED
  BY <1>5, <1>6 DEF f, g, t, n

-----------------------------------------------------------------------------
(* Types.                                                                  *)

LEMMA RequestTypes ==
    ASSUME NEW c \in Capture, NEW r \in Asked[c]
    PROVE  r.messages \in Seq(C!Message) /\ r.prompts \in [Column -> C!Prompt]
<1>1. r \in C!Request
  BY ConversationAssumption DEF Capture, C!Capture
<1>2. QED
  BY <1>1 DEF C!Request, Column

LEMMA ConInit == C!Init => ConTypes
<1> SUFFICES ASSUME C!Init PROVE ConTypes
  OBVIOUS
<1>1. turns \in Seq(TurnRow) /\ events \in Seq(EventRow)
  BY DEF C!Init
<1>2. stage \in [Capture -> Ahead \cup Written \cup C!Ended] /\ \A c \in Capture : stage[c] = "idle"
  BY DEF C!Init, Capture, C!Ended
<1>3. /\ next \in [Conn -> Nat] /\ req \in [Capture -> Seq(C!Message) \cup {None}]
      /\ prompts \in [Capture -> [Column -> C!Prompt] \cup {None}]
  BY DEF C!Init, Capture
<1>4. /\ seq \in [Capture -> Nat] /\ from \in [Capture -> Nat \ {0}]
      /\ column \in [Capture -> Column]
  BY DEF C!Init, Capture, Column, C!Column
<1>5. DOMAIN new = Capture
  BY DEF C!Init, Capture
<1>6. "idle" \notin Written /\ session = None
  BY DEF C!Init, Written
<1>7. QED
  BY <1>1, <1>2, <1>3, <1>4, <1>5, <1>6 DEF ConTypes

\* What a turn and its session row are made of.
LEMMA WriteTypes ==
    ASSUME ConTypes, NEW c \in Capture, stage[c] = "write"
    PROVE  /\ C!WithSession(c) \in C!Row
           /\ C!WithTurn(c) \in Seq(TurnRow)
<1>1. req[c] \in Seq(C!Message) /\ prompts[c] \in [Column -> C!Prompt] /\ from[c] \in Nat \ {0}
  BY DEF ConTypes
<1>2. C!Hashes(c) \in [Column -> Baseline]
  BY <1>1 DEF C!Hashes, Column, Baseline
<1>3. SubSeq(req[c], from[c], Len(req[c])) \in Seq(C!Message)
  <2>1. \A i \in from[c] .. Len(req[c]) : req[c][i] \in C!Message
    BY <1>1
  <2>2. QED
    BY <1>1, <2>1, SubSeqProperties
<1>4. C!Supplied(c) \in SUBSET C!Filled
  BY DEF C!Supplied, C!Filled
<1>5. C!NewRow(c) \in C!Row
  BY <1>2, <1>4 DEF C!NewRow, C!Row, Baseline, Column
<1>6. C!OldRow \in C!Row
  BY DEF C!OldRow, C!Row, C!Filled
<1>7. C!WithSession(c) \in C!Row
  BY <1>5, <1>6 DEF C!WithSession, ConTypes
<1>8. [capture |-> c, req |-> req[c], hash |-> C!Hashes(c),
       delta |-> SubSeq(req[c], from[c], Len(req[c]))] \in TurnRow
  BY <1>1, <1>2, <1>3 DEF TurnRow
<1>9. QED
  BY <1>7, <1>8 DEF C!WithTurn, ConTypes

\* What a resolution writes that read the count of the connection as known
\* and that of the turns as max.
Resolves(c, k, r, known, max) ==
    /\ req' = [req EXCEPT ![c] = r.messages]
    /\ prompts' = [prompts EXCEPT ![c] = r.prompts]
    /\ seq' = [seq EXCEPT ![c] = (IF known = 0 THEN max ELSE known) + 1]
    /\ new' = [new EXCEPT ![c] = known = 0 /\ max = 0]
    /\ misread' = (misread \/ (known = 0 /\ max # Len(turns)))
    /\ returned' = (returned \/ (last # k /\ known # 0))
    /\ next' = [next EXCEPT ![k] = seq'[c]]
    /\ last' = k

LEMMA Resolution ==
    ASSUME NEW c \in Capture, C!Resolve(c)
    PROVE  \E k \in Conn, r \in Asked[c] :
            \E known \in {next[k], 0}, max \in {Len(turns), 0} :
                Resolves(c, k, r, known, max)
<1>1. PICK k \in Conn, r \in Asked[c] :
        /\ \A d \in C!Running : conn[d] # k
        /\ conn' = [conn EXCEPT ![c] = k]
        /\ req' = [req EXCEPT ![c] = r.messages]
        /\ prompts' = [prompts EXCEPT ![c] = r.prompts]
        /\ \E known \in {next[k], 0} :
            /\ \E max \in {Len(turns)} \cup (IF failures < MaxFailures THEN {0} ELSE {}) :
                /\ seq' = [seq EXCEPT ![c] = (IF known = 0 THEN max ELSE known) + 1]
                /\ new' = [new EXCEPT ![c] = known = 0 /\ max = 0]
                /\ misread' = (misread \/ (known = 0 /\ max # Len(turns)))
                /\ failures' = IF max = Len(turns) THEN failures ELSE failures + 1
            /\ returned' = (returned \/ (last # k /\ known # 0))
        /\ next' = [next EXCEPT ![k] = seq'[c]]
        /\ last' = k
  BY Zenon DEF C!Resolve
<1>2. PICK known \in {next[k], 0} :
        /\ \E max \in {Len(turns)} \cup (IF failures < MaxFailures THEN {0} ELSE {}) :
            /\ seq' = [seq EXCEPT ![c] = (IF known = 0 THEN max ELSE known) + 1]
            /\ new' = [new EXCEPT ![c] = known = 0 /\ max = 0]
            /\ misread' = (misread \/ (known = 0 /\ max # Len(turns)))
            /\ failures' = IF max = Len(turns) THEN failures ELSE failures + 1
        /\ returned' = (returned \/ (last # k /\ known # 0))
  BY <1>1, Zenon
<1>3. PICK max \in {Len(turns)} \cup (IF failures < MaxFailures THEN {0} ELSE {}) :
        /\ seq' = [seq EXCEPT ![c] = (IF known = 0 THEN max ELSE known) + 1]
        /\ new' = [new EXCEPT ![c] = known = 0 /\ max = 0]
        /\ misread' = (misread \/ (known = 0 /\ max # Len(turns)))
  BY <1>2, Zenon
<1>4. max \in {Len(turns), 0}
  OBVIOUS
<1>5. Resolves(c, k, r, known, max)
  BY <1>1, <1>2, <1>3 DEF Resolves
<1>6. QED
  BY <1>4, <1>5, Zenon

LEMMA NextTypes ==
    ASSUME ConTypes, C!Next
    PROVE  ConTypes'
<1> PICK c \in Capture :
        \/ C!Resolve(c) \/ C!ReadPrefix(c) \/ C!ReadPrefixFails(c)
        \/ C!WriteTurn(c) \/ C!WriteFails(c) \/ C!Upkeep(c)
        \/ C!Compare(c) \/ C!Tell(c) \/ C!Move(c) \/ C!DriftFails(c)
  BY DEF C!Next, Capture
<1> USE DEF C!Goto, C!Ended, Ahead, Written
<1>1. CASE C!Resolve(c)
  <2>conn. PICK k \in Conn, r \in Asked[c] :
            \E known \in {next[k], 0}, max \in {Len(turns), 0} : Resolves(c, k, r, known, max)
    BY <1>1, Resolution, Zenon
  <2>0. PICK known \in {next[k], 0}, max \in {Len(turns), 0} : Resolves(c, k, r, known, max)
    BY <2>conn, Zenon
  <2>1. /\ req' = [req EXCEPT ![c] = r.messages]
        /\ prompts' = [prompts EXCEPT ![c] = r.prompts]
        /\ new' = [new EXCEPT ![c] = known = 0 /\ max = 0]
        /\ next' = [next EXCEPT ![k] = seq'[c]]
    BY <2>0 DEF Resolves
  <2>2. PICK n \in Nat : seq' = [seq EXCEPT ![c] = n]
    <3>1. seq' = [seq EXCEPT ![c] = (IF known = 0 THEN max ELSE known) + 1]
      BY <2>0 DEF Resolves
    <3>2. next[k] \in Nat /\ Len(turns) \in Nat
      BY DEF ConTypes
    <3>3. (IF known = 0 THEN max ELSE known) + 1 \in Nat
      BY <2>0, <3>2
    <3>4. QED
      BY <3>1, <3>3
  <2>3. r.messages \in Seq(C!Message) /\ r.prompts \in [Column -> C!Prompt]
    BY RequestTypes
  <2>4. stage' = [stage EXCEPT ![c] = "resolved"]
        /\ UNCHANGED << turns, session, events, from, column >>
    BY <1>1 DEF C!Resolve, C!rows
  <2>5. seq' \in [Capture -> Nat] /\ seq'[c] = n
    BY <2>2 DEF ConTypes
  <2>6. next' \in [Conn -> Nat]
    BY <2>1, <2>5 DEF ConTypes
  <2>7. DOMAIN new' = Capture
    BY <2>1 DEF ConTypes
  <2>8. QED
    BY <2>1, <2>3, <2>4, <2>5, <2>6, <2>7 DEF ConTypes
<1>2. CASE C!ReadPrefix(c)
  <2>1. stage[c] = "resolved" /\ stage' = [stage EXCEPT ![c] = "write"]
        /\ UNCHANGED << turns, session, events, next, req, prompts, seq, new, column >>
    BY <1>2 DEF C!ReadPrefix, C!rows, C!request
  <2>2. Len(turns) \in Nat /\ C!Lengths(turns) \in [0 .. Len(turns) -> Nat]
    BY LengthsUnfold DEF ConTypes
  <2>3. \A n \in Nat : C!LengthUpTo(n) \in Nat
    BY <2>2 DEF C!LengthUpTo
  <2>4. ASSUME NEW n \in Nat PROVE C!Before(n) \in Nat
    <3>1. C!LengthUpTo(n) \in Nat
      BY <2>3
    <3>2. C!LengthUpTo(n) > 0 => C!LengthUpTo(n) - 1 \in Nat
      BY <3>1
    <3>3. QED
      BY <3>1, <3>2 DEF C!Before
  <2>5. Len(req[c]) \in Nat
    BY <2>1 DEF ConTypes
  <2>6. \A n \in Nat : C!FirstNew(n, Len(req[c])) \in Nat \ {0}
    BY <2>5 DEF C!FirstNew
  <2>7. from' \in [Capture -> Nat \ {0}]
    <3>1. seq[c] \in Nat /\ from \in [Capture -> Nat \ {0}]
      BY DEF ConTypes
    <3> DEFINE n == IF seq[c] <= 1 \/ turns = << >> THEN 1
                    ELSE C!FirstNew(C!Before(seq[c]), Len(req[c]))
    <3>2. n \in Nat \ {0}
      <4>1. C!Before(seq[c]) \in Nat
        BY <2>4, <3>1
      <4>2. C!FirstNew(C!Before(seq[c]), Len(req[c])) \in Nat \ {0}
        BY <2>6, <4>1
      <4>3. 1 \in Nat \ {0}
        OBVIOUS
      <4>4. QED
        BY <4>2, <4>3, Zenon
    <3>3. from' = [from EXCEPT ![c] = n]
      BY <1>2 DEF C!ReadPrefix
    <3> HIDE DEF n
    <3>4. QED
      BY <3>1, <3>2, <3>3
  <2>8. QED
    BY <2>1, <2>7 DEF ConTypes
<1>3. CASE C!ReadPrefixFails(c)
  BY <1>3 DEF C!ReadPrefixFails, ConTypes, C!rows, C!request
<1>4. CASE C!WriteTurn(c)
  BY <1>4, WriteTypes DEF C!WriteTurn, ConTypes, C!request, C!local, C!history
<1>5. CASE C!WriteFails(c)
  BY <1>5, WriteTypes DEF C!WriteFails, ConTypes, C!request, C!local
<1>6. CASE C!Upkeep(c)
  <2>1. stage[c] = "upkeep" /\ stage' = [stage EXCEPT ![c] = "compare"]
        /\ UNCHANGED << turns, events, next, req, prompts, seq, new, from, column >>
    BY <1>6 DEF C!Upkeep, C!request, C!local
  <2>2. session \in C!Row
    BY <2>1 DEF ConTypes
  <2>3. C!Supplied(c) \in SUBSET C!Filled
    BY DEF C!Supplied, C!Filled
  <2>4. session' \in C!Row
    <3>1. C!Backfilled(c, session) \in SUBSET C!Filled
      BY <2>2, <2>3 DEF C!Backfilled, C!Row
    <3>2. CASE session' = [session EXCEPT !.total = @ + 1,
                                          !.filled = C!Backfilled(c, session)]
      <4>1. session.total + 1 \in Nat
        BY <2>2 DEF C!Row
      <4>2. QED
        BY <2>2, <3>1, <3>2, <4>1 DEF C!Row
    <3>3. ASSUME NEW add \in 0 .. 1, NEW fill \in SUBSET C!Backfilled(c, session),
                 session' = [session EXCEPT !.total = @ + add, !.filled = @ \cup fill]
          PROVE  session' \in C!Row
      <4>1. session.total + add \in Nat /\ session.filled \cup fill \in SUBSET C!Filled
        BY <2>2, <3>1 DEF C!Row
      <4>2. QED
        BY <2>2, <3>3, <4>1 DEF C!Row
    <3>4. QED
      BY <1>6, <3>2, <3>3 DEF C!Upkeep
  <2>5. QED
    BY <2>1, <2>4 DEF ConTypes
<1>7. CASE C!Compare(c)
  BY <1>7 DEF C!Compare, C!Following, ConTypes, C!rows, C!request, C!history, Column, C!Column
<1>8. CASE C!Tell(c)
  <2>1. C!Event(c) \in EventRow
    BY <1>8 DEF C!Tell, C!Event, EventRow, C!Hash, ConTypes
  <2>2. QED
    BY <1>8, <2>1 DEF C!Tell, ConTypes, C!request, C!history, C!local
<1>9. CASE C!Move(c)
  <2>1. session \in C!Row /\ column[c] \in Column /\ C!Hash(c) \in C!Prompt
    BY <1>9 DEF C!Move, ConTypes, C!Hash
  <2>2. session' \in C!Row
    BY <1>9, <2>1 DEF C!Move, C!Row, Column
  <2>3. QED
    BY <1>9, <2>2 DEF C!Move, C!Following, ConTypes, C!request, C!history, Column, C!Column
<1>10. CASE C!DriftFails(c)
  BY <1>10 DEF C!DriftFails, C!Following, ConTypes, C!rows, C!request, Column, C!Column
<1>11. QED
  BY <1>1, <1>2, <1>3, <1>4, <1>5, <1>6, <1>7, <1>8, <1>9, <1>10

\* A step of the other parts.
LEMMA ConSame ==
    ASSUME ConTypes, UNCHANGED conversationVars
    PROVE  ConTypes'
BY DEF ConTypes, conversationVars

\* The session, its turns and its captures keep their types: in particular a
\* capture that is past the writing of its turn finds the row of its session
\* (write_capture, then update_session_totals).
THEOREM ConversationTyped == PartsSpec => []ConTypes
<1>1. PartsInit => ConTypes
  BY ConInit DEF PartsInit
<1>2. ASSUME ConTypes, [PartsNext]_allVars PROVE ConTypes'
  <2>1. C!Next \/ UNCHANGED conversationVars
    BY <1>2 DEF PartsNext, allVars, conversationVars
  <2>2. QED
    BY <1>2, <2>1, NextTypes, ConSame
<1>3. QED
  BY <1>1, <1>2, PTL DEF PartsSpec

-----------------------------------------------------------------------------
(* The events of drift.                                                    *)

\* An event tells of hash h of column k.
Tells(k, h) == \E i \in DOMAIN events : events[i].column = k /\ events[i].new = h

Telling == \A c \in Capture : stage[c] = "move" => Tells(column[c], C!Hash(c))

TellInv == ConTypes /\ Telling

\* Events stay.
LEMMA TellsKept ==
    ASSUME ConTypes, NEW k, NEW h, Tells(k, h), NEW e,
           events' = events \/ events' = Append(events, e)
    PROVE  Tells(k, h)'
<1>1. PICK i \in DOMAIN events : events[i].column = k /\ events[i].new = h
  BY DEF Tells
<1>2. i \in DOMAIN events' /\ events'[i] = events[i]
  <2>1. CASE events' = events
    BY <1>1, <2>1
  <2>2. CASE events' = Append(events, e)
    <3>1. events \in Seq(EventRow) /\ i \in 1 .. Len(events)
      BY <1>1 DEF ConTypes
    <3>2. events \in Seq(EventRow \cup {e}) /\ e \in EventRow \cup {e}
      BY <3>1
    <3>3. QED
      BY <2>2, <3>1, <3>2, AppendProperties
  <2>3. QED
    BY <2>1, <2>2
<1>3. QED
  BY <1>1, <1>2 DEF Tells

\* Who does not move to "move" and keeps its column and prompts.
LEMMA TellStep ==
    ASSUME TellInv, C!Next
    PROVE  Telling'
<1> PICK c \in Capture :
        \/ C!Resolve(c) \/ C!ReadPrefix(c) \/ C!ReadPrefixFails(c)
        \/ C!WriteTurn(c) \/ C!WriteFails(c) \/ C!Upkeep(c)
        \/ C!Compare(c) \/ C!Tell(c) \/ C!Move(c) \/ C!DriftFails(c)
  BY DEF C!Next, Capture
<1> USE DEF C!Goto, TellInv
<1>1. /\ events' = events \/ events' = Append(events, C!Event(c))
      /\ \A d \in Capture : d # c =>
            stage'[d] = stage[d] /\ column'[d] = column[d] /\ prompts'[d] = prompts[d]
  BY DEF C!Resolve, C!ReadPrefix, C!ReadPrefixFails, C!WriteTurn, C!WriteFails, C!Upkeep,
     C!Compare, C!Tell, C!Move, C!DriftFails, C!Following, C!rows, C!request, C!local, ConTypes
<1>2. ASSUME NEW d \in Capture, d # c, stage'[d] = "move"
      PROVE  Tells(column[d], C!Hash(d))'
  <2>1. column'[d] = column[d] /\ C!Hash(d)' = C!Hash(d) /\ stage[d] = "move"
    BY <1>1, <1>2 DEF C!Hash
  <2>2. Tells(column[d], C!Hash(d))
    BY <2>1 DEF Telling
  <2> DEFINE k == column[d]
             h == C!Hash(d)
  <2>3. \A x, y : Tells(x, y) => Tells(x, y)'
    BY <1>1, TellsKept
  <2>4. QED
    BY <2>1, <2>2, <2>3 DEF Tells
<1>3. ASSUME stage'[c] = "move" PROVE C!Tell(c)
  BY <1>3 DEF C!Resolve, C!ReadPrefix, C!ReadPrefixFails, C!WriteTurn, C!WriteFails, C!Upkeep,
     C!Compare, C!Tell, C!Move, C!DriftFails, C!Following, ConTypes
<1>4. ASSUME C!Tell(c) PROVE Tells(column[c], C!Hash(c))'
  <2>1. events' = Append(events, C!Event(c)) /\ UNCHANGED << column, prompts >>
    BY <1>4 DEF C!Tell, C!request, C!local
  <2>2. C!Event(c).column = column[c] /\ C!Event(c).new = C!Hash(c)
    BY DEF C!Event
  <2>3. C!Hash(c)' = C!Hash(c)
    BY <2>1 DEF C!Hash
  <2>4. Len(events) + 1 \in DOMAIN events' /\ events'[Len(events) + 1] = C!Event(c)
    BY <2>1 DEF ConTypes
  <2>5. QED
    BY <2>1, <2>2, <2>3, <2>4 DEF Tells
<1>5. QED
  BY <1>2, <1>3, <1>4 DEF Telling

\* A baseline moves in Move only.
LEMMA BaselineMoves ==
    ASSUME TellInv, C!Next, session # None, NEW k \in C!Column,
           session'.hash[k] # session.hash[k]
    PROVE  \E i \in DOMAIN events : events[i].column = k /\ events[i].new = session'.hash[k]
<1> PICK c \in Capture :
        \/ C!Resolve(c) \/ C!ReadPrefix(c) \/ C!ReadPrefixFails(c)
        \/ C!WriteTurn(c) \/ C!WriteFails(c) \/ C!Upkeep(c)
        \/ C!Compare(c) \/ C!Tell(c) \/ C!Move(c) \/ C!DriftFails(c)
  BY DEF C!Next, Capture
<1>1. session \in C!Row
  BY DEF TellInv, ConTypes
<1>2. CASE C!Upkeep(c)
  <2>1. session'.hash = session.hash
    BY <1>1, <1>2 DEF C!Upkeep, C!Row
  <2>2. QED
    BY <2>1
<1>3. CASE C!Move(c)
  <2>1. session' = [session EXCEPT !.hash[column[c]] = C!Hash(c)] /\ stage[c] = "move"
    BY <1>3 DEF C!Move
  <2>2. session'.hash = [session.hash EXCEPT ![column[c]] = C!Hash(c)]
    BY <1>1, <2>1 DEF C!Row
  <2>3. k = column[c] /\ session'.hash[k] = C!Hash(c)
    BY <1>1, <2>2 DEF C!Row
  <2>4. Tells(column[c], C!Hash(c))
    BY <2>1 DEF TellInv, Telling
  <2>5. QED
    BY <2>3, <2>4 DEF Tells
<1>4. QED
  <2>1. session' = session \/ C!Upkeep(c) \/ C!Move(c)
    BY DEF C!Resolve, C!ReadPrefix, C!ReadPrefixFails, C!WriteTurn, C!WriteFails,
     C!WithSession, C!Compare, C!Tell, C!DriftFails, C!rows
  <2>2. QED
    BY <1>2, <1>3, <2>1

\* Whatever statements fail and whichever captures run at the same time, a
\* baseline never moves to a hash of which no event was inserted: the event
\* comes first, and the update is skipped when it fails (record_drift_event).
THEOREM DriftAlwaysTold == PartsSpec => DriftIsTold
<1>1. PartsInit => TellInv
  BY ConInit DEF PartsInit, TellInv, Telling, C!Init, Capture
<1>2. ASSUME TellInv, [PartsNext]_allVars PROVE TellInv'
  <2>1. CASE C!Next
    BY <1>2, <2>1, NextTypes, TellStep DEF TellInv
  <2>2. CASE UNCHANGED conversationVars
    <3>1. UNCHANGED << stage, column, prompts, events >>
      BY <2>2 DEF conversationVars
    <3>2. Telling'
      BY <1>2, <3>1 DEF TellInv, Telling, Tells, C!Hash
    <3>3. QED
      BY <1>2, <2>2, <3>2, ConSame DEF TellInv
  <2>3. QED
    BY <1>2, <2>1, <2>2 DEF PartsNext, allVars, conversationVars
<1> DEFINE Told ==
        session # None =>
            \A k \in C!Column : session'.hash[k] # session.hash[k] =>
                \E i \in DOMAIN events :
                    events[i].column = k /\ events[i].new = session'.hash[k]
<1>3. ASSUME TellInv, [PartsNext]_allVars PROVE [Told]_C!vars
  <2>1. CASE C!Next
    BY <1>3, <2>1, BaselineMoves
  <2>2. CASE UNCHANGED conversationVars
    BY <2>2 DEF conversationVars, C!vars, C!rows, C!request, C!local, C!history
  <2>3. QED
    BY <1>3, <2>1, <2>2 DEF PartsNext, allVars, conversationVars
<1>4. QED
  BY <1>1, <1>2, <1>3, PTL DEF PartsSpec, DriftIsTold, C!DriftIsTold

-----------------------------------------------------------------------------
(* The deltas of a conversation.                                           *)

Runs(c) == stage[c] \notin C!Ended

\* At most one capture is under way.
Alone == \A c, d \in Capture : Runs(c) /\ Runs(d) => c = d

\* The connection of the last capture knows the number of the last turn.
Knows == \A k \in Conn : last = k => next[k] >= Len(turns)

\* The number of a turn that is not written yet is a new one.
IsAhead(c) ==
    stage[c] \in Ahead =>
        seq[c] > Len(turns) /\ \A k \in Conn : last = k => next[k] = seq[c]

\* Length of all deltas.
Recorded == C!Lengths(turns)[Len(turns)]

Cuts(c) ==
    stage[c] = "write" =>
        from[c] = IF turns = << >> THEN 1 ELSE C!FirstNew(Recorded, Len(req[c]))

Whole ==
    C!Growing /\ turns # << >> =>
        C!Deltas = turns[Len(turns)].req /\ Recorded = Len(turns[Len(turns)].req)

Calm == mixed = {} /\ ~returned /\ ~misread

CalmInv == Knows /\ Whole /\ \A c \in Capture : IsAhead(c) /\ Cuts(c)

OnceInv == ConTypes /\ (mixed = {} => Alone) /\ (Calm => CalmInv)

\* A sequence is its beginning and its rest.
LEMMA SplitSeq ==
    ASSUME NEW V, NEW s \in Seq(V), NEW l \in 0 .. Len(s)
    PROVE  /\ SubSeq(s, 1, l) \o SubSeq(s, l + 1, Len(s)) = s
           /\ SubSeq(s, 1, Len(s)) = s
           /\ Len(SubSeq(s, l + 1, Len(s))) = Len(s) - l
<1> DEFINE x == SubSeq(s, 1, l)
           y == SubSeq(s, l + 1, Len(s))
           z == SubSeq(s, 1, Len(s))
<1>1. Len(s) \in Nat /\ \A i \in 1 .. Len(s) : s[i] \in V
  OBVIOUS
<1>2. x \in Seq(V) /\ Len(x) = l /\ \A i \in 1 .. l : x[i] = s[i]
  BY <1>1, SubSeqProperties
<1>3. y \in Seq(V) /\ Len(y) = Len(s) - l /\ \A i \in 1 .. Len(s) - l : y[i] = s[l + i]
  BY <1>1, SubSeqProperties
<1>4. z \in Seq(V) /\ Len(z) = Len(s) /\ \A i \in 1 .. Len(s) : z[i] = s[i]
  BY <1>1, SubSeqProperties
<1> HIDE DEF x, y, z
<1>5. x \o y \in Seq(V) /\ Len(x \o y) = Len(s)
  BY <1>1, <1>2, <1>3
<1>6. \A i \in 1 .. Len(s) : (x \o y)[i] = s[i]
  <2> TAKE i \in 1 .. Len(s)
  <2>1. CASE i <= l
    <3>1. i \in 1 .. l
      BY <1>1, <2>1
    <3>2. (x \o y)[i] = x[i]
      BY <1>1, <1>2, <1>3, <3>1
    <3>3. QED
      BY <1>2, <3>1, <3>2
  <2>2. CASE i > l
    <3>1. i - l \in 1 .. Len(s) - l /\ l + (i - l) = i
      BY <1>1, <2>2
    <3>2. (x \o y)[i] = y[i - l]
      BY <1>1, <1>2, <1>3, <2>2
    <3>3. y[i - l] = s[l + (i - l)]
      BY <1>3, <3>1
    <3>4. QED
      BY <3>1, <3>2, <3>3
  <2>3. i <= l \/ i > l
    BY <1>1
  <2>4. QED
    BY <2>1, <2>2, <2>3, Zenon
<1>7. x \o y = s
  BY <1>1, <1>5, <1>6, SeqEqual
<1>8. z = s
  BY <1>1, <1>4, SeqEqual
<1>9. QED
  BY <1>3, <1>7, <1>8 DEF x, y, z

\* The delta of the next turn completes the deltas to its request.
LEMMA WholeKept ==
    ASSUME ConTypes, Whole, NEW c \in Capture, stage[c] = "write", Cuts(c),
           turns' = C!WithTurn(c)
    PROVE  Whole'
<1> DEFINE n == Len(turns)
           q == req[c]
           delta == SubSeq(q, from[c], Len(q))
           r == [capture |-> c, req |-> q, hash |-> C!Hashes(c), delta |-> delta]
           t == Append(turns, r)
<1>1. /\ turns \in Seq(TurnRow) /\ n \in Nat /\ q \in Seq(C!Message) /\ Len(q) \in Nat
      /\ turns' = t /\ t \in Seq(TurnRow)
  <2>1. turns \in Seq(TurnRow) /\ q \in Seq(C!Message)
    BY DEF ConTypes
  <2>2. n \in Nat /\ Len(q) \in Nat
    BY <2>1
  <2>3. C!WithTurn(c) = t
    BY Zenon DEF C!WithTurn
  <2>4. C!WithTurn(c) \in Seq(TurnRow)
    BY WriteTypes
  <2>5. QED
    BY <2>1, <2>2, <2>3, <2>4, Zenon
<1>2. r \in TurnRow
  <2>1. t[n + 1] = r /\ Len(t) = n + 1
    BY <1>1
  <2>2. QED
    BY <1>1, <2>1
<1>3. Len(t) = n + 1 /\ t[n + 1] = r /\ r.req = q /\ r.delta = delta /\ \A i \in 1 .. n : t[i] = turns[i]
  <2>1. r.req = q /\ r.delta = delta
    OBVIOUS
  <2> HIDE DEF r
  <2>2. QED
    BY <1>1, <1>2, <2>1
<1>4. C!Joins(t)[n + 1] = C!Joins(turns)[n] \o delta
  <2>1. C!Joins(t)[n + 1] = C!Joins(turns)[n] \o r.delta
    BY <1>1, <1>2, JoinsAppend
  <2>2. QED
    BY <1>3, <2>1
<1>5. C!Lengths(t)[n + 1] = C!Lengths(turns)[n] + Len(delta)
  <2>1. C!Lengths(t)[n + 1] = C!Lengths(turns)[n] + Len(r.delta)
    BY <1>1, <1>2, LengthsAppend
  <2>2. QED
    BY <1>3, <2>1
<1> HIDE DEF t, r, delta, q
<1>6. SUFFICES ASSUME C!Growing' PROVE C!Joins(t)[n + 1] = q /\ C!Lengths(t)[n + 1] = Len(q)
  BY <1>1, <1>3 DEF Whole, Recorded, C!Deltas
<1>7. CASE turns = << >>
  <2>1. from[c] = 1 /\ n = 0
    BY <1>7 DEF Cuts
  <2>2. delta = q
    BY <1>1, <2>1, SplitSeq DEF delta, q
  <2>3. C!Joins(turns)[0] = << >> /\ C!Lengths(turns)[0] = 0
    BY <1>1, JoinsUnfold, LengthsUnfold
  <2>4. << >> \o q = q
    BY <1>1
  <2>5. QED
    BY <1>1, <1>4, <1>5, <2>1, <2>2, <2>3, <2>4
<1>8. CASE turns # << >>
  <2> DEFINE l == Len(turns[n].req)
  <2>1. n \in 1 .. n /\ n >= 1 /\ turns[n] \in TurnRow
    BY <1>1, <1>8
  <2>2. turns[n].req \in Seq(C!Message) /\ l \in Nat
    BY <2>1 DEF TurnRow
  <2>3. \A i \in 1 .. n : Len(t[i].req) < Len(t[i + 1].req) /\ t[i].req = SubSeq(t[i + 1].req, 1, Len(t[i].req))
    BY <1>1, <1>3, <1>6 DEF C!Growing
  <2>4. C!Growing
    <3>1. ASSUME NEW i \in 1 .. Len(turns) - 1
          PROVE  /\ Len(turns[i].req) < Len(turns[i + 1].req)
                 /\ turns[i].req = SubSeq(turns[i + 1].req, 1, Len(turns[i].req))
      <4>1. i \in 1 .. n /\ i + 1 \in 1 .. n
        BY <1>1
      <4>2. t[i] = turns[i] /\ t[i + 1] = turns[i + 1]
        BY <1>3, <4>1
      <4>3. QED
        BY <2>3, <4>1, <4>2
    <3>2. QED
      BY <3>1 DEF C!Growing
  <2>5. C!Joins(turns)[n] = turns[n].req /\ C!Lengths(turns)[n] = l
    BY <1>8, <2>4 DEF Whole, Recorded, C!Deltas
  <2>6. l < Len(q) /\ turns[n].req = SubSeq(q, 1, l)
    BY <1>3, <2>1, <2>3
  <2>7. from[c] = l + 1
    BY <1>1, <1>8, <2>2, <2>5, <2>6 DEF Cuts, Recorded, C!FirstNew, q
  <2>8. l \in 0 .. Len(q)
    BY <1>1, <2>2, <2>6
  <2>9. /\ SubSeq(q, 1, l) \o SubSeq(q, l + 1, Len(q)) = q
        /\ Len(SubSeq(q, l + 1, Len(q))) = Len(q) - l
    <3> HIDE DEF l
    <3> QED
      BY <1>1, <2>8, SplitSeq
  <2>10. delta = SubSeq(q, l + 1, Len(q))
    BY <2>7 DEF delta, q
  <2>11. C!Joins(t)[n + 1] = q
    BY <1>4, <2>5, <2>6, <2>9, <2>10
  <2>12. C!Lengths(t)[n + 1] = l + (Len(q) - l)
    BY <1>5, <2>5, <2>9, <2>10
  <2>13. QED
    BY <1>1, <2>2, <2>11, <2>12
<1>9. QED
  BY <1>7, <1>8

LEMMA CalmStep ==
    ASSUME OnceInv, C!Next
    PROVE  (mixed = {} => Alone)' /\ (Calm => CalmInv)'
<1> PICK c \in Capture :
        \/ C!Resolve(c) \/ C!ReadPrefix(c) \/ C!ReadPrefixFails(c)
        \/ C!WriteTurn(c) \/ C!WriteFails(c) \/ C!Upkeep(c)
        \/ C!Compare(c) \/ C!Tell(c) \/ C!Move(c) \/ C!DriftFails(c)
  BY DEF C!Next, Capture
<1> USE DEF C!Goto, C!Ended
<1>0. ConTypes /\ ConTypes'
  BY NextTypes DEF OnceInv
<1>1. CASE C!Resolve(c)
  <2>1. stage[c] = "idle" /\ stage' = [stage EXCEPT ![c] = "resolved"] /\ UNCHANGED turns
    BY <1>1 DEF C!Resolve, C!rows
  <2>2. SUFFICES ASSUME mixed' = {} PROVE Alone' /\ (Calm => CalmInv)'
    BY DEF Calm
  <2>3. C!Running = {} /\ mixed = {}
    BY <1>1, <2>2 DEF C!Resolve
  <2>4. \A d \in Capture : ~Runs(d)
    BY <2>3 DEF C!Running, Runs, Capture
  <2>5. \A d \in Capture : Runs(d)' => d = c
    BY <2>1, <2>4, <1>0 DEF Runs, ConTypes
  <2>6. Alone'
    BY <2>5 DEF Alone
  <2>7. ASSUME Calm' PROVE CalmInv'
    <3>conn. PICK k \in Conn, r \in Asked[c] :
            \E known \in {next[k], 0}, max \in {Len(turns), 0} : Resolves(c, k, r, known, max)
      BY <1>1, Resolution, Zenon
    <3>1. PICK known \in {next[k], 0}, max \in {Len(turns), 0} : Resolves(c, k, r, known, max)
      BY <3>conn, Zenon
    <3>2. /\ seq' = [seq EXCEPT ![c] = (IF known = 0 THEN max ELSE known) + 1]
          /\ misread' = (misread \/ (known = 0 /\ max # Len(turns)))
          /\ returned' = (returned \/ (last # k /\ known # 0))
          /\ next' = [next EXCEPT ![k] = seq'[c]]
          /\ last' = k
      BY <3>1 DEF Resolves
    <3>3. ~misread' /\ ~returned'
      BY <2>7 DEF Calm
    <3>4. ~misread /\ ~returned /\ (known = 0 => max = Len(turns)) /\ (known # 0 => last = k)
      BY <3>2, <3>3, Zenon
    <3>5. CalmInv
      BY <2>3, <3>4 DEF OnceInv, Calm
    <3>6. Len(turns) \in Nat /\ next[k] \in Nat
      BY <1>0 DEF ConTypes
    <3>7. (IF known = 0 THEN max ELSE known) >= Len(turns)
      <4>1. CASE known = 0
        BY <3>4, <3>6, <4>1
      <4>2. CASE known # 0
        <5>1. known = next[k] /\ last = k
          BY <3>1, <3>4, <4>2
        <5>2. QED
          BY <3>5, <4>2, <5>1 DEF CalmInv, Knows
      <4>3. QED
        BY <4>1, <4>2
    <3>8. seq'[c] = (IF known = 0 THEN max ELSE known) + 1
      BY <1>0, <3>2 DEF ConTypes
    <3>9. (IF known = 0 THEN max ELSE known) \in Nat
      BY <3>1, <3>6
    <3> DEFINE base == IF known = 0 THEN max ELSE known
    <3> HIDE DEF base
    <3>10. seq'[c] > Len(turns) /\ seq'[c] \in Nat
      BY <3>6, <3>7, <3>8, <3>9 DEF base
    <3>11. \A m \in Conn : last' = m => next'[m] = seq'[c]
      BY <1>0, <3>2 DEF ConTypes
    <3>12. \A d \in Capture : (IsAhead(d) /\ Cuts(d))'
      <4>1. \A d \in Capture : stage'[d] \in Ahead => d = c
        BY <2>5 DEF Ahead, Runs
      <4>2. stage'[c] # "write"
        BY <1>0, <2>1 DEF ConTypes
      <4>3. turns' = turns
        BY <2>1
      <4>4. QED
        BY <3>10, <3>11, <4>1, <4>2, <4>3 DEF IsAhead, Cuts, Ahead
    <3>13. Knows'
      BY <2>1, <3>6, <3>10, <3>11 DEF Knows
    <3>14. Whole'
      BY <2>1, <3>5 DEF CalmInv, Whole, Recorded, C!Growing, C!Deltas
    <3>15. QED
      BY <3>12, <3>13, <3>14 DEF CalmInv
  <2>8. QED
    BY <2>6, <2>7
<1>2. CASE ~C!Resolve(c)
  <2>1. Runs(c) /\ \A d \in Capture : d # c => stage'[d] = stage[d]
    BY <1>0, <1>2 DEF C!ReadPrefix, C!ReadPrefixFails, C!WriteTurn, C!WriteFails, C!Upkeep,
       C!Compare, C!Tell, C!Move, C!DriftFails, C!Following, Runs, ConTypes
  <2>2. UNCHANGED << mixed, returned, next, last, seq, req >>
    BY <1>2 DEF C!ReadPrefix, C!ReadPrefixFails, C!WriteTurn, C!WriteFails, C!Upkeep,
       C!Compare, C!Tell, C!Move, C!DriftFails, C!Following, C!request, C!history, C!local
  <2>3. SUFFICES ASSUME mixed' = {} PROVE Alone' /\ (Calm => CalmInv)'
    BY DEF Calm
  <2>4. Alone
    BY <2>2, <2>3 DEF OnceInv
  <2>5. \A d \in Capture : Runs(d)' => d = c
    <3>1. \A d \in Capture : d # c => ~Runs(d)
      BY <2>1, <2>4 DEF Alone
    <3>2. QED
      BY <2>1, <3>1 DEF Runs
  <2>6. Alone'
    BY <2>5 DEF Alone
  <2>7. ASSUME Calm' PROVE CalmInv'
    <3>1. \A d \in Capture : stage'[d] \in Ahead => d = c
      BY <2>5 DEF Ahead, Runs
    <3>2. ~C!ReadPrefixFails(c) /\ misread' = misread
      BY <1>2, <2>7 DEF Calm, C!ReadPrefix, C!ReadPrefixFails, C!WriteTurn, C!WriteFails,
         C!Upkeep, C!Compare, C!Tell, C!Move, C!DriftFails, C!history
    <3>3. CalmInv
      BY <2>2, <2>7, <3>2 DEF OnceInv, Calm
    <3>4. Len(turns) \in Nat /\ seq[c] \in Nat
      BY <1>0 DEF ConTypes
    <3>5. ASSUME turns' = turns, stage'[c] # "write",
                 stage'[c] \in Ahead => stage[c] \in Ahead
          PROVE  CalmInv'
      <4>1. Knows' /\ Whole'
        BY <2>2, <3>3, <3>5 DEF CalmInv, Knows, Whole, Recorded, C!Growing, C!Deltas
      <4>2. \A d \in Capture : IsAhead(d)'
        BY <2>2, <3>1, <3>3, <3>5 DEF CalmInv, IsAhead
      <4>3. \A d \in Capture : Cuts(d)'
        BY <3>1, <3>5 DEF Cuts, Ahead
      <4>4. QED
        BY <4>1, <4>2, <4>3 DEF CalmInv
    <3>6. CASE C!ReadPrefix(c)
      <4>1. /\ stage[c] = "resolved" /\ stage' = [stage EXCEPT ![c] = "write"]
            /\ from' = [from EXCEPT ![c] = IF seq[c] <= 1 \/ turns = << >> THEN 1
                                  ELSE C!FirstNew(C!Before(seq[c]), Len(req[c]))]
            /\ turns' = turns
        BY <3>6 DEF C!ReadPrefix, C!rows
      <4>2. seq[c] > Len(turns) /\ stage'[c] \in Ahead /\ stage[c] \in Ahead
        BY <1>0, <3>3, <4>1 DEF CalmInv, IsAhead, Ahead, ConTypes
      <4>3. seq[c] <= 1 => turns = << >>
        BY <1>0, <3>4, <4>2 DEF ConTypes
      <4>4. C!Before(seq[c]) = Recorded
        BY <3>4, <4>2 DEF C!Before, C!LengthUpTo, Recorded
      <4>5. from'[c] = IF turns = << >> THEN 1 ELSE C!FirstNew(Recorded, Len(req[c]))
        <5>1. from'[c] = IF seq[c] <= 1 \/ turns = << >> THEN 1
                         ELSE C!FirstNew(C!Before(seq[c]), Len(req[c]))
          BY <1>0, <4>1 DEF ConTypes
        <5>2. QED
          BY <4>3, <4>4, <5>1
      <4>6. Recorded' = Recorded
        BY <4>1 DEF Recorded
      <4>7. \A d \in Capture : Cuts(d)'
        BY <2>2, <3>1, <4>1, <4>5, <4>6 DEF Cuts, Ahead, C!FirstNew
      <4>8. \A d \in Capture : IsAhead(d)'
        BY <2>2, <3>1, <3>3, <4>1, <4>2 DEF CalmInv, IsAhead
      <4>9. Knows' /\ Whole'
        BY <2>2, <3>3, <4>1 DEF CalmInv, Knows, Whole, Recorded, C!Growing, C!Deltas
      <4>10. QED
        BY <4>7, <4>8, <4>9 DEF CalmInv
    <3>7. CASE C!WriteTurn(c) \/ C!WriteFails(c)
      <4>1. stage[c] = "write" /\ turns' \in {turns, C!WithTurn(c)}
        BY <3>7 DEF C!WriteTurn, C!WriteFails
      <4>2. stage'[c] \notin Ahead
        BY <1>0, <3>7 DEF C!WriteTurn, C!WriteFails, Ahead, ConTypes
      <4>3. CASE turns' = turns
        BY <3>5, <4>2, <4>3 DEF Ahead
      <4>4. CASE turns' = C!WithTurn(c)
        <5>1. Whole'
          BY <1>0, <3>3, <4>1, <4>4, WholeKept DEF CalmInv
        <5>2. Len(turns') = Len(turns) + 1
          BY <1>0, <4>4 DEF C!WithTurn, ConTypes
        <5>3. \A k \in Conn : last = k => next[k] = seq[c] /\ seq[c] > Len(turns)
          BY <3>3, <4>1 DEF CalmInv, IsAhead, Ahead
        <5>4. Knows'
          BY <2>2, <3>4, <5>2, <5>3 DEF Knows
        <5>5. \A d \in Capture : stage'[d] \notin Ahead
          BY <3>1, <4>2
        <5>6. QED
          BY <5>1, <5>4, <5>5 DEF CalmInv, IsAhead, Cuts, Ahead
      <4>5. QED
        BY <4>1, <4>3, <4>4
    <3>8. CASE C!Upkeep(c) \/ C!Compare(c) \/ C!Tell(c) \/ C!Move(c) \/ C!DriftFails(c)
      <4>1. turns' = turns /\ stage'[c] \notin Ahead
        BY <1>0, <3>8 DEF C!Upkeep, C!Compare, C!Tell, C!Move, C!DriftFails, C!Following, C!rows,
           Ahead, ConTypes
      <4>2. QED
        BY <3>5, <4>1 DEF Ahead
    <3>9. QED
      BY <1>2, <3>2, <3>6, <3>7, <3>8
  <2>8. QED
    BY <2>6, <2>7
<1>3. QED
  BY <1>1, <1>2

LEMMA OnceStart ==
    ASSUME PartsInit
    PROVE  OnceInv
<1>1. SUFFICES ASSUME C!Init PROVE OnceInv
  BY DEF PartsInit
<1>0. turns = << >> /\ \A c \in Capture : stage[c] = "idle"
  BY <1>1 DEF C!Init, Capture
<1>2. Len(turns) = 0
  BY <1>0
<1>3. Alone
  BY <1>0 DEF Alone, Runs, C!Ended
<1>4. Knows
  <2>1. \A k \in Conn : next[k] = 0
    BY <1>1 DEF C!Init
  <2>2. QED
    BY <1>2, <2>1 DEF Knows
<1>5. \A c \in Capture : IsAhead(c) /\ Cuts(c)
  BY <1>0 DEF IsAhead, Cuts, Ahead
<1>6. Whole
  BY <1>0 DEF Whole
<1>7. QED
  BY <1>1, <1>3, <1>4, <1>5, <1>6, ConInit DEF OnceInv, CalmInv

LEMMA OnceStep ==
    ASSUME OnceInv, [PartsNext]_allVars
    PROVE  OnceInv'
<1>1. CASE C!Next
  BY <1>1, NextTypes, CalmStep DEF OnceInv
<1>2. CASE UNCHANGED conversationVars
  <2>1. ConTypes'
    BY <1>2, ConSame DEF OnceInv
  <2>2. UNCHANGED << turns, next, stage, req, seq, from, mixed, returned, misread, last >>
    BY <1>2 DEF conversationVars
  <2>3. (mixed = {} => Alone)'
    BY <2>2 DEF OnceInv, Alone, Runs
  <2>4. CalmInv' <=> CalmInv
    BY <2>2 DEF CalmInv, Knows, IsAhead, Cuts, Whole, Recorded, C!Growing, C!Deltas, C!FirstNew
  <2>5. Calm' <=> Calm
    BY <2>2 DEF Calm
  <2>6. QED
    BY <2>1, <2>3, <2>4, <2>5 DEF OnceInv
<1>3. QED
  BY <1>1, <1>2 DEF PartsNext, allVars, conversationVars

\* The deltas of a conversation, joined, are its last request, each message once,
\* for any requests, connections and failing statements, while the client neither
\* runs requests at the same time nor goes back to an older connection, and the
\* numbers and lengths can be read (compute_true_delta over the sum of the
\* recorded lengths): who captures knows a number above all that were written.
THEOREM MessagesOnce == PartsSpec => []EveryMessageOnce
<1>1. OnceInv => EveryMessageOnce
  BY DEF OnceInv, CalmInv, Whole, Calm, EveryMessageOnce, C!EveryMessageOnce
<1>2. QED
  BY <1>1, OnceStart, OnceStep, PTL DEF PartsSpec

-----------------------------------------------------------------------------
(* The row of the session and its turns.  While nothing fails and no two   *)
(* captures run together, the row, the events and the baselines agree with *)
(* the turns but the last, until the capture of the last has done its part *)
(* (During), and with all of them between two captures (Rest).             *)

\* The statements of a capture have begun.
Past(c) == stage[c] \notin Ahead \cup {"idle"}

\* PostgreSQL has no hash of the tools.
Blind(k) == graph = "postgres" /\ k = "tools"

Baselined(i, k) == IF Blind(k) THEN None ELSE prompts[turns[i].capture][k]

Changed(i, k) ==
    i > 1 /\ prompts[turns[i].capture][k] # prompts[turns[i - 1].capture][k]

ToldOf(i, k) ==
    \E e \in 1 .. Len(events) :
        events[e].column = k /\ events[e].capture = turns[i].capture

\* Exactly the changes up to turn m have an event.
Reported(m, k) ==
    \A i \in 1 .. Len(turns) : ToldOf(i, k) <=> (i <= m /\ Changed(i, k) /\ ~Blind(k))

Compared(m, k) ==
    session.hash[k] = Baselined(IF m = 0 THEN 1 ELSE m, k) /\ Reported(m, k)

Counted(m) ==
    /\ session.total = m
    /\ session.filled = UNION {C!Supplied(turns[i].capture) : i \in 1 .. m}

\* Before and after the turn is written.
Started(c) ==
    /\ stage[c] \in Ahead =>
        (new[c] <=> turns = << >>) /\ (seq[c] > 1 <=> turns # << >>)
    /\ stage[c] \in Written =>
        /\ turns # << >> /\ turns[Len(turns)].capture = c
        /\ seq[c] > 1 <=> Len(turns) > 1
    /\ stage[c] = "upkeep" => Len(turns) > 1
    /\ stage[c] \in Ahead \cup {"idle", "upkeep"} => column[c] = "system"
    /\ stage[c] \in {"tell", "move"} => Changed(Len(turns), column[c]) /\ ~Blind(column[c])

Rest ==
    turns # << >> /\ (\A c \in Capture : stage[c] \notin Written) =>
        Counted(Len(turns)) /\ \A k \in Column : Compared(Len(turns), k)

\* The capture that has written the last turn has dealt with column k.
Done(c, k) == column[c] = "tools" /\ k = "system"

During(c) ==
    stage[c] \in Written =>
        /\ Counted(IF stage[c] = "upkeep" THEN Len(turns) - 1 ELSE Len(turns))
        /\ \A k \in Column :
            IF Done(c, k) THEN Compared(Len(turns), k)
            ELSE /\ session.hash[k]
                        = Baselined(IF Len(turns) = 1 THEN 1 ELSE Len(turns) - 1, k)
                 /\ Reported(IF stage[c] = "move" /\ k = column[c]
                             THEN Len(turns) ELSE Len(turns) - 1, k)

AgreeInv ==
    /\ session = None <=> turns = << >>
    /\ turns = << >> /\ (\A c \in Capture : ~Runs(c)) => \A k \in Conn : next[k] = 0
    /\ \A i, j \in 1 .. Len(turns) : turns[i].capture = turns[j].capture => i = j
    /\ \A i \in 1 .. Len(turns) : Past(turns[i].capture)
    /\ \A e \in 1 .. Len(events) : Past(events[e].capture)
    /\ Rest
    /\ \A c \in Capture : Started(c) /\ During(c)

Quiet == mixed = {} /\ failures = 0

SessionInv == OnceInv /\ failures \in Nat /\ (Quiet => AgreeInv)

\* What the last lemmas come to.
LEMMA AgreedAtRest ==
    ASSUME OnceInv, AgreeInv, C!Running = {}, turns # << >>
    PROVE  /\ session.total = Len(turns)
           /\ session.filled = UNION {C!Supplied(turns[i].capture) : i \in DOMAIN turns}
           /\ \A k \in C!Column :
                C!Told(k) = IF graph = "postgres" /\ k = "tools" THEN {} ELSE C!Changes(k)
<1>1. turns \in Seq(TurnRow) /\ events \in Seq(EventRow)
  BY DEF OnceInv, ConTypes
<1>2. Len(turns) \in Nat /\ DOMAIN turns = 1 .. Len(turns) /\ DOMAIN events = 1 .. Len(events)
  BY <1>1
<1>3. \A c \in Capture : stage[c] \notin Written
  BY DEF C!Running, C!Ended, Written, Capture
<1>4. Counted(Len(turns)) /\ \A k \in Column : Compared(Len(turns), k)
  BY <1>3 DEF AgreeInv, Rest
<1>5. ASSUME NEW k \in Column
      PROVE  C!Told(k) = IF graph = "postgres" /\ k = "tools" THEN {} ELSE C!Changes(k)
  <2>1. \A i \in 1 .. Len(turns) : ToldOf(i, k) <=> (Changed(i, k) /\ ~Blind(k))
    BY <1>2, <1>4 DEF Compared, Reported
  <2>2. C!Told(k) = {i \in 1 .. Len(turns) : ToldOf(i, k)}
    BY <1>2 DEF C!Told, ToldOf
  <2>3. C!Changes(k) = {i \in 1 .. Len(turns) : Changed(i, k)}
    BY <1>2 DEF C!Changes, Changed
  <2>4. CASE Blind(k)
    BY <2>1, <2>2, <2>4 DEF Blind
  <2>5. CASE ~Blind(k)
    BY <2>1, <2>2, <2>3, <2>5 DEF Blind
  <2>6. QED
    BY <2>4, <2>5
<1>6. QED
  BY <1>2, <1>4, <1>5 DEF Counted, Column

\* Facts of the turns in a state that satisfies the invariant.
LEMMA TurnFacts ==
    ASSUME ConTypes
    PROVE  /\ Len(turns) \in Nat /\ Len(events) \in Nat
           /\ (turns = << >> <=> Len(turns) = 0)
           /\ \A i \in 1 .. Len(turns) : turns[i].capture \in Capture
           /\ \A e \in 1 .. Len(events) : events[e].capture \in Capture
<1>1. turns \in Seq(TurnRow) /\ events \in Seq(EventRow)
  BY DEF ConTypes
<1>2. \A i \in 1 .. Len(turns) : turns[i] \in TurnRow
  BY <1>1
<1>3. \A e \in 1 .. Len(events) : events[e] \in EventRow
  BY <1>1
<1>4. QED
  BY <1>1, <1>2, <1>3 DEF TurnRow, EventRow

\* A step keeps what the earlier turns say.
LEMMA TurnsKept ==
    ASSUME ConTypes, AgreeInv, graph' = graph,
           \A i \in 1 .. Len(turns) : turns'[i] = turns[i],
           \A d \in Capture : Past(d) => prompts'[d] = prompts[d] /\ req'[d] = req[d],
           NEW i \in 1 .. Len(turns)
    PROVE  /\ C!Supplied(turns[i].capture)' = C!Supplied(turns[i].capture)
           /\ \A k \in Column :
                Baselined(i, k)' = Baselined(i, k) /\ (Changed(i, k)' <=> Changed(i, k))
<1>1. turns[i].capture \in Capture /\ Past(turns[i].capture) /\ turns'[i] = turns[i]
  BY TurnFacts DEF AgreeInv
<1>2. prompts'[turns'[i].capture] = prompts[turns[i].capture] /\ req'[turns'[i].capture] = req[turns[i].capture]
  BY <1>1
<1>3. C!Supplied(turns[i].capture)' = C!Supplied(turns[i].capture)
  BY <1>2 DEF C!Supplied, C!Filled
<1>4. ASSUME NEW k \in Column PROVE Baselined(i, k)' = Baselined(i, k)
  BY <1>2 DEF Baselined, Blind
<1>5. ASSUME NEW k \in Column PROVE Changed(i, k)' <=> Changed(i, k)
  <2>1. CASE i > 1
    <3>1. i - 1 \in 1 .. Len(turns)
      BY <2>1, TurnFacts
    <3>2. turns[i - 1].capture \in Capture /\ Past(turns[i - 1].capture) /\ turns'[i - 1] = turns[i - 1]
      BY <3>1, TurnFacts DEF AgreeInv
    <3>3. prompts'[turns'[i - 1].capture] = prompts[turns[i - 1].capture]
      BY <3>2
    <3>4. QED
      BY <1>2, <3>3 DEF Changed
  <2>2. CASE ~(i > 1)
    BY <2>2 DEF Changed
  <2>3. QED
    BY <2>1, <2>2
<1>6. QED
  BY <1>3, <1>4, <1>5

\* So does all that is said of the row, by a step that leaves the rows alone.
LEMMA SameRow ==
    ASSUME ConTypes, AgreeInv, UNCHANGED << graph, turns, session, events >>,
           \A d \in Capture : Past(d) => prompts'[d] = prompts[d] /\ req'[d] = req[d],
           turns # << >>
    PROVE  /\ \A m \in 0 .. Len(turns) : Counted(m)' <=> Counted(m)
           /\ \A k \in Column : \A m \in 0 .. Len(turns) :
                (Reported(m, k)' <=> Reported(m, k)) /\ (Compared(m, k)' <=> Compared(m, k))
           /\ \A k \in Column : \A i \in 1 .. Len(turns) :
                Baselined(i, k)' = Baselined(i, k) /\ (Changed(i, k)' <=> Changed(i, k))
<1>1. Len(turns) \in Nat /\ 1 \in 1 .. Len(turns)
  BY TurnFacts
<1>2. \A i \in 1 .. Len(turns) :
        /\ C!Supplied(turns[i].capture)' = C!Supplied(turns[i].capture)
        /\ \A k \in Column :
            Baselined(i, k)' = Baselined(i, k) /\ (Changed(i, k)' <=> Changed(i, k))
  BY TurnsKept
<1>3. ASSUME NEW m \in 0 .. Len(turns) PROVE Counted(m)' <=> Counted(m)
  <2>1. \A i \in 1 .. m : C!Supplied(turns[i].capture)' = C!Supplied(turns[i].capture)
    BY <1>1, <1>2
  <2>2. QED
    BY <2>1 DEF Counted
<1>4. ASSUME NEW k \in Column, NEW m \in 0 .. Len(turns)
      PROVE  (Reported(m, k)' <=> Reported(m, k)) /\ (Compared(m, k)' <=> Compared(m, k))
  <2>1. \A i \in 1 .. Len(turns) : ToldOf(i, k)' <=> ToldOf(i, k)
    BY DEF ToldOf
  <2>2. Reported(m, k)' <=> Reported(m, k)
    BY <1>2, <2>1 DEF Reported, Blind
  <2>3. (IF m = 0 THEN 1 ELSE m) \in 1 .. Len(turns)
    BY <1>1
  <2>4. QED
    BY <1>2, <2>2, <2>3 DEF Compared
<1>5. QED
  BY <1>2, <1>3, <1>4

\* The captures that do not move have nothing under way.
LEMMA OthersAgree ==
    ASSUME OnceInv, AgreeInv, mixed = {}, NEW c \in Capture, Runs(c),
           \A d \in Capture : d # c => stage'[d] = stage[d] /\ column'[d] = column[d]
    PROVE  \A d \in Capture : d # c =>
                /\ Started(d)' /\ During(d)'
                /\ ~Runs(d) /\ stage'[d] \notin Written \cup Ahead
<1> TAKE d \in Capture
<1> HAVE d # c
<1>1. ~Runs(d)
  BY DEF OnceInv, Alone
<1>2. stage[d] \in {"idle", "done", "failed"} /\ stage'[d] = stage[d] /\ column'[d] = column[d]
  BY <1>1 DEF Runs, C!Ended
<1>3. stage[d] = "idle" => column[d] = "system"
  BY DEF AgreeInv, Started
<1>4. QED
  BY <1>1, <1>2, <1>3 DEF Started, During, Written, Ahead

LEMMA ResolveAgrees ==
    ASSUME SessionInv, ConTypes', NEW c \in Capture, C!Resolve(c), Quiet'
    PROVE  AgreeInv'
<1>1. /\ stage[c] = "idle" /\ stage' = [stage EXCEPT ![c] = "resolved"]
      /\ UNCHANGED << graph, turns, session, events, column >>
  BY DEF C!Resolve, C!Goto, C!rows
<1>2. C!Running = {} /\ mixed = {}
  BY DEF C!Resolve, Quiet
<1>3. PICK k \in Conn, r \in Asked[c] :
    /\ req' = [req EXCEPT ![c] = r.messages]
    /\ prompts' = [prompts EXCEPT ![c] = r.prompts]
    /\ \E known \in {next[k], 0} :
        /\ \E max \in {Len(turns)} \cup (IF failures < MaxFailures THEN {0} ELSE {}) :
            /\ seq' = [seq EXCEPT ![c] = (IF known = 0 THEN max ELSE known) + 1]
            /\ new' = [new EXCEPT ![c] = known = 0 /\ max = 0]
            /\ misread' = (misread \/ (known = 0 /\ max # Len(turns)))
            /\ failures' = IF max = Len(turns) THEN failures ELSE failures + 1
        /\ returned' = (returned \/ (last # k /\ known # 0))
  BY Zenon DEF C!Resolve
<1>4. PICK known \in {next[k], 0},
           max \in {Len(turns)} \cup (IF failures < MaxFailures THEN {0} ELSE {}) :
        /\ seq' = [seq EXCEPT ![c] = (IF known = 0 THEN max ELSE known) + 1]
        /\ new' = [new EXCEPT ![c] = known = 0 /\ max = 0]
        /\ failures' = IF max = Len(turns) THEN failures ELSE failures + 1
  BY <1>3, Zenon
<1>5. max = Len(turns) /\ failures = 0
  BY <1>4 DEF SessionInv, Quiet
<1>6. ConTypes /\ AgreeInv
  BY <1>2, <1>5 DEF SessionInv, OnceInv, Quiet
<1>7. Len(turns) \in Nat /\ (turns = << >> <=> Len(turns) = 0) /\ next[k] \in Nat
  BY <1>6, TurnFacts DEF ConTypes
<1>8. \A d \in Capture : ~Runs(d) /\ (d # c => stage'[d] = stage[d])
  BY <1>1, <1>2, <1>6 DEF C!Running, Runs, Capture, ConTypes
<1>9. turns = << >> => known = 0
  BY <1>6, <1>8 DEF AgreeInv
<1>10. seq'[c] > 1 <=> turns # << >>
  <2>1. seq'[c] = (IF known = 0 THEN max ELSE known) + 1
    BY <1>4, <1>6 DEF ConTypes
  <2>2. CASE known = 0
    BY <1>5, <1>7, <2>1, <2>2
  <2>3. CASE known # 0
    BY <1>7, <1>9, <2>1, <2>3
  <2>4. QED
    BY <2>2, <2>3
<1>11. new'[c] <=> turns = << >>
  <2>1. new'[c] = (known = 0 /\ max = 0)
    BY <1>4, <1>6, Zenon DEF ConTypes
  <2>2. (known = 0 /\ max = 0) <=> turns = << >>
    BY <1>5, <1>7, <1>9
  <2>3. QED
    BY <2>1, <2>2, Zenon
<1>12. stage'[c] = "resolved" /\ \A d \in Capture : d # c => stage'[d] \in {"idle", "done", "failed"}
  BY <1>1, <1>6, <1>8 DEF Runs, C!Ended, ConTypes
<1>13. \A d \in Capture : Past(d) => d # c /\ Past(d)' /\ prompts'[d] = prompts[d] /\ req'[d] = req[d]
  BY <1>1, <1>3, <1>6, <1>8 DEF Past, ConTypes, Ahead
<1>14. Rest'
  <2>1. SUFFICES ASSUME turns # << >>
        PROVE  (Counted(Len(turns)) /\ \A x \in Column : Compared(Len(turns), x))'
    BY <1>1 DEF Rest
  <2>2. Counted(Len(turns)) /\ \A x \in Column : Compared(Len(turns), x)
    BY <1>6, <1>8, <2>1 DEF AgreeInv, Rest, Runs, C!Ended, Written
  <2>3. Len(turns) \in 0 .. Len(turns) /\ Len(turns)' = Len(turns)
    BY <1>1, <1>7
  <2>4. Counted(Len(turns))'
    BY <1>1, <1>6, <1>13, <2>1, <2>2, <2>3, SameRow
  <2>5. \A x \in Column : Compared(Len(turns), x)'
    BY <1>1, <1>6, <1>13, <2>1, <2>2, <2>3, SameRow
  <2>6. QED
    BY <2>4, <2>5
<1>15. \A d \in Capture : Started(d)' /\ During(d)'
  <2> TAKE d \in Capture
  <2>1. stage[d] = "idle" => column[d] = "system"
    BY <1>6 DEF AgreeInv, Started
  <2>2. CASE d = c
    BY <1>1, <1>10, <1>11, <1>12, <2>1, <2>2 DEF Started, During, Ahead, Written
  <2>3. CASE d # c
    BY <1>1, <1>8, <1>12, <2>1, <2>3 DEF Started, During, Ahead, Written
  <2>4. QED
    BY <2>2, <2>3
<1>16. Runs(c)'
  BY <1>12 DEF Runs, C!Ended
<1>17. /\ \A i \in 1 .. Len(turns) : Past(turns[i].capture)'
       /\ \A e \in 1 .. Len(events) : Past(events[e].capture)'
  BY <1>1, <1>6, <1>13, TurnFacts DEF AgreeInv
<1>18. QED
  BY <1>1, <1>6, <1>14, <1>15, <1>16, <1>17 DEF AgreeInv

\* A step of the capture under way that leaves the rows alone.
LEMMA ReadAgrees ==
    ASSUME SessionInv, ConTypes', NEW c \in Capture, C!ReadPrefix(c), Quiet'
    PROVE  AgreeInv'
<1>1. /\ stage[c] = "resolved" /\ stage' = [stage EXCEPT ![c] = "write"]
      /\ UNCHANGED << graph, turns, session, events, column, new, seq, req, prompts, next,
                      mixed, failures >>
  BY DEF C!ReadPrefix, C!Goto, C!rows, C!request, C!history
<1>2. OnceInv /\ ConTypes /\ AgreeInv /\ mixed = {}
  BY <1>1 DEF SessionInv, OnceInv, Quiet
<1>3. Runs(c) /\ stage'[c] = "write" /\ \A d \in Capture : d # c => stage'[d] = stage[d]
  BY <1>1, <1>2 DEF Runs, C!Ended, ConTypes
<1>4. \A d \in Capture : d # c =>
        Started(d)' /\ During(d)' /\ ~Runs(d) /\ stage'[d] \notin Written \cup Ahead
  BY <1>1, <1>2, <1>3, OthersAgree
<1>5. Started(c)' /\ During(c)'
  BY <1>1, <1>2, <1>3 DEF AgreeInv, Started, During, Ahead, Written
<1>6. \A d \in Capture : stage[d] \notin Written /\ (Past(d) => Past(d)')
  BY <1>1, <1>3, <1>4 DEF Written, Past, Ahead, Runs, C!Ended
<1>7. Rest'
  <2>1. SUFFICES ASSUME turns # << >>
        PROVE  (Counted(Len(turns)) /\ \A x \in Column : Compared(Len(turns), x))'
    BY <1>1 DEF Rest
  <2>2. Counted(Len(turns)) /\ \A x \in Column : Compared(Len(turns), x)
    BY <1>2, <1>6, <2>1 DEF AgreeInv, Rest
  <2>3. Len(turns) \in 0 .. Len(turns) /\ Len(turns)' = Len(turns)
    BY <1>1, <1>2, TurnFacts
  <2>4. \A d \in Capture : Past(d) => prompts'[d] = prompts[d] /\ req'[d] = req[d]
    BY <1>1
  <2>5. Counted(Len(turns))'
    BY <1>1, <1>2, <2>1, <2>2, <2>3, <2>4, SameRow
  <2>6. \A x \in Column : Compared(Len(turns), x)'
    BY <1>1, <1>2, <2>1, <2>2, <2>3, <2>4, SameRow
  <2>7. QED
    BY <2>5, <2>6
<1>8. Runs(c)'
  BY <1>3 DEF Runs, C!Ended
<1>9. /\ \A i \in 1 .. Len(turns) : Past(turns[i].capture)'
      /\ \A e \in 1 .. Len(events) : Past(events[e].capture)'
  BY <1>1, <1>2, <1>6, TurnFacts DEF AgreeInv
<1>10. QED
  BY <1>1, <1>2, <1>4, <1>5, <1>7, <1>8, <1>9 DEF AgreeInv

LEMMA WriteAgrees ==
    ASSUME SessionInv, ConTypes', NEW c \in Capture, C!WriteTurn(c), Quiet'
    PROVE  AgreeInv'
<1>1. /\ stage[c] = "write" /\ stage' = [stage EXCEPT ![c] = IF new[c] THEN "compare" ELSE "upkeep"]
      /\ session' = C!WithSession(c) /\ turns' = C!WithTurn(c)
      /\ UNCHANGED << graph, events, column, new, seq, req, prompts, next, mixed, failures >>
  BY DEF C!WriteTurn, C!Goto, C!request, C!history, C!local
<1>2. OnceInv /\ ConTypes /\ AgreeInv /\ mixed = {}
  BY <1>1 DEF SessionInv, OnceInv, Quiet
<1>3. /\ Runs(c) /\ stage'[c] = (IF new[c] THEN "compare" ELSE "upkeep")
      /\ \A d \in Capture : d # c => stage'[d] = stage[d]
  BY <1>1, <1>2 DEF Runs, C!Ended, ConTypes
<1>4. \A d \in Capture : d # c =>
        Started(d)' /\ During(d)' /\ ~Runs(d) /\ stage'[d] \notin Written \cup Ahead
  BY <1>1, <1>2, <1>3, OthersAgree
<1>5. PICK n \in Nat : n = Len(turns) /\ (turns = << >> <=> n = 0)
  BY <1>2, TurnFacts
<1>6. /\ Len(turns)' = n + 1 /\ turns'[n + 1].capture = c
      /\ \A i \in 1 .. n : turns'[i] = turns[i]
  <2> DEFINE r == [capture |-> c, req |-> req[c], hash |-> C!Hashes(c),
                   delta |-> SubSeq(req[c], from[c], Len(req[c]))]
  <2>1. turns' = Append(turns, r)
    BY <1>1 DEF C!WithTurn
  <2>2. r.capture = c
    OBVIOUS
  <2> HIDE DEF r
  <2>3. turns \in Seq(TurnRow \cup {r}) /\ r \in TurnRow \cup {r}
    BY <1>2 DEF ConTypes
  <2>4. QED
    BY <1>5, <2>1, <2>2, <2>3, AppendProperties
<1>7. \A i \in 1 .. n :
        /\ C!Supplied(turns[i].capture)' = C!Supplied(turns[i].capture)
        /\ \A k \in Column :
            Baselined(i, k)' = Baselined(i, k) /\ (Changed(i, k)' <=> Changed(i, k))
  BY <1>1, <1>2, <1>5, <1>6, TurnsKept
<1>8. \A i \in 1 .. n : turns[i].capture \in Capture /\ Past(turns[i].capture) /\ turns[i].capture # c
  BY <1>1, <1>2, <1>5, TurnFacts DEF AgreeInv, Past, Ahead
<1>9. \A e \in 1 .. Len(events) : Past(events[e].capture)' /\ events[e].capture # c
  <2>1. \A e \in 1 .. Len(events) : events[e].capture \in Capture /\ Past(events[e].capture)
    BY <1>2, TurnFacts DEF AgreeInv
  <2>2. \A e \in 1 .. Len(events) : events[e].capture # c
    BY <1>1, <2>1 DEF Past, Ahead
  <2>3. QED
    BY <1>1, <1>3, <2>1, <2>2 DEF Past
<1>10. \A k \in Column : ~ToldOf(n + 1, k)' /\ \A i \in 1 .. n : ToldOf(i, k)' <=> ToldOf(i, k)
  BY <1>1, <1>6, <1>9 DEF ToldOf
<1>11. Past(c)' /\ Runs(c)' /\ stage'[c] \in Written
  BY <1>3 DEF Past, Runs, C!Ended, Ahead, Written
<1>12. \A i \in 1 .. n + 1 : Past(turns[i].capture)'
  <2>1. \A i \in 1 .. n : Past(turns[i].capture)'
    BY <1>3, <1>6, <1>8 DEF Past
  <2>2. \A i \in 1 .. n + 1 : i \in 1 .. n \/ i = n + 1
    BY <1>5
  <2>3. QED
    BY <1>6, <1>11, <2>1, <2>2
<1>13. \A i, j \in 1 .. n + 1 : turns'[i].capture = turns'[j].capture => i = j
  <2>1. \A i \in 1 .. n + 1 : i \in 1 .. n \/ i = n + 1
    BY <1>5
  <2>2. \A i, j \in 1 .. n : turns[i].capture = turns[j].capture => i = j
    BY <1>2, <1>5 DEF AgreeInv
  <2>3. QED
    BY <1>6, <1>8, <2>1, <2>2
<1>14. Started(c) /\ stage[c] \in Ahead
  BY <1>1, <1>2 DEF AgreeInv, Ahead
<1>15. column[c] = "system" /\ (new[c] <=> turns = << >>) /\ (seq[c] > 1 <=> turns # << >>)
  BY <1>14 DEF Started
<1>16. Started(c)'
  <2>1. turns' # << >> /\ turns'[Len(turns')].capture = c /\ (seq'[c] > 1 <=> Len(turns') > 1)
    BY <1>1, <1>5, <1>6, <1>15
  <2>2. stage'[c] = "upkeep" => Len(turns') > 1
    BY <1>3, <1>5, <1>6, <1>15
  <2>3. stage'[c] \notin Ahead \cup {"tell", "move"} /\ column'[c] = "system"
    BY <1>1, <1>3, <1>15 DEF Ahead
  <2>4. QED
    BY <2>1, <2>2, <2>3 DEF Started
<1>17. session' # None
  BY <1>1, <1>2, ConversationAssumption, WriteTypes
<1>18. During(c)'
  <2>1. \A k \in Column : ~Done(c, k)'
    BY <1>1, <1>15 DEF Done
  <2>2. CASE turns = << >>
    <3>1. session' = C!NewRow(c) /\ stage'[c] = "compare" /\ n = 0 /\ Len(turns') = 1
      BY <1>1, <1>2, <1>3, <1>5, <1>6, <1>15, <2>2 DEF AgreeInv, C!WithSession
    <3>2. Counted(1)'
      <4>1. session'.total = 1 /\ session'.filled = C!Supplied(c)
        BY <3>1 DEF C!NewRow
      <4>2. C!Supplied(turns[1].capture)' = C!Supplied(c)
        BY <1>1, <1>6, <3>1 DEF C!Supplied, C!Filled
      <4>3. UNION {C!Supplied(turns[i].capture)' : i \in 1 .. 1} = C!Supplied(c)
        BY <4>2
      <4>4. QED
        BY <4>1, <4>3 DEF Counted
    <3>3. \A k \in Column : session'.hash[k] = Baselined(1, k)'
      BY <1>1, <1>6, <3>1 DEF C!NewRow, C!Hashes, Baselined, Blind, Column
    <3>4. \A k \in Column : Reported(0, k)'
      BY <1>6, <1>10, <3>1 DEF Reported
    <3>5. QED
      BY <2>1, <3>1, <3>2, <3>3, <3>4 DEF During
  <2>3. CASE turns # << >>
    <3>1. session' = session /\ stage'[c] = "upkeep" /\ n >= 1 /\ Len(turns') - 1 = n /\ Len(turns') # 1
      BY <1>1, <1>2, <1>3, <1>5, <1>6, <1>15, <2>3 DEF AgreeInv, C!WithSession
    <3>2. Counted(n) /\ \A k \in Column : Compared(n, k)
      <4>1. \A d \in Capture : stage[d] \notin Written
        BY <1>1, <1>4 DEF Written, Runs, C!Ended
      <4>2. QED
        BY <1>2, <1>5, <2>3, <4>1 DEF AgreeInv, Rest
    <3>3. Counted(n)'
      <4>1. UNION {C!Supplied(turns[i].capture)' : i \in 1 .. n}
                = UNION {C!Supplied(turns[i].capture) : i \in 1 .. n}
        BY <1>7
      <4>2. QED
        BY <3>1, <3>2, <4>1 DEF Counted
    <3>4. \A k \in Column : session'.hash[k] = Baselined(n, k)'
      BY <1>5, <1>7, <3>1, <3>2 DEF Compared
    <3>5. ASSUME NEW k \in Column PROVE Reported(n, k)'
      <4>1. Reported(n, k)
        BY <3>2 DEF Compared
      <4>2. ASSUME NEW i \in 1 .. n + 1
            PROVE  ToldOf(i, k)' <=> (i <= n /\ Changed(i, k)' /\ ~Blind(k)')
        <5>1. CASE i \in 1 .. n
          BY <1>1, <1>5, <1>7, <1>10, <4>1, <5>1 DEF Reported, Blind
        <5>2. CASE i = n + 1
          BY <1>5, <1>10, <5>2
        <5>3. QED
          BY <1>5, <5>1, <5>2
      <4>3. QED
        BY <1>6, <4>2 DEF Reported
    <3>6. QED
      BY <2>1, <3>1, <3>3, <3>4, <3>5 DEF During
  <2>4. QED
    BY <2>2, <2>3
<1>19. turns' # << >>
  BY <1>16, <1>11 DEF Started
<1>20. QED
  BY <1>1, <1>4, <1>6, <1>9, <1>11, <1>12, <1>13, <1>16, <1>17, <1>18, <1>19 DEF AgreeInv, Rest

\* A step of a capture whose turn is written.
WrittenStep(c) ==
    /\ stage[c] \in Written /\ stage'[c] \in Written \cup {"done"}
    /\ \A d \in Capture : d # c => stage'[d] = stage[d] /\ column'[d] = column[d]
    /\ UNCHANGED << graph, turns, req, prompts, seq, next, mixed, failures >>

LEMMA WrittenFacts ==
    ASSUME SessionInv, NEW c \in Capture, WrittenStep(c), Quiet'
    PROVE  /\ OnceInv /\ ConTypes /\ AgreeInv /\ Runs(c) /\ session \in C!Row /\ session # None
           /\ turns # << >> /\ Len(turns) \in Nat \ {0} /\ turns[Len(turns)].capture = c
           /\ Started(c) /\ During(c)
           /\ prompts[c] \in [Column -> C!Prompt] /\ column[c] \in Column
           /\ \A d \in Capture : Past(d) => Past(d)'
           /\ \A d \in Capture : d # c =>
                Started(d)' /\ During(d)' /\ ~Runs(d) /\ stage'[d] \notin Written \cup Ahead
<1>1. OnceInv /\ ConTypes /\ AgreeInv /\ mixed = {}
  BY DEF SessionInv, OnceInv, Quiet, WrittenStep
<1>2. Runs(c) /\ session \in C!Row /\ Started(c) /\ During(c)
  BY <1>1 DEF WrittenStep, Runs, C!Ended, Written, ConTypes, AgreeInv
<1>3. /\ turns # << >> /\ Len(turns) \in Nat /\ Len(turns) # 0
      /\ turns[Len(turns)].capture = c /\ session # None
  BY <1>1, <1>2, TurnFacts DEF Started, WrittenStep, AgreeInv
<1>4. \A d \in Capture : d # c =>
        Started(d)' /\ During(d)' /\ ~Runs(d) /\ stage'[d] \notin Written \cup Ahead
  BY <1>1, <1>2, OthersAgree DEF WrittenStep
<1>5. prompts[c] \in [Column -> C!Prompt] /\ column[c] \in Column
  BY <1>1 DEF ConTypes, WrittenStep, Written
<1>6. \A d \in Capture : Past(d) => Past(d)'
  BY DEF WrittenStep, Past, Written, Ahead
<1>7. QED
  BY <1>1, <1>2, <1>3, <1>4, <1>5, <1>6

\* What is left to show of such a step.
LEMMA WrittenAgrees ==
    ASSUME SessionInv, ConTypes', NEW c \in Capture, WrittenStep(c), Quiet', session' # None,
           \A e \in 1 .. Len(events') : Past(events[e].capture)',
           Started(c)', During(c)', stage'[c] = "done" => Rest'
    PROVE  AgreeInv'
<1>1. AgreeInv /\ ConTypes /\ turns # << >> /\ \A d \in Capture : Past(d) => Past(d)'
  BY WrittenFacts
<1>2. \A d \in Capture : Started(d)' /\ During(d)'
  BY WrittenFacts
<1>3. turns' = turns
  BY DEF WrittenStep
<1>4. Rest'
  BY DEF Rest, WrittenStep
<1>5. \A i \in 1 .. Len(turns) : Past(turns[i].capture)'
  BY <1>1, <1>3, TurnFacts DEF AgreeInv
<1>6. QED
  BY <1>1, <1>2, <1>3, <1>4, <1>5 DEF AgreeInv

\* The column is dealt with; the next one follows.
LEMMA FollowingAgrees ==
    ASSUME SessionInv, ConTypes', NEW c \in Capture, WrittenStep(c), Quiet',
           stage[c] # "upkeep", C!Following(c), NEW n \in Nat, n = Len(turns),
           NEW x \in Column, x = column[c], Counted(n)', Compared(n, x)',
           \A k \in Column : k # x =>
                IF Done(c, k) THEN Compared(n, k)'
                ELSE session'.hash[k] = Baselined(IF n = 1 THEN 1 ELSE n - 1, k)'
                        /\ Reported(n - 1, k)'
    PROVE  Started(c)' /\ During(c)' /\ (stage'[c] = "done" => Rest')
<1>1. /\ turns # << >> /\ turns[n].capture = c /\ (seq[c] > 1 <=> n > 1)
      /\ turns' = turns /\ seq' = seq /\ ConTypes
  BY WrittenFacts DEF Started, WrittenStep
<1>2. CASE x = "system"
  <2>1. stage'[c] = "compare" /\ column'[c] = "tools"
    BY <1>1, <1>2 DEF C!Following, C!Goto, ConTypes
  <2>2. Started(c)'
    BY <1>1, <2>1 DEF Started, Ahead, Written
  <2>3. ~Done(c, "tools") /\ ~Done(c, "tools")' /\ Done(c, "system")'
    BY <1>2, <2>1 DEF Done
  <2>4. /\ session'.hash["tools"] = Baselined(IF n = 1 THEN 1 ELSE n - 1, "tools")'
        /\ Reported(n - 1, "tools")'
    BY <1>2, <2>3 DEF Column, C!Column
  <2>5. During(c)'
    <3>2. \A k \in Column : k = "system" \/ k = "tools"
      BY DEF Column, C!Column
    <3>3. n = Len(turns')
      BY <1>1
    <3>4. \A k \in Column :
            IF Done(c, k)' THEN Compared(n, k)'
            ELSE /\ session'.hash[k] = Baselined(IF n = 1 THEN 1 ELSE n - 1, k)'
                 /\ Reported(n - 1, k)'
      BY <1>2, <2>3, <2>4, <3>2
    <3>5. QED
      BY <2>1, <3>3, <3>4 DEF During
  <2>6. QED
    BY <2>1, <2>2, <2>5
<1>3. CASE x = "tools"
  <2>1. stage'[c] = "done" /\ column' = column
    BY <1>1, <1>3 DEF C!Following, C!Goto, ConTypes
  <2>2. Started(c)' /\ During(c)'
    BY <2>1 DEF Started, During, Ahead, Written
  <2>3. Done(c, "system")
    BY <1>3 DEF Done
  <2>4. \A k \in Column : Compared(n, k)'
    BY <1>3, <2>3 DEF Column, C!Column
  <2>5. n = Len(turns')
    BY <1>1
  <2>6. Rest'
    BY <2>4, <2>5 DEF Rest
  <2>7. QED
    BY <2>2, <2>6
<1>4. QED
  BY <1>2, <1>3 DEF Column, C!Column

LEMMA UpkeepAgrees ==
    ASSUME SessionInv, ConTypes', NEW c \in Capture, C!Upkeep(c), Quiet'
    PROVE  AgreeInv'
<1>1. /\ stage[c] = "upkeep" /\ stage' = [stage EXCEPT ![c] = "compare"]
      /\ UNCHANGED << graph, turns, events, column, new, seq, req, prompts, next, mixed >>
  BY DEF C!Upkeep, C!Goto, C!request, C!local
<1>2. failures' # failures + 1
  BY DEF SessionInv, Quiet
<1>3. /\ session' = [session EXCEPT !.total = @ + 1, !.filled = C!Backfilled(c, session)]
      /\ failures' = failures
  BY <1>2 DEF C!Upkeep
<1>4. stage'[c] = "compare"
  BY <1>1 DEF SessionInv, OnceInv, ConTypes
<1>5. WrittenStep(c)
  BY <1>1, <1>3, <1>4 DEF WrittenStep, Written
<1>6. PICK n \in Nat : n = Len(turns) /\ n > 1
  BY <1>1, <1>5, WrittenFacts DEF Started
<1>7. /\ ConTypes /\ AgreeInv /\ session \in C!Row /\ turns # << >> /\ turns[n].capture = c
      /\ Started(c) /\ During(c) /\ column[c] = "system"
  BY <1>1, <1>5, <1>6, WrittenFacts DEF Started
<1>8. /\ session'.total = session.total + 1 /\ session'.hash = session.hash
      /\ session'.filled = session.filled \cup C!Supplied(c)
  BY <1>3, <1>7 DEF C!Row, C!Backfilled
<1>9. Counted(n - 1) /\ \A k \in Column :
        session.hash[k] = Baselined(n - 1, k) /\ Reported(n - 1, k)
  BY <1>1, <1>6, <1>7 DEF During, Done, Written
<1>10. \A i \in 1 .. n :
        /\ C!Supplied(turns[i].capture)' = C!Supplied(turns[i].capture)
        /\ \A k \in Column :
            Baselined(i, k)' = Baselined(i, k) /\ (Changed(i, k)' <=> Changed(i, k))
  BY <1>1, <1>6, <1>7, TurnsKept
<1>11. Counted(n)'
  <2>1. session'.total = n
    BY <1>6, <1>8, <1>9 DEF Counted
  <2>2. UNION {C!Supplied(turns[i].capture)' : i \in 1 .. n}
            = UNION {C!Supplied(turns[i].capture) : i \in 1 .. n}
    BY <1>10
  <2>3. \A i \in 1 .. n : i \in 1 .. n - 1 \/ i = n
    BY <1>6
  <2>4. 1 .. n - 1 \subseteq 1 .. n /\ n \in 1 .. n
    BY <1>6
  <2>5. UNION {C!Supplied(turns[i].capture) : i \in 1 .. n}
            = (UNION {C!Supplied(turns[i].capture) : i \in 1 .. n - 1}) \cup C!Supplied(c)
    BY <1>7, <2>3, <2>4
  <2>6. QED
    BY <1>8, <1>9, <2>1, <2>2, <2>5 DEF Counted
<1>12. \A k \in Column : session'.hash[k] = Baselined(n - 1, k)' /\ Reported(n - 1, k)'
  <2> TAKE k \in Column
  <2>1. n - 1 \in 1 .. n
    BY <1>6
  <2>2. \A i \in 1 .. n : ToldOf(i, k)' <=> ToldOf(i, k)
    BY <1>1 DEF ToldOf
  <2>3. Reported(n - 1, k)'
    BY <1>1, <1>6, <1>9, <1>10, <2>2 DEF Reported, Blind
  <2>4. QED
    BY <1>8, <1>9, <1>10, <2>1, <2>3
<1>13. During(c)'
  <2>1. n = Len(turns') /\ n # 1
    BY <1>1, <1>6
  <2>2. \A k \in Column : ~Done(c, k)'
    BY <1>1, <1>7 DEF Done
  <2>3. QED
    BY <1>4, <1>11, <1>12, <2>1, <2>2 DEF During
<1>14. Started(c)'
  BY <1>1, <1>4, <1>6, <1>7 DEF Started, Ahead, Written
<1>15. session' # None
  BY <1>4, ConversationAssumption DEF ConTypes, Written
<1>16. \A e \in 1 .. Len(events') : Past(events[e].capture)'
  BY <1>1, <1>5, <1>7, WrittenFacts, TurnFacts DEF AgreeInv
<1>17. QED
  BY <1>4, <1>5, <1>13, <1>14, <1>15, <1>16, WrittenAgrees

\* What the capture that has written the last turn finds when it deals with a
\* column.
LEMMA ColumnFacts ==
    ASSUME SessionInv, NEW c \in Capture, WrittenStep(c), Quiet', stage[c] # "upkeep",
           NEW n \in Nat, n = Len(turns), NEW x \in Column, x = column[c]
    PROVE  /\ n > 0 /\ turns[n].capture = c /\ (seq[c] > 1 <=> n > 1)
           /\ C!Hash(c) = prompts[c][x] /\ C!Hash(c) \in C!Prompt /\ C!Hash(c) # None
           /\ Counted(n) /\ ~Done(c, x)
           /\ session.hash[x] = Baselined(IF n = 1 THEN 1 ELSE n - 1, x)
           /\ Reported(IF stage[c] = "move" THEN n ELSE n - 1, x)
           /\ \A k \in Column : k # x =>
                IF Done(c, k) THEN Compared(n, k)
                ELSE session.hash[k] = Baselined(IF n = 1 THEN 1 ELSE n - 1, k)
                        /\ Reported(n - 1, k)
           /\ \A i \in 1 .. n : turns[i].capture \in Capture
                /\ \A k \in Column : prompts[turns[i].capture][k] # None
<1>1. /\ ConTypes /\ AgreeInv /\ Started(c) /\ During(c) /\ stage[c] \in Written
      /\ n > 0 /\ turns[n].capture = c /\ (seq[c] > 1 <=> n > 1)
      /\ prompts[c] \in [Column -> C!Prompt]
  BY WrittenFacts DEF Started, WrittenStep
<1>2. C!Hash(c) = prompts[c][x] /\ C!Hash(c) \in C!Prompt
  BY <1>1 DEF C!Hash
<1>3. None \notin C!Prompt
  BY ConversationAssumption
<1>4. ~Done(c, x)
  BY DEF Done
<1>5. \A i \in 1 .. n : turns[i].capture \in Capture /\ Past(turns[i].capture)
  BY <1>1, TurnFacts DEF AgreeInv
<1>6. \A i \in 1 .. n : prompts[turns[i].capture] \in [Column -> C!Prompt]
  BY <1>1, <1>5 DEF ConTypes, Past
<1>7. Counted(n)
  BY <1>1 DEF During
<1>8. session.hash[x] = Baselined(IF n = 1 THEN 1 ELSE n - 1, x)
  BY <1>1, <1>4 DEF During
<1>9. Reported(IF stage[c] = "move" THEN n ELSE n - 1, x)
  BY <1>1, <1>4 DEF During
<1>10. \A k \in Column : k # x =>
          IF Done(c, k) THEN Compared(n, k)
          ELSE session.hash[k] = Baselined(IF n = 1 THEN 1 ELSE n - 1, k)
                  /\ Reported(n - 1, k)
  BY <1>1 DEF During
<1>11. QED
  BY <1>1, <1>2, <1>3, <1>4, <1>5, <1>6, <1>7, <1>8, <1>9, <1>10

LEMMA CompareAgrees ==
    ASSUME SessionInv, ConTypes', NEW c \in Capture, C!Compare(c), Quiet'
    PROVE  AgreeInv'
<1>1. /\ stage[c] = "compare"
      /\ UNCHANGED << graph, turns, session, events, next, seq, req, prompts, mixed, failures >>
      /\ IF C!Drifted(c) THEN C!Goto(c, "tell") /\ UNCHANGED column ELSE C!Following(c)
  BY DEF C!Compare, C!rows, C!request, C!history
<1>2. ConTypes
  BY DEF SessionInv, OnceInv
<1>3. WrittenStep(c)
  BY <1>1, <1>2 DEF WrittenStep, Written, C!Following, C!Goto, ConTypes
<1>4. PICK n \in Nat : n = Len(turns)
  BY <1>2, TurnFacts
<1>5. PICK x \in Column : x = column[c]
  BY <1>3, WrittenFacts
<1>6. /\ AgreeInv /\ turns # << >> /\ Started(c) /\ session # None
      /\ \A d \in Capture : Past(d) => Past(d)'
  BY <1>3, WrittenFacts
<1>7. /\ n > 0 /\ turns[n].capture = c /\ (seq[c] > 1 <=> n > 1)
      /\ C!Hash(c) = prompts[c][x] /\ C!Hash(c) # None
      /\ Counted(n) /\ ~Done(c, x)
      /\ session.hash[x] = Baselined(IF n = 1 THEN 1 ELSE n - 1, x)
      /\ Reported(n - 1, x)
      /\ \A k \in Column : k # x =>
            IF Done(c, k) THEN Compared(n, k)
            ELSE session.hash[k] = Baselined(IF n = 1 THEN 1 ELSE n - 1, k)
                    /\ Reported(n - 1, k)
      /\ \A i \in 1 .. n : \A k \in Column : prompts[turns[i].capture][k] # None
  <2>1. stage[c] # "upkeep" /\ stage[c] # "move"
    BY <1>1
  <2>2. QED
    BY <1>3, <1>4, <1>5, <2>1, ColumnFacts
<1>8. /\ Counted(n)'
      /\ \A k \in Column : \A m \in 0 .. n :
            (Reported(m, k)' <=> Reported(m, k)) /\ (Compared(m, k)' <=> Compared(m, k))
      /\ \A k \in Column : \A i \in 1 .. n :
            Baselined(i, k)' = Baselined(i, k) /\ (Changed(i, k)' <=> Changed(i, k))
  <2>1. n \in 0 .. n
    OBVIOUS
  <2>2. QED
    BY <1>1, <1>2, <1>4, <1>6, <1>7, <2>1, SameRow
<1>9. /\ n - 1 \in 0 .. n /\ n \in 0 .. n
      /\ (IF n = 1 THEN 1 ELSE n - 1) \in 1 .. n /\ n \in 1 .. n
  BY <1>7
<1>10. \A k \in Column : k # x =>
            IF Done(c, k) THEN Compared(n, k)'
            ELSE session'.hash[k] = Baselined(IF n = 1 THEN 1 ELSE n - 1, k)'
                    /\ Reported(n - 1, k)'
  BY <1>1, <1>7, <1>8, <1>9
<1>11. \A e \in 1 .. Len(events') : Past(events[e].capture)'
  BY <1>1, <1>2, <1>6, TurnFacts DEF AgreeInv
<1>12. CASE C!Drifted(c)
  <2>1. stage'[c] = "tell" /\ column' = column
    BY <1>1, <1>2, <1>12 DEF C!Goto, ConTypes
  <2>2. seq[c] > 1 /\ session.hash[x] # None /\ session.hash[x] # C!Hash(c)
    BY <1>5, <1>12 DEF C!Drifted
  <2>3. n > 1 /\ session.hash[x] = Baselined(n - 1, x)
    BY <1>7, <2>2
  <2>4. ~Blind(x)
    BY <2>2, <2>3 DEF Baselined
  <2>5. Changed(n, x)
    BY <1>7, <2>2, <2>3, <2>4 DEF Baselined, Changed
  <2>6. Changed(n, x)' /\ ~Blind(x)'
    BY <1>1, <1>8, <1>9, <2>4, <2>5 DEF Blind
  <2>7. Started(c)'
    BY <1>1, <1>4, <1>5, <1>6, <1>7, <2>1, <2>6 DEF Started, Ahead, Written
  <2>8. \A k \in Column : Done(c, k)' <=> Done(c, k)
    BY <2>1 DEF Done
  <2>9. \A k \in Column :
            IF Done(c, k)' THEN Compared(n, k)'
            ELSE /\ session'.hash[k] = Baselined(IF n = 1 THEN 1 ELSE n - 1, k)'
                 /\ Reported(n - 1, k)'
    BY <1>1, <1>7, <1>8, <1>9, <1>10, <2>8
  <2>10. n = Len(turns')
    BY <1>1, <1>4
  <2>11. During(c)'
    BY <1>8, <2>1, <2>9, <2>10 DEF During
  <2>12. QED
    BY <1>1, <1>3, <1>6, <1>11, <2>1, <2>7, <2>11, WrittenAgrees
<1>13. CASE ~C!Drifted(c)
  <2>1. C!Following(c) /\ stage[c] # "upkeep"
    BY <1>1, <1>13
  <2>2. n = 1 \/ session.hash[x] = None \/ session.hash[x] = C!Hash(c)
    BY <1>5, <1>7, <1>13 DEF C!Drifted
  <2>3. session.hash[x] = Baselined(n, x) /\ ~(Changed(n, x) /\ ~Blind(x))
    <3>1. CASE n = 1
      BY <1>7, <3>1 DEF Changed
    <3>2. CASE n # 1
      <4>1. n - 1 \in 1 .. n /\ session.hash[x] = Baselined(n - 1, x)
        BY <1>7, <3>2
      <4>2. CASE Blind(x)
        BY <4>1, <4>2 DEF Baselined
      <4>3. CASE ~Blind(x)
        <5>1. session.hash[x] = prompts[turns[n - 1].capture][x] /\ session.hash[x] # None
          BY <1>7, <4>1, <4>3 DEF Baselined
        <5>2. session.hash[x] = C!Hash(c)
          BY <2>2, <3>2, <5>1
        <5>3. QED
          BY <1>7, <4>3, <5>1, <5>2 DEF Baselined, Changed
      <4>4. QED
        BY <4>2, <4>3
    <3>3. QED
      BY <3>1, <3>2
  <2>4. Reported(n, x)
    BY <1>4, <1>7, <2>3 DEF Reported
  <2>5. Compared(n, x)'
    BY <1>7, <1>8, <1>9, <2>3, <2>4 DEF Compared
  <2>6. Started(c)' /\ During(c)' /\ (stage'[c] = "done" => Rest')
    BY <1>3, <1>4, <1>5, <1>8, <1>10, <2>1, <2>5, FollowingAgrees
  <2>7. QED
    BY <1>1, <1>3, <1>6, <1>11, <2>6, WrittenAgrees
<1>14. QED
  BY <1>12, <1>13

LEMMA TellAgrees ==
    ASSUME SessionInv, ConTypes', NEW c \in Capture, C!Tell(c), Quiet'
    PROVE  AgreeInv'
<1>1. /\ stage[c] = "tell" /\ stage' = [stage EXCEPT ![c] = "move"]
      /\ events' = Append(events, C!Event(c))
      /\ UNCHANGED << graph, turns, session, next, column, seq, req, prompts, mixed, failures >>
  BY DEF C!Tell, C!Goto, C!request, C!local, C!history
<1>2. ConTypes /\ events \in Seq(EventRow)
  BY DEF SessionInv, OnceInv, ConTypes
<1>3. stage'[c] = "move"
  BY <1>1, <1>2 DEF ConTypes
<1>4. WrittenStep(c)
  BY <1>1, <1>2, <1>3 DEF WrittenStep, Written, ConTypes
<1>5. PICK n \in Nat : n = Len(turns)
  BY <1>2, TurnFacts
<1>6. PICK x \in Column : x = column[c]
  BY <1>4, WrittenFacts
<1>7. /\ AgreeInv /\ turns # << >> /\ Started(c) /\ session # None
      /\ \A d \in Capture : Past(d) => Past(d)'
  BY <1>4, WrittenFacts
<1>8. /\ n > 0 /\ turns[n].capture = c
      /\ Counted(n) /\ ~Done(c, x)
      /\ session.hash[x] = Baselined(IF n = 1 THEN 1 ELSE n - 1, x)
      /\ Reported(n - 1, x)
      /\ \A k \in Column : k # x =>
            IF Done(c, k) THEN Compared(n, k)
            ELSE session.hash[k] = Baselined(IF n = 1 THEN 1 ELSE n - 1, k)
                    /\ Reported(n - 1, k)
  <2>1. stage[c] # "upkeep" /\ stage[c] # "move"
    BY <1>1
  <2>2. QED
    BY <1>4, <1>5, <1>6, <2>1, ColumnFacts
<1>9. \A i \in 1 .. n :
        /\ C!Supplied(turns[i].capture)' = C!Supplied(turns[i].capture)
        /\ \A k \in Column :
            Baselined(i, k)' = Baselined(i, k) /\ (Changed(i, k)' <=> Changed(i, k))
  BY <1>1, <1>2, <1>5, <1>7, TurnsKept
<1>10. Counted(n)'
  BY <1>1, <1>8, <1>9 DEF Counted
<1>11. PICK l \in Nat : l = Len(events)
  BY <1>2, TurnFacts
<1>12. /\ Len(events') = l + 1 /\ events'[l + 1].column = x /\ events'[l + 1].capture = c
       /\ \A e \in 1 .. l : events'[e] = events[e]
  BY <1>1, <1>2, <1>6, <1>11 DEF C!Event
<1>13. \A i \in 1 .. n : \A k \in Column :
          ToldOf(i, k)' <=> ToldOf(i, k) \/ (k = x /\ turns[i].capture = c)
  BY <1>1, <1>11, <1>12 DEF ToldOf
<1>14. \A i \in 1 .. n : turns[i].capture = c <=> i = n
  BY <1>5, <1>7, <1>8 DEF AgreeInv
<1>15. Changed(n, x) /\ ~Blind(x)
  BY <1>1, <1>5, <1>6, <1>7 DEF Started
<1>16. Reported(n, x)'
  <2>1. \A i \in 1 .. n : ToldOf(i, x) <=> (i <= n - 1 /\ Changed(i, x) /\ ~Blind(x))
    BY <1>5, <1>8 DEF Reported
  <2>2. \A i \in 1 .. n : ToldOf(i, x)' <=> ToldOf(i, x) \/ i = n
    BY <1>13, <1>14
  <2>3. \A i \in 1 .. n : ToldOf(i, x)' <=> Changed(i, x) /\ ~Blind(x)
    BY <1>15, <2>1, <2>2
  <2>4. \A i \in 1 .. n : ToldOf(i, x)' <=> (i <= n /\ Changed(i, x)' /\ ~Blind(x)')
    BY <1>1, <1>9, <2>3 DEF Blind
  <2>5. QED
    BY <1>1, <1>5, <2>4 DEF Reported
<1>17. \A k \in Column : k # x =>
            \A m \in {n - 1, n} : Reported(m, k) => Reported(m, k)'
  <2> TAKE k \in Column
  <2> HAVE k # x
  <2>1. \A i \in 1 .. n : ToldOf(i, k)' <=> ToldOf(i, k)
    BY <1>13
  <2>2. QED
    BY <1>1, <1>5, <1>9, <2>1 DEF Reported, Blind
<1>18. (IF n = 1 THEN 1 ELSE n - 1) \in 1 .. n /\ n \in 1 .. n /\ n # 0
  BY <1>8
<1>19. \A k \in Column :
          /\ Done(c, k)' => Compared(n, k)'
          /\ ~Done(c, k)' =>
                session'.hash[k] = Baselined(IF n = 1 THEN 1 ELSE n - 1, k)'
          /\ ~Done(c, k)' /\ k = x => Reported(n, k)'
          /\ ~Done(c, k)' /\ k # x => Reported(n - 1, k)'
  <2> TAKE k \in Column
  <2>1. Done(c, k)' <=> Done(c, k)
    BY <1>1 DEF Done
  <2>2. CASE k = x
    <3>1. session'.hash[k] = Baselined(IF n = 1 THEN 1 ELSE n - 1, k)'
      BY <1>1, <1>8, <1>9, <1>18, <2>2
    <3>2. QED
      BY <1>8, <1>16, <2>1, <2>2, <3>1
  <2>3. CASE k # x /\ Done(c, k)
    BY <1>1, <1>8, <1>9, <1>17, <1>18, <2>1, <2>3 DEF Compared
  <2>4. CASE k # x /\ ~Done(c, k)
    <3>1. session'.hash[k] = Baselined(IF n = 1 THEN 1 ELSE n - 1, k)' /\ Reported(n - 1, k)'
      BY <1>1, <1>8, <1>9, <1>17, <1>18, <2>4
    <3>2. QED
      BY <2>1, <2>4, <3>1
  <2>5. QED
    BY <2>2, <2>3, <2>4
<1>20. n = Len(turns')
  BY <1>1, <1>5
<1>21. During(c)'
  <2>1. x = column'[c]
    BY <1>1, <1>6
  <2>2. QED
    BY <1>3, <1>10, <1>19, <1>20, <2>1 DEF During
<1>22. Changed(n, x)' /\ ~Blind(x)'
  BY <1>1, <1>9, <1>15, <1>18 DEF Blind
<1>23. Started(c)'
  BY <1>1, <1>3, <1>5, <1>6, <1>7, <1>22 DEF Started, Ahead, Written
<1>24. \A e \in 1 .. Len(events') : Past(events[e].capture)'
  <2> TAKE e \in 1 .. Len(events')
  <2>1. CASE e = l + 1
    BY <1>3, <1>12, <2>1 DEF Past, Ahead
  <2>2. CASE e \in 1 .. l
    <3>1. events'[e] = events[e] /\ events[e].capture \in Capture /\ Past(events[e].capture)
      BY <1>2, <1>7, <1>11, <1>12, <2>2, TurnFacts DEF AgreeInv
    <3>2. QED
      BY <1>7, <3>1
  <2>3. QED
    BY <1>11, <1>12, <2>1, <2>2
<1>25. QED
  BY <1>1, <1>3, <1>4, <1>7, <1>21, <1>23, <1>24, WrittenAgrees

LEMMA MoveAgrees ==
    ASSUME SessionInv, ConTypes', NEW c \in Capture, C!Move(c), Quiet'
    PROVE  AgreeInv'
<1>1. /\ stage[c] = "move" /\ C!Following(c)
      /\ session' = [session EXCEPT !.hash[column[c]] = C!Hash(c)]
      /\ UNCHANGED << graph, turns, events, next, seq, req, prompts, mixed, failures >>
  BY DEF C!Move, C!request, C!history
<1>2. ConTypes
  BY DEF SessionInv, OnceInv
<1>3. WrittenStep(c)
  BY <1>1, <1>2 DEF WrittenStep, Written, C!Following, C!Goto, ConTypes
<1>4. PICK n \in Nat : n = Len(turns)
  BY <1>2, TurnFacts
<1>5. PICK x \in Column : x = column[c]
  BY <1>3, WrittenFacts
<1>6. /\ AgreeInv /\ turns # << >> /\ Started(c) /\ session \in C!Row
      /\ \A d \in Capture : Past(d) => Past(d)'
  BY <1>3, WrittenFacts
<1>7. /\ n > 0 /\ turns[n].capture = c /\ C!Hash(c) = prompts[c][x]
      /\ C!Hash(c) \in C!Prompt /\ Counted(n) /\ Reported(n, x)
      /\ \A k \in Column : k # x =>
            IF Done(c, k) THEN Compared(n, k)
            ELSE session.hash[k] = Baselined(IF n = 1 THEN 1 ELSE n - 1, k)
                    /\ Reported(n - 1, k)
  <2>1. stage[c] # "upkeep"
    BY <1>1
  <2>2. QED
    BY <1>1, <1>3, <1>4, <1>5, <2>1, ColumnFacts
<1>8. /\ session'.total = session.total /\ session'.filled = session.filled
      /\ session'.hash[x] = C!Hash(c)
      /\ \A k \in Column : k # x => session'.hash[k] = session.hash[k]
      /\ session' \in C!Row
  <2>1. /\ session.hash \in [Column -> C!Prompt \cup {None}]
        /\ session' = [session EXCEPT !.hash = [session.hash EXCEPT ![x] = C!Hash(c)]]
    BY <1>1, <1>5, <1>6 DEF C!Row, Column
  <2>2. QED
    BY <1>6, <1>7, <2>1 DEF C!Row, Column
<1>9. \A i \in 1 .. n :
        /\ C!Supplied(turns[i].capture)' = C!Supplied(turns[i].capture)
        /\ \A k \in Column :
            Baselined(i, k)' = Baselined(i, k) /\ (Changed(i, k)' <=> Changed(i, k))
  BY <1>1, <1>2, <1>4, <1>6, TurnsKept
<1>10. Counted(n)'
  BY <1>1, <1>7, <1>8, <1>9 DEF Counted
<1>11. \A k \in Column : \A m \in {n - 1, n} : Reported(m, k)' <=> Reported(m, k)
  <2> TAKE k \in Column
  <2>1. \A i \in 1 .. n : ToldOf(i, k)' <=> ToldOf(i, k)
    BY <1>1 DEF ToldOf
  <2>2. QED
    BY <1>1, <1>4, <1>9, <2>1 DEF Reported, Blind
<1>12. (IF n = 1 THEN 1 ELSE n - 1) \in 1 .. n /\ n \in 1 .. n /\ n # 0
  BY <1>7
<1>13. ~Blind(x)
  BY <1>1, <1>5, <1>6 DEF Started
<1>14. Compared(n, x)'
  <2>1. Baselined(n, x) = C!Hash(c)
    BY <1>7, <1>13 DEF Baselined
  <2>2. QED
    BY <1>7, <1>8, <1>9, <1>11, <1>12, <2>1 DEF Compared
<1>15. \A k \in Column : k # x =>
            IF Done(c, k) THEN Compared(n, k)'
            ELSE session'.hash[k] = Baselined(IF n = 1 THEN 1 ELSE n - 1, k)'
                    /\ Reported(n - 1, k)'
  BY <1>7, <1>8, <1>9, <1>11, <1>12 DEF Compared
<1>16. Started(c)' /\ During(c)' /\ (stage'[c] = "done" => Rest')
  <2>1. stage[c] # "upkeep"
    BY <1>1
  <2>2. QED
    BY <1>1, <1>3, <1>4, <1>5, <1>10, <1>14, <1>15, <2>1, FollowingAgrees
<1>17. session' # None
  BY <1>8, ConversationAssumption
<1>18. \A e \in 1 .. Len(events') : Past(events[e].capture)'
  BY <1>1, <1>2, <1>6, TurnFacts DEF AgreeInv
<1>19. QED
  BY <1>3, <1>16, <1>17, <1>18, WrittenAgrees

LEMMA SessionStep ==
    ASSUME SessionInv, C!Next, OnceInv'
    PROVE  SessionInv'
<1>1. ConTypes' /\ ConTypes /\ failures \in Nat
  BY DEF SessionInv, OnceInv
<1> PICK c \in Capture :
        \/ C!Resolve(c) \/ C!ReadPrefix(c) \/ C!ReadPrefixFails(c)
        \/ C!WriteTurn(c) \/ C!WriteFails(c) \/ C!Upkeep(c)
        \/ C!Compare(c) \/ C!Tell(c) \/ C!Move(c) \/ C!DriftFails(c)
  BY DEF C!Next, Capture
<1>2. failures' = failures \/ failures' = failures + 1
  BY DEF C!Resolve, C!ReadPrefix, C!ReadPrefixFails, C!WriteTurn, C!WriteFails, C!Upkeep,
     C!Compare, C!Tell, C!Move, C!DriftFails, C!history
<1>3. ASSUME Quiet' PROVE AgreeInv'
  <2>1. failures' # failures + 1
    BY <1>1, <1>3 DEF Quiet
  <2>2. CASE C!ReadPrefixFails(c) \/ C!WriteFails(c) \/ C!DriftFails(c)
    BY <2>1, <2>2 DEF C!ReadPrefixFails, C!WriteFails, C!DriftFails
  <2>3. QED
    BY <1>1, <1>3, <2>2, ResolveAgrees, ReadAgrees, WriteAgrees, UpkeepAgrees,
       CompareAgrees, TellAgrees, MoveAgrees
<1>4. QED
  BY <1>1, <1>2, <1>3 DEF SessionInv

LEMMA SessionStart ==
    ASSUME C!Init, OnceInv
    PROVE  SessionInv
<1>1. /\ turns = << >> /\ events = << >> /\ session = None /\ failures = 0
      /\ next = [k \in Conn |-> 0] /\ stage = [c \in Capture |-> "idle"]
      /\ column = [c \in Capture |-> "system"]
  BY DEF C!Init, Capture
<1>2. Len(turns) = 0 /\ Len(events) = 0
  BY <1>1
<1>3. \A c \in Capture : Started(c) /\ During(c)
  BY <1>1 DEF Started, During, Ahead, Written
<1>4. Rest
  BY <1>1 DEF Rest
<1>5. \A k \in Conn : next[k] = 0
  BY <1>1
<1>6. AgreeInv
  BY <1>1, <1>2, <1>3, <1>4, <1>5 DEF AgreeInv
<1>7. QED
  BY <1>1, <1>6 DEF SessionInv

\* While nothing fails and no two captures run together, the row of a session
\* agrees with its turns whenever no capture is under way: total_turns is their
\* number, the columns hold what any of them can fill in, and exactly the changes
\* from one turn to the next have an event, but for the tools on PostgreSQL
\* (write_capture, the backfills, detect_drift_via_graph).
THEOREM RowAgrees == PartsSpec => []SessionAgrees
<1>1. PartsInit => SessionInv
  BY OnceStart, SessionStart DEF PartsInit
<1>2. ASSUME SessionInv, [PartsNext]_allVars PROVE SessionInv'
  <2>1. OnceInv'
    BY <1>2, OnceStep DEF SessionInv
  <2>2. CASE C!Next
    BY <1>2, <2>1, <2>2, SessionStep
  <2>3. CASE UNCHANGED conversationVars
    <3>1. UNCHANGED << graph, turns, session, events, next, stage, req, prompts, seq, new,
                       column, mixed, failures >>
      BY <2>3 DEF conversationVars
    <3>2. AgreeInv' <=> AgreeInv
      BY <3>1 DEF AgreeInv, Rest, Started, During, Runs, Past, Done, Counted, Compared,
         Reported, ToldOf, Changed, Baselined, Blind, C!Supplied
    <3>3. QED
      BY <1>2, <2>1, <3>1, <3>2 DEF SessionInv, Quiet
  <2>4. QED
    BY <1>2, <2>2, <2>3 DEF PartsNext, allVars, conversationVars
<1>3. SessionInv => SessionAgrees
  <2>1. SUFFICES ASSUME SessionInv, Quiet, C!Running = {}, turns # << >>
                 PROVE  C!SessionAgrees
    BY DEF SessionAgrees, C!SessionAgrees, Quiet
  <2>2. QED
    BY <2>1, AgreedAtRest DEF SessionInv, C!SessionAgrees
<1>4. QED
  BY <1>1, <1>2, <1>3, PTL DEF PartsSpec
=============================================================================
