--------------------------- MODULE ShutdownProofs ---------------------------
(***************************************************************************)
(* The safety of Shutdown for any finite number of connections.            *)
(*                                                                         *)
(* active_count is squeezed between two sets: every running task is        *)
(* counted (ActiveCoversLive), and nothing is counted that was not         *)
(* accepted (CountedAccepted).  The lower bound makes "drained" mean that  *)
(* no task runs, and none can start because the accept loop is over        *)
(* (NoneLeft); so the exit after it cuts nothing.                          *)
(***************************************************************************)
EXTENDS Shutdown, FiniteSetTheorems, TLAPS

Accepted == {c \in Conn : conn[c] \notin {"absent", "backlog"}}

Typed ==
    /\ shutting_down \in BOOLEAN
    /\ active_count \in Nat
    /\ loop \in LoopStep
    /\ conn \in [Conn -> ConnStep]

CountedAccepted == active_count <= Cardinality(Accepted)

NoneLeft == loop \in {"drained", "exitedClean"} => Live = {}

\* A task is only cut by the exit that follows a timeout.
CutEarly == \A c \in Conn : conn[c] = "cut" => loop = "exitedEarly"

IInv == Typed /\ ActiveCoversLive /\ CountedAccepted /\ NoneLeft /\ CutEarly

-----------------------------------------------------------------------------

\* Subsets of Conn are finite and have a natural number of elements.
LEMMA Counts ==
    ASSUME NEW S \in SUBSET Conn
    PROVE  IsFiniteSet(S) /\ Cardinality(S) \in Nat
BY ConnAssumption, FS_Subset, FS_CardinalityType

\* A smaller set has at most as many elements.
LEMMA Fewer ==
    ASSUME NEW S \in SUBSET Conn, NEW T \in SUBSET S
    PROVE  Cardinality(T) <= Cardinality(S)
BY Counts, FS_Subset

\* The initial states satisfy the invariant.
LEMMA InitInv == Init => IInv
<1> SUFFICES ASSUME Init PROVE IInv
  OBVIOUS
<1>1. Typed
  BY DEF Init, Typed, LoopStep, ConnStep
<1>2. Live = {} /\ Accepted = {}
  BY DEF Init, Live, Accepted
<1>3. Cardinality(Live) = 0 /\ Cardinality(Accepted) = 0
  BY <1>2, FS_EmptySet
<1>4. ActiveCoversLive /\ CountedAccepted
  BY <1>3 DEF Init, ActiveCoversLive, CountedAccepted
<1>5. NoneLeft /\ CutEarly
  BY DEF Init, NoneLeft, CutEarly
<1>6. QED
  BY <1>1, <1>4, <1>5 DEF IInv

\* A step that changes no connection's phase keeps the two bounds.
LEMMA QuietInv ==
    ASSUME IInv, UNCHANGED << active_count, conn >>,
           shutting_down' \in BOOLEAN, loop' \in LoopStep,
           loop' = "drained" => (loop = "draining" /\ active_count = 0),
           loop' \notin Exited, loop \notin Exited
    PROVE  IInv'
<1>1. Typed'
  BY DEF IInv, Typed
<1>2. Live' = Live /\ Accepted' = Accepted
  BY DEF Live, Accepted
<1>3. ActiveCoversLive' /\ CountedAccepted'
  BY <1>2 DEF IInv, ActiveCoversLive, CountedAccepted
<1>4. NoneLeft'
  <2> SUFFICES ASSUME loop' = "drained" PROVE Live = {}
    BY <1>2 DEF NoneLeft, Exited
  <2>1. Cardinality(Live) = 0
    <3>1. Cardinality(Live) \in Nat
      BY Counts DEF Live
    <3>2. QED
      BY <3>1 DEF IInv, ActiveCoversLive
  <2>2. IsFiniteSet(Live)
    BY Counts DEF Live
  <2>3. QED
    BY <2>1, <2>2, FS_EmptySet
<1>5. CutEarly'
  BY DEF IInv, CutEarly, Exited
<1>6. QED
  BY <1>1, <1>3, <1>4, <1>5 DEF IInv

\* A step of a task keeps them: running or not, it stays accepted.
LEMMA TaskInv ==
    ASSUME IInv, NEW c \in Conn, Task(c)
    PROVE  IInv'
<1> USE DEF IInv, Typed, ConnStep
<1>1. /\ conn[c] \in {"reading", "tunnel", "leaving"}
      /\ conn'[c] \in {"tunnel", "leaving", "ended"}
      /\ \A d \in Conn \ {c} : conn'[d] = conn[d]
      /\ conn' \in [Conn -> ConnStep]
      /\ UNCHANGED << shutting_down, loop >>
  BY DEF Task, EarlyReturn, OpenTunnel, Finish, Deregister
<1>2. Accepted' = Accepted
  BY <1>1 DEF Accepted
<1>3. Live' \in SUBSET Live /\ c \in Live
  BY <1>1 DEF Live
<1>4. Live \in SUBSET Conn
  BY DEF Live
<1>5. Cardinality(Live) \in Nat /\ Cardinality(Live') \in Nat /\ IsFiniteSet(Live)
  BY <1>3, <1>4, Counts
<1>6. Cardinality(Accepted) \in Nat
  BY Counts DEF Accepted
<1>7. Typed' /\ ActiveCoversLive' /\ CountedAccepted'
  <2>1. CASE Deregister(c)
    <3>1. Live' = Live \ {c}
      BY <2>1 DEF Deregister, Live
    <3>2. Cardinality(Live') = Cardinality(Live) - 1
      BY <1>3, <1>5, <3>1, FS_RemoveElement
    <3>3. active_count >= 1
      BY <1>5, <3>2 DEF ActiveCoversLive
    <3>4. active_count' = active_count - 1
      BY <2>1, <3>3 DEF Deregister
    <3>5. QED
      BY <1>1, <1>2, <1>5, <1>6, <3>2, <3>3, <3>4 DEF ActiveCoversLive, CountedAccepted
  <2>2. CASE ~Deregister(c)
    <3>1. active_count' = active_count
      BY <2>2 DEF Task, EarlyReturn, OpenTunnel, Finish
    <3>2. Cardinality(Live') <= Cardinality(Live)
      BY <1>3, <1>4, Fewer
    <3>3. QED
      BY <1>1, <1>2, <1>5, <3>1, <3>2 DEF ActiveCoversLive, CountedAccepted
  <2>3. QED
    BY <2>1, <2>2
<1>8. NoneLeft'
  BY <1>1, <1>3 DEF NoneLeft
<1>9. CutEarly'
  BY <1>1 DEF CutEarly
<1>10. QED
  BY <1>7, <1>8, <1>9

\* An accepted connection is counted before it runs.
LEMMA AcceptInv ==
    ASSUME IInv, NEW c \in Conn, Accept(c)
    PROVE  IInv'
<1> USE DEF IInv, Typed, ConnStep, Accept
<1>1. Typed'
  BY DEF LoopStep
<1>2. /\ Live' = Live \cup {c} /\ c \notin Live
      /\ Accepted' = Accepted \cup {c} /\ c \notin Accepted
  BY DEF Live, Accepted
<1>3. IsFiniteSet(Live) /\ IsFiniteSet(Accepted)
  BY Counts DEF Live, Accepted
<1>4. /\ Cardinality(Live') = Cardinality(Live) + 1
      /\ Cardinality(Accepted') = Cardinality(Accepted) + 1
  BY <1>2, <1>3, FS_AddElement
<1>5. Cardinality(Live) \in Nat /\ Cardinality(Accepted) \in Nat
  BY <1>3, FS_CardinalityType
<1>6. ActiveCoversLive' /\ CountedAccepted'
  BY <1>4, <1>5 DEF ActiveCoversLive, CountedAccepted
<1>7. NoneLeft' /\ CutEarly'
  BY DEF NoneLeft, CutEarly
<1>8. QED
  BY <1>1, <1>6, <1>7

\* The exit cuts the tasks that still run; after "drained" there are none.
LEMMA ExitInv == ASSUME IInv, Exit PROVE IInv'
<1> USE DEF IInv, Typed, ConnStep, Exit
<1>1. Typed'
  BY DEF LoopStep
<1>2. Live' = {}
  BY DEF Live
<1>3. Accepted' = Accepted
  BY DEF Accepted, Live
<1>4. Cardinality(Live') = 0
  BY <1>2, FS_EmptySet
<1>5. ActiveCoversLive' /\ CountedAccepted'
  BY <1>3, <1>4 DEF ActiveCoversLive, CountedAccepted
<1>6. NoneLeft'
  BY <1>2 DEF NoneLeft
<1>7. CutEarly'
  BY DEF CutEarly, NoneLeft
<1>8. QED
  BY <1>1, <1>5, <1>6, <1>7

\* A client in the backlog is neither running nor accepted.
LEMMA ConnectInv == ASSUME IInv, NEW c \in Conn, ClientConnects(c) PROVE IInv'
<1> USE DEF IInv, Typed, ConnStep, ClientConnects
<1>1. Typed'
  OBVIOUS
<1>2. Live' = Live /\ Accepted' = Accepted
  BY DEF Live, Accepted
<1>3. ActiveCoversLive' /\ CountedAccepted' /\ NoneLeft' /\ CutEarly'
  BY <1>2 DEF ActiveCoversLive, CountedAccepted, NoneLeft, CutEarly
<1>4. QED
  BY <1>1, <1>3

LEMMA StepInv == IInv /\ [Next]_vars => IInv'
<1> SUFFICES ASSUME IInv, [Next]_vars PROVE IInv'
  OBVIOUS
<1> USE DEF IInv, Typed
<1>1. CASE CheckShutdown
  BY <1>1, QuietInv DEF CheckShutdown, LoopStep, Exited
<1>2. ASSUME NEW c \in Conn, Accept(c) PROVE IInv'
  BY <1>2, AcceptInv
<1>3. CASE AcceptError \/ PollShutdown
  BY <1>3, QuietInv DEF AcceptError, PollShutdown, LoopStep, Exited
<1>4. CASE Drained \/ DrainTimeout
  BY <1>4, QuietInv DEF Drained, DrainTimeout, LoopStep, Exited
<1>5. CASE Exit
  BY <1>5, ExitInv
<1>6. CASE Signal
  <2>1. Live' = Live /\ Accepted' = Accepted
    BY <1>6 DEF Signal, Live, Accepted
  <2>2. QED
    BY <1>6, <2>1 DEF Signal, ActiveCoversLive, CountedAccepted, NoneLeft, CutEarly
<1>7. ASSUME NEW c \in Conn, ClientConnects(c) \/ Task(c) PROVE IInv'
  BY <1>7, ConnectInv, TaskInv
<1>8. CASE UNCHANGED vars
  <2>1. Live' = Live /\ Accepted' = Accepted
    BY <1>8 DEF vars, Live, Accepted
  <2>2. QED
    BY <1>8, <2>1 DEF vars, ActiveCoversLive, CountedAccepted, NoneLeft, CutEarly
<1>9. QED
  BY <1>1, <1>2, <1>3, <1>4, <1>5, <1>6, <1>7, <1>8 DEF Next, Listener

LEMMA Invariance == Spec => []IInv
BY InitInv, StepInv, PTL DEF Spec

-----------------------------------------------------------------------------

\* Type correctness: active_count never exceeds the number of connections.
THEOREM TypeCorrect == Spec => []TypeOK
<1>1. ASSUME IInv PROVE TypeOK
  <2>1. Cardinality(Accepted) <= Cardinality(Conn) /\ Cardinality(Conn) \in Nat
    BY Counts, Fewer DEF Accepted
  <2>2. Cardinality(Accepted) \in Nat
    BY Counts DEF Accepted
  <2>3. QED
    BY <1>1, <2>1, <2>2 DEF IInv, Typed, CountedAccepted, TypeOK
<1>2. QED
  BY Invariance, <1>1, PTL

\* No connection task ever runs uncounted.
THEOREM ActiveCovers == Spec => []ActiveCoversLive
<1>1. IInv => ActiveCoversLive
  BY DEF IInv
<1>2. QED
  BY Invariance, <1>1, PTL

\* An exit after a reported drain never cuts a connection.
THEOREM CleanExit == Spec => []CleanExitCutsNothing
<1>1. IInv => CleanExitCutsNothing
  BY DEF IInv, CutEarly, CleanExitCutsNothing
<1>2. QED
  BY Invariance, <1>1, PTL
=============================================================================
