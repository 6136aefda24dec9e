------------------------------ MODULE Shutdown ------------------------------
(***************************************************************************)
(* Graceful shutdown of the gateway: the accept loop of run_listener, its  *)
(* connection tasks, and ShutdownController (shutting_down, active_count,  *)
(* wait_for_drain).                                                        *)
(*                                                                         *)
(* A connection is counted by the accept loop before its task is spawned   *)
(* and discounted by the last lines of the task.  The task returns before  *)
(* those lines on many paths: a probe of /healthz or /metrics, a client    *)
(* that leaves or sends a bad request, a ClientHello without SNI, a        *)
(* refused passthrough (EarlyReturn).                                      *)
(***************************************************************************)
EXTENDS Naturals, FiniteSets

CONSTANT Conn   \* client connections

ASSUME ConnAssumption == IsFiniteSet(Conn)

VARIABLES
    shutting_down,  \* set by Ctrl+C
    active_count,   \* connections registered and not deregistered
    loop,           \* where run_listener is
    conn            \* where each connection is

vars == << shutting_down, active_count, loop, conn >>

\* "top": about to check shutting_down; "select": waiting for a connection or
\* the 100 ms poll; then wait_for_drain and its two outcomes; then main returns.
LoopStep == {"top", "select", "draining", "drained", "timedOut",
             "exitedClean", "exitedEarly"}
Exited == {"exitedClean", "exitedEarly"}

\* "reading": the task reads the first bytes; "tunnel": MITM or passthrough,
\* exchanges are being captured; "leaving": about to deregister; "cut": the
\* process exited under the task.
ConnStep == {"absent", "backlog", "reading", "tunnel", "leaving", "ended", "cut"}
Live == {c \in Conn : conn[c] \in {"reading", "tunnel", "leaving"}}

Init ==
    /\ shutting_down = FALSE
    /\ active_count = 0
    /\ loop = "top"
    /\ conn = [c \in Conn |-> "absent"]

-----------------------------------------------------------------------------
(* Clients and the operator.                                               *)

ClientConnects(c) ==
    /\ conn[c] = "absent"
    /\ conn' = [conn EXCEPT ![c] = "backlog"]
    /\ UNCHANGED << shutting_down, active_count, loop >>

Signal ==
    /\ ~shutting_down
    /\ loop \notin Exited
    /\ shutting_down' = TRUE
    /\ UNCHANGED << active_count, loop, conn >>

-----------------------------------------------------------------------------
(* The accept loop.                                                        *)

CheckShutdown ==
    /\ loop = "top"
    /\ loop' = IF shutting_down THEN "draining" ELSE "select"
    /\ UNCHANGED << shutting_down, active_count, conn >>

\* Mutant of Accept: the task registers itself, after it was spawned.
AcceptUnregistered(c) ==
    /\ loop = "select"
    /\ conn[c] = "backlog"
    /\ conn' = [conn EXCEPT ![c] = "reading"]
    /\ loop' = "top"
    /\ UNCHANGED << shutting_down, active_count >>

\* listener.accept, register_active and spawn.
Accept(c) ==
    /\ loop = "select"
    /\ conn[c] = "backlog"
    /\ active_count' = active_count + 1
    /\ conn' = [conn EXCEPT ![c] = "reading"]
    /\ loop' = "top"
    /\ UNCHANGED shutting_down

AcceptError ==
    /\ loop = "select"
    /\ loop' = "top"
    /\ UNCHANGED << shutting_down, active_count, conn >>

\* Mutant of PollShutdown: the flag is only looked at between accepts.
NeverPoll == FALSE /\ UNCHANGED vars

PollShutdown ==
    /\ loop = "select"
    /\ shutting_down
    /\ loop' = "draining"
    /\ UNCHANGED << shutting_down, active_count, conn >>

-----------------------------------------------------------------------------
(* A connection task.                                                      *)

\* return before the end of the task: active_count keeps the connection.
EarlyReturn(c) ==
    /\ conn[c] = "reading"
    /\ conn' = [conn EXCEPT ![c] = "ended"]
    /\ UNCHANGED << shutting_down, active_count, loop >>

OpenTunnel(c) ==
    /\ conn[c] = "reading"
    /\ conn' = [conn EXCEPT ![c] = "tunnel"]
    /\ UNCHANGED << shutting_down, active_count, loop >>

\* A tunnel closes, or an unknown first line is answered with 400.
Finish(c) ==
    /\ conn[c] \in {"reading", "tunnel"}
    /\ conn' = [conn EXCEPT ![c] = "leaving"]
    /\ UNCHANGED << shutting_down, active_count, loop >>

\* Mutant of Deregister: the count is reset instead of decremented.
DeregisterAll(c) ==
    /\ conn[c] = "leaving"
    /\ active_count' = 0
    /\ conn' = [conn EXCEPT ![c] = "ended"]
    /\ UNCHANGED << shutting_down, loop >>

\* Mutant of Deregister: the decrement is skipped at one, then wraps.
DeregisterWrapping(c) ==
    /\ conn[c] = "leaving"
    /\ active_count' = IF active_count = 1 THEN Cardinality(Conn) + 1 ELSE active_count - 1
    /\ conn' = [conn EXCEPT ![c] = "ended"]
    /\ UNCHANGED << shutting_down, loop >>

\* deregister_active saturates at zero.
Deregister(c) ==
    /\ conn[c] = "leaving"
    /\ active_count' = IF active_count = 0 THEN 0 ELSE active_count - 1
    /\ conn' = [conn EXCEPT ![c] = "ended"]
    /\ UNCHANGED << shutting_down, loop >>

-----------------------------------------------------------------------------
(* wait_for_drain and the end of the process.                              *)

Drained ==
    /\ loop = "draining"
    /\ active_count = 0
    /\ loop' = "drained"
    /\ UNCHANGED << shutting_down, active_count, conn >>

\* The deadline (120 s) passed and the last look at the count was not zero.
DrainTimeout ==
    /\ loop = "draining"
    /\ active_count # 0
    /\ loop' = "timedOut"
    /\ UNCHANGED << shutting_down, active_count, conn >>

\* run_listener returns, the runtime is dropped and every task with it.
Exit ==
    /\ loop \in {"drained", "timedOut"}
    /\ loop' = IF loop = "drained" THEN "exitedClean" ELSE "exitedEarly"
    /\ conn' = [c \in Conn |-> IF c \in Live THEN "cut" ELSE conn[c]]
    /\ UNCHANGED << shutting_down, active_count >>

-----------------------------------------------------------------------------
Task(c) == EarlyReturn(c) \/ OpenTunnel(c) \/ Finish(c) \/ Deregister(c)

Listener ==
    \/ CheckShutdown
    \/ \E c \in Conn : Accept(c)
    \/ AcceptError
    \/ PollShutdown
    \/ Drained
    \/ DrainTimeout
    \/ Exit

Next ==
    \/ Listener
    \/ Signal
    \/ \E c \in Conn : ClientConnects(c) \/ Task(c)

Spec == Init /\ [][Next]_vars

\* The listener task is polled whenever one of its futures is ready: the flag
\* is read at the top of the loop and every 100 ms, and the drain deadline
\* passes.  No fairness of clients: a tunnel may stay open for ever.
FairSpec ==
    /\ Spec
    /\ WF_vars(CheckShutdown)
    /\ WF_vars(PollShutdown)
    /\ WF_vars(Drained \/ DrainTimeout)
    /\ WF_vars(Exit)
-----------------------------------------------------------------------------
(* Properties.                                                             *)

TypeOK ==
    /\ shutting_down \in BOOLEAN
    /\ active_count \in 0 .. Cardinality(Conn)
    /\ loop \in LoopStep
    /\ conn \in [Conn -> ConnStep]

\* No connection task runs uncounted: register_active comes before the spawn
\* and every deregister_active belongs to a task of its own.
ActiveCoversLive == Cardinality(Live) <= active_count

\* "All active connections drained successfully" is never said while a tunnel,
\* and the exchange it is capturing, is about to be cut off by the exit.
CleanExitCutsNothing == loop = "exitedClean" => \A c \in Conn : conn[c] # "cut"

\* Ctrl+C always ends the process, whether connections keep arriving, none
\* arrives, or tunnels never close.
SignalLeadsToExit == shutting_down ~> loop \in Exited

\* wait_for_drain: "returns Err if the timeout elapsed with connections still
\* active": the drain only times out on a connection that exists.
TimeoutMeansActive ==
    [][(loop = "draining" /\ loop' = "timedOut") => Live # {}]_vars
=============================================================================
