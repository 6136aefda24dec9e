------------------------------ MODULE TurnLog ------------------------------
(***************************************************************************)
(* What the turns table promises to its readers: for every session an      *)
(* append-only log of turns.  A turn enters the log of its own session     *)
(* once, at the end, and is never moved, rewritten or removed.             *)
(*                                                                         *)
(* Nothing here knows about retries, transactions, locks, database         *)
(* backends or crashes: TurnStore shows that write_graph, with all of      *)
(* those, implements this module.                                          *)
(***************************************************************************)
EXTENDS Naturals, Sequences

CONSTANTS
    Turn,       \* turn ids, primary key of the turns table
    Session,    \* session ids
    SessionOf   \* the session_id column of each turn

VARIABLE log    \* log[s] is the turns of session s in sequence_num order

InLog(t) == \E i \in 1 .. Len(log[SessionOf[t]]) : log[SessionOf[t]][i] = t

Init == log = [s \in Session |-> << >>]

AppendTurn(t) ==
    /\ ~InLog(t)
    /\ log' = [log EXCEPT ![SessionOf[t]] = Append(@, t)]

Next == \E t \in Turn : AppendTurn(t)

Spec == Init /\ [][Next]_log
=============================================================================
