---------------------------- MODULE MCTurnStore ----------------------------
(***************************************************************************)
(* TLC instance of TurnStore: two live captures and one recovered capture, *)
(* all of one session.                                                     *)
(***************************************************************************)
EXTENDS TurnStore, TLC

CONSTANTS l1, l2, r1, a, key

MCLiveTurn == {l1, l2}
MCRecoveredTurn == {r1}
MCSession == {a}
MCSessionOf == (l1 :> a) @@ (l2 :> a) @@ (r1 :> a)
MCHashText == (a :> key)
=============================================================================
