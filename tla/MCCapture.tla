----------------------------- MODULE MCCapture -----------------------------
(***************************************************************************)
(* TLC instance of Capture: two exchanges of session a and a WebSocket     *)
(* handshake of session b, over two connections in any distribution.       *)
(***************************************************************************)
EXTENDS Capture, TLC

CONSTANTS x1, x2, w1, c1, c2, a, b, h1, h2, h3

MCExchange == {x1, x2, w1}
MCConn == {c1, c2}
MCSession == {a, b}
MCSessionOf == (x1 :> a) @@ (x2 :> a) @@ (w1 :> b)
MCRequestOf == (x1 :> h1) @@ (x2 :> h2) @@ (w1 :> h3)
MCUpgrade == {w1}
MCSymmetry == Permutations(MCConn)
=============================================================================
