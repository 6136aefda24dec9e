---------------------------- MODULE MCConnection ----------------------------
(***************************************************************************)
(* TLC instance of Connection: two requests, of which the first may end in *)
(* a relay; a relay behind a second request differs from it only in what   *)
(* was captured before.                                                    *)
(***************************************************************************)
EXTENDS Connection
=============================================================================
