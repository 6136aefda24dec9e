---------------------------- MODULE MCAttachments ----------------------------
(* TLC instance of Attachments: two turns that share an image, one of them  *)
(* with a remote image too; either may be captured or replayed.             *)
EXTENDS Attachments, TLC

CONSTANTS t1, t2, b1

MCTurn == {t1, t2}
MCBlob == {b1}
MCBlobsOf == (t1 :> << b1, UrlOnly >>) @@ (t2 :> << b1 >>)
=============================================================================
