--------------------------- MODULE MCCaptureInbox ---------------------------
(* Values for the constants of CaptureInbox. *)
EXTENDS CaptureInbox, TLC

CONSTANTS c1, c2, c3

EveryKind == (c1 :> "text") @@ (c2 :> "note") @@ (c3 :> "typed")
OneText == c1 :> "text"
=============================================================================
