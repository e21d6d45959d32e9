--------------------------- MODULE MCStuckRepair ---------------------------
(* Values for the constants of StuckRepair and of the DocumentIndex in it. *)
EXTENDS StuckRepair, TLC

CONSTANTS s1, s2

TwoKinds ==
    {(s1 :> "conversation") @@ (s2 :> "book"), (s1 :> "dayone") @@ (s2 :> "book")}
=============================================================================
