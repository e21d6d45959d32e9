------------------------- MODULE ProperLiturgyParser -------------------------
(***************************************************************************)
(* liturgical_parsers/bcp_proper_liturgies.py: every element with a text   *)
(* is a unit at once, under the section and the page read last. The lines  *)
(* of a table, which are units of their own, are one unit here.            *)
(***************************************************************************)
EXTENDS PrayerBook

\* "h2" stands for h2 to h4, "h2_id" for one with an id, "optional" for the
\* blocks with a border, "psalm" for a table of verses that gives the psalm's
\* number and "verses" for one that does not.
ProperKinds ==
    {"marker", "skip", "h1", "h2", "h2_id", "rubric", "optional", "strong", "psalm",
     "verses", "speakers", "table", "text"}

\* current_psalm_number, here where it was read, outlives its table.
PsalmNumber == IF pending = <<>> THEN 0 ELSE pending[1]

\* acc.emit
EmitUnit(part) == results' = Append(results, With([NewUnit EXCEPT !.section = section'], part, at))

ProperPage ==
    /\ Reads("marker")
    /\ page' = at
    /\ UNCHANGED <<book, state, current, section, pending, results>>

ProperHeading ==
    \E k \in {"h1", "h2", "h2_id", "strong"} :
        /\ Reads(k)
        /\ section' = IF k = "h1" THEN 0 ELSE at
        /\ IF k \in {"h2_id", "strong"} THEN EmitUnit("rubric") ELSE UNCHANGED results
        /\ UNCHANGED <<book, state, current, page, pending>>

ProperText ==
    \E k \in {"rubric", "optional", "speakers", "table", "text"} :
        /\ Reads(k)
        /\ UNCHANGED <<book, state, current, page, section, pending>>
        /\ EmitUnit(CASE k = "rubric" -> "rubric" [] k = "speakers" -> "speaker-line"
                      [] OTHER -> "prayer-body")

EmbeddedPsalm ==
    \E k \in {"psalm", "verses"} :
        /\ Reads(k)
        /\ UNCHANGED <<book, state, current, page, section>>
        /\ pending' = IF k = "psalm" THEN <<at>> ELSE pending
        /\ results' = Append(results,
               With(With(NewUnit, "number", PsalmNumber'), "psalm-verse", at))

ProperEnds == PageEnds(results)

ProperNext ==
    ProperPage \/ Skip({"skip"}) \/ ProperHeading \/ ProperText \/ EmbeddedPsalm \/ ProperEnds

ProperOpens(k) == html[k] \notin {"marker", "skip", "h1", "h2"}
=============================================================================
