--------------------------- MODULE CollectsParser ---------------------------
(***************************************************************************)
(* liturgical_parsers/bcp_collects.py: heading, body up to its Amen, then  *)
(* perhaps a preface, a rubric and another body.                           *)
(***************************************************************************)
EXTENDS PrayerBook

\* "amen" is a paragraph with Amen in it, "preface" one that begins "Preface ".
CollectKinds ==
    {"marker", "skip", "rubric", "strong", "blank_strong", "text", "amen", "preface"}

\* _finalise drops a collect without a name or a body.
CollectEmit(unit) ==
    IF unit.named /\ HasPart(unit, {"body"}) THEN <<unit>> ELSE <<>>

CollectHead ==
    \E k \in {"strong", "blank_strong"} :
        /\ Reads(k)
        /\ Begin([NewUnit EXCEPT !.named = (k = "strong")], CollectEmit(current), "in_heading")

CollectRubric == Reads("rubric") /\ Add("rubric", state)

BodyParagraph(k) ==
    /\ k = "preface" => state = "in_heading"
    /\ Add("body", IF k = "amen" THEN "after_amen"
                   ELSE IF state = "in_heading" THEN "in_body" ELSE state)

\* The first preface is kept, a second one is lost.
Preface ==
    /\ state \in {"in_body", "after_amen"}
    /\ IF ~HasPart(current, {"preface"})
         THEN Add("preface", "after_amen")
         ELSE UNCHANGED <<book, state, current, page, section, pending, results>>

CollectParagraph ==
    \E k \in {"text", "amen", "preface"} :
        /\ Reads(k)
        /\ \/ state = "idle" /\ Add("body", state)
           \/ state # "idle" /\ BodyParagraph(k)
           \/ k = "preface" /\ Preface

CollectsEnd == PageEnds(results \o CollectEmit(current))

CollectsNext ==
    PageMarker \/ Skip({"skip"}) \/ CollectHead \/ CollectRubric \/ CollectParagraph \/ CollectsEnd

CollectOpens(k) == html[k] \in {"strong", "blank_strong"}
=============================================================================
