---------------------------- MODULE PrayersParser ----------------------------
(***************************************************************************)
(* liturgical_parsers/bcp_prayers_and_thanksgivings.py: _process_node      *)
(* walks nested tags in document order; what it meets, one after another,  *)
(* is the page here.                                                       *)
(***************************************************************************)
EXTENDS PrayerBook

\* "heading" is an anchor with a number and "N. Title", "section" an anchor with
\* a name that holds the section's text, "section_beside" one that stands in a
\* <strong> or <p> with the text beside it, "cross_ref" a text that begins like
\* "see" or "for ... see".
PrayerKinds ==
    {"marker", "skip", "heading", "section", "section_beside", "rubric", "text", "cross_ref"}

\* _flush drops a prayer without a text.
PrayerEmit(unit) == IF HasPart(unit, {"body"}) THEN <<unit>> ELSE <<>>

\* _try_start_prayer_from_anchor
PrayerHeading == Reads("heading") /\ Begin(NewUnit, PrayerEmit(current), state)

\* The text beside the anchor is also one of the texts of the parent tag and
\* goes to the prayer before it.
SectionAnchor ==
    \E k \in {"section", "section_beside"} :
        /\ Reads(k)
        /\ section' = at
        /\ current' = IF k = "section_beside" /\ current # NoUnit
                        THEN With(current, "body", at) ELSE current
        /\ UNCHANGED <<book, state, page, pending, results>>

PrayerText ==
    \/ Reads("text") /\ Add("body", state)
    \/ Reads("rubric") /\ Add("rubric", state)

PrayersEnd == PageEnds(results \o PrayerEmit(current))

PrayersNext ==
    \/ PageMarker \/ Skip({"skip", "cross_ref"}) \/ PrayerHeading \/ SectionAnchor
    \/ PrayerText \/ PrayersEnd

PrayerOpens(k) == html[k] = "heading"
=============================================================================
