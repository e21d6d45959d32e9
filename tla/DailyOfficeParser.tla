-------------------------- MODULE DailyOfficeParser --------------------------
(***************************************************************************)
(* liturgical_parsers/bcp_daily_office.py: the flat list of a page's       *)
(* elements with an index that runs through it and, twice, ahead of it.    *)
(***************************************************************************)
EXTENDS PrayerBook

Offices == {"morning_prayer", "compline", "great_litany"}

\* What the tests of the loop tell apart. "table_head" is a table with an id or
\* a heading cell, "strong" a paragraph with <strong> or an id, "blank_strong"
\* one whose name comes out empty, "season" a paragraph that begins with the
\* name of a season and "lone_season" one that is nothing else, "collect" a
\* paragraph that looks like a collect's title, "text" any other.
OfficeKinds ==
    {"marker", "skip", "h1", "h2", "rubric", "table_head", "table", "strong",
     "blank_strong", "season", "lone_season", "collect", "text", "blank"}

\* The parser goes through the list of the page's elements, which is made before.
ASSUME OfficeAssumption ==
    \A b \in Offices \cap Books : \A s \in Beginnings[b] : Len(s) = Longest[b]

Paragraphs == {"strong", "blank_strong", "season", "lone_season", "collect", "text", "blank"}
PassedOver == {"marker", "skip", "rubric"}
Ample == {"season", "text"}      \* paragraphs of 50 characters and more

\* The first of the next n elements that is not passed over, and is not in more.
FirstBelow(k, n, more) ==
    LET seen == {j \in k + 1 .. k + n : j <= Len(html) /\ html[j] \notin PassedOver \cup more}
    IN  IF seen = {} THEN 0 ELSE Min(seen)

\* The paragraph a season that stands alone takes for its sentence: the next
\* one within three elements, be it a heading.
SentenceBelow(k) ==
    LET j == FirstBelow(k, 3, {}) IN IF j # 0 /\ html[j] \in Paragraphs THEN j ELSE 0

\* _is_collect_heading: the first ample paragraph comes before any other tag.
PrayerBelow(k) ==
    LET j == FirstBelow(k, 7, Paragraphs \ Ample) IN j # 0 /\ html[j] \in Ample

\* Mutant: a heading without a body is dropped too.
OfficeEmitWithBody(unit) ==
    IF unit # NoUnit /\ unit.named /\ HasPart(unit, {"body"}) THEN <<unit>> ELSE <<>>

\* _emit drops a unit without a name.
OfficeEmit(unit) == IF unit # NoUnit /\ unit.named THEN <<unit>> ELSE <<>>

-----------------------------------------------------------------------------
TitleOpens(k) ==
    \/ k = "h1" /\ book \in {"compline", "great_litany"}
    \/ k = "h2" /\ book = "great_litany"

OfficeTitle ==
    \E k \in {"h1", "h2"} :
        \/ TitleOpens(k) /\ Reads(k) /\ Begin(NewUnit, OfficeEmit(current), "in_unit")
        \/ ~TitleOpens(k) /\ Skip({k})

OfficeHeading ==
    \E k \in {"strong", "blank_strong"} :
        /\ Reads(k)
        /\ Begin([NewUnit EXCEPT !.named = (k = "strong")], OfficeEmit(current), "in_unit")

OfficeTable ==
    \/ Reads("table_head") /\ Begin(With(NewUnit, "body", at), OfficeEmit(current), "in_unit")
    \/ Reads("table") /\ Add("body", state)

OfficeRubric == Reads("rubric") /\ Add("rubric", state)

\* A seasonal sentence ends the unit before it and is a unit by itself.
SeasonUnit(k) ==
    IF k = 0 \/ html[Max({k, 1})] = "blank" THEN NewUnit ELSE With(NewUnit, "body", k)

SeasonalSentence ==
    /\ Reads("season")
    /\ Begin(NoUnit, OfficeEmit(current) \o <<SeasonUnit(at)>>, "idle")

\* The name of the season alone: the index jumps to the sentence, over page
\* markers and rubrics.
LoneSeason ==
    /\ state # "done" /\ at <= Len(html) /\ html[at] = "lone_season"
    /\ at' = Max({at, SentenceBelow(at)}) + 1
    /\ Begin(NoUnit, OfficeEmit(current) \o <<SeasonUnit(SentenceBelow(at))>>, "idle")
    /\ UNCHANGED html

CollectHeading ==
    /\ PrayerBelow(at)
    /\ Reads("collect")
    /\ Begin(NewUnit, OfficeEmit(current), "after_collect_heading")

OfficeParagraph ==
    \E k \in {"text", "collect"} :
        /\ k = "collect" => ~PrayerBelow(at)
        /\ Reads(k)
        /\ Add("body", IF state = "after_collect_heading" /\ current # NoUnit
                         THEN "in_unit" ELSE state)

OfficeEnds == PageEnds(results \o OfficeEmit(current))

OfficeNext ==
    \/ PageMarker \/ Skip({"skip", "blank"}) \/ OfficeTitle \/ OfficeHeading \/ OfficeTable
    \/ OfficeRubric \/ SeasonalSentence \/ LoneSeason \/ CollectHeading \/ OfficeParagraph
    \/ OfficeEnds

-----------------------------------------------------------------------------
\* The page as a reader sees it, without the machine: which paragraph a lone
\* season takes, what it jumps over, and which elements open a unit.
TakenBySeason[k \in 1 .. Len(html)] ==
    \E s \in 1 .. k - 1 : html[s] = "lone_season" /\ ~TakenBySeason[s] /\ SentenceBelow(s) = k

JumpedOver(k) ==
    \E s \in 1 .. k - 1 : html[s] = "lone_season" /\ ~TakenBySeason[s] /\ SentenceBelow(s) > k

OfficeOpens(k) ==
    /\ ~TakenBySeason[k]
    /\ \/ html[k] \in {"strong", "blank_strong", "table_head", "season", "lone_season"}
       \/ html[k] = "collect" /\ PrayerBelow(k)
       \/ TitleOpens(html[k])
=============================================================================
