------------------------- MODULE LiturgicalParsers -------------------------
(***************************************************************************)
(* The six parsers behind the liturgy imports, one page at a time, and     *)
(* what they have in common: every text goes to the unit it stands in, on  *)
(* the page and in the section it is printed in.                           *)
(***************************************************************************)
EXTENDS DailyOfficeParser, CollectsParser, PsalterParser, ProperLiturgyParser, PrayersParser,
        LesserFeastsParser

ParserNext ==
    \/ book \in Offices /\ OfficeNext
    \/ book = "collects" /\ CollectsNext
    \/ book = "psalter" /\ PsalterNext
    \/ book = "proper_liturgies" /\ ProperNext
    \/ book = "prayers" /\ PrayersNext
    \/ book = "lff_2024" /\ FeastsNext

ParserSpec == BookInit /\ [][ParserNext]_bookVars

-----------------------------------------------------------------------------
ReadSoFar == 1 .. IF at > Len(html) THEN Len(html) ELSE at - 1

Units == ToSet(results) \cup ({current} \ {NoUnit})

\* Element k opens a unit, by the look of the page alone.
Opens(k) ==
    CASE book \in Offices -> OfficeOpens(k)
      [] book = "collects" -> CollectOpens(k)
      [] book = "psalter" -> PsalterOpens(k)
      [] book = "proper_liturgies" -> ProperOpens(k)
      [] book = "prayers" -> PrayerOpens(k)
      [] book = "lff_2024" -> FeastOpens(k)

\* The heading element k stands under: the last one at or before it, or none.
HeadingOf(k) ==
    LET heads == {h \in 1 .. k : Opens(h)} IN IF heads = {} THEN 0 ELSE Max(heads)

\* Every piece of a unit stands under the unit's own heading, but for the day of
\* the month, printed before its psalm, and a psalm number its table lacks.
TextUnderItsHeading ==
    \A unit \in Units : \A i \in DOMAIN unit.text :
        unit.text[i][1] \notin {"psday", "number"} => HeadingOf(unit.text[i][2]) = unit.head

LastBefore(k, kinds) ==
    LET seen == {j \in 1 .. k : html[j] \in kinds /\ (book \in Offices => ~JumpedOver(j))}
    IN  IF seen = {} THEN 0 ELSE Max(seen)

\* The two rites of a collect: no text of Rite II before one of Rite I, none
\* before its own label, none after the lessons.
RitesApart ==
    book = "lff_2024" => \A unit \in Units : \A i, j \in DOMAIN unit.text :
        LET p == unit.text[i] q == unit.text[j]
        IN  /\ p[1] = "rite_ii" /\ q[1] = "rite_i" => p[2] > q[2]
            /\ p[1] = "rite_i" => \A n \in LastBefore(p[2], {"name"}) .. p[2] :
                  html[n] \in RiteII => html[n] = "II_text" /\ html[n - 1] = "name"
            /\ p[1] = "rite_ii" => \E n \in unit.head .. p[2] : html[n] \in RiteII
            /\ p[1] = "lessons" /\ q[1] \in {"rite_i", "rite_ii"} => p[2] > q[2]

\* A name is one row of bold spans.
FirstName(k) ==
    \A i, j \in Max(PagesBefore(k)) .. k : html[i] = "name" /\ i < j => html[j] = "name"

\* The label of a rite with text beside it is the first one of its page, and
\* not the span right after the name.
FirstLabel(k) ==
    LET start == Max(PagesBefore(k))
        earlier == IF html[k] = "II_text" THEN RiteII ELSE RiteII \cup {"I", "I_text"}
    IN  /\ html[k - 1] # "name"
        /\ \E j \in start .. k : html[j] = "name"
        /\ \A j \in start .. k - 1 : html[j] \notin earlier

\* The elements with a text to keep. What follows a seasonal sentence or a
\* heading without a name is not: those parsers have no unit for it.
HasText(k) ==
    CASE book \in Offices ->
           \/ TakenBySeason[k] /\ html[k] # "blank"
           \/ /\ html[k] \in {"table", "rubric", "text", "collect"}
              /\ html[k] = "collect" => ~PrayerBelow(k)
              /\ ~JumpedOver(k)
              /\ HeadingOf(k) # 0 =>
                   html[HeadingOf(k)] \notin {"season", "lone_season", "blank_strong"}
      [] book = "collects" ->
           html[k] \in {"text", "amen", "rubric"} /\ html[Max({HeadingOf(k), 1})] # "blank_strong"
      [] book = "psalter" -> html[k] = "verse"
      [] book = "proper_liturgies" -> html[k] \notin {"marker", "skip", "h1", "h2"}
      [] book = "prayers" -> html[k] \in {"text", "rubric"}
      [] book = "lff_2024" ->
           \/ html[k] = "name" /\ FirstName(k)
           \/ html[k] \in SmallPrint /\ html[Max(PagesBefore(k))] = "bio_page"
           \/ html[k] \in WithText /\ FirstLabel(k)

BodyKinds ==
    IF book = "lff_2024" THEN {"name"}
    ELSE {"text", "amen", "preface", "section_beside", "verse"}

\* The unit under heading h is kept: it is being built, or its parser found the
\* body or the name without which it drops a unit.
IsKept(h) ==
    \/ h = current.head
    \/ book \in Offices \cup {"proper_liturgies"}
    \/ \E j \in ReadSoFar : HeadingOf(j) = h /\ html[j] \in BodyKinds

\* No text that stands under a heading is lost: at any time it is in the unit of
\* that heading, emitted or being built.
NoTextLost ==
    \A k \in ReadSoFar :
        HeadingOf(k) # 0 /\ HasText(k) /\ IsKept(HeadingOf(k)) =>
            \E unit \in Units :
                unit.head = HeadingOf(k) /\ \E i \in DOMAIN unit.text : unit.text[i][2] = k
-----------------------------------------------------------------------------
\* The first marker below a unit's heading and before the next one.
FirstBelowHeading(h) ==
    LET seen == {j \in ReadSoFar : j > h /\ html[j] = "marker" /\ HeadingOf(j) = h
                                   /\ (book \in Offices => ~JumpedOver(j))}
    IN  IF seen = {} THEN 0 ELSE Min(seen)

\* A unit has the number of the page marker above it, or before the first marker
\* of the file of the first one within it (seasonal sentences and the units of
\* the proper liturgies are closed by then).
PageIsPrinted ==
    book \notin {"psalter", "lff_2024"} =>
        \A unit \in Units :
            unit.page = IF LastBefore(unit.head, {"marker"}) # 0
                          THEN LastBefore(unit.head, {"marker"})
                        ELSE IF book = "proper_liturgies" \/ html[unit.head] \in {"season", "lone_season"}
                          THEN 0 ELSE FirstBelowHeading(unit.head)

\* A unit of the proper liturgies, and a prayer, is under the last section
\* heading above it, a psalm under the last number.
SectionIsPrinted ==
    \A unit \in Units :
        /\ book = "proper_liturgies" =>
             LET h == LastBefore(unit.head, {"h1", "h2", "h2_id", "strong"})
             IN  unit.section = IF h # 0 /\ html[h] = "h1" THEN 0 ELSE h
        /\ book = "prayers" =>
             unit.section = LastBefore(unit.head, {"section", "section_beside"})
        /\ \A i \in DOMAIN unit.text :
             unit.text[i][1] = "number" => unit.text[i][2] = LastBefore(unit.head, {"psalm"})

\* A commemoration that has a date has one of its own pages', or when its first
\* page bears none the last date printed before it, be it another's.
EndOfFirstPage(h) ==
    LET next == {j \in ReadSoFar : j > h /\ html[j] \in FeastPages}
    IN  IF next = {} THEN Max(ReadSoFar) ELSE Min(next) - 1

DateIsPrinted ==
    book = "lff_2024" => \A unit \in Units :
        unit.section # 0 =>
            /\ html[unit.section] = "date"
            /\ HeadingOf(unit.section) = unit.head \/ unit.section < unit.head
            /\ \A j \in unit.head .. EndOfFirstPage(unit.head) :
                   html[j] = "date" => unit.section \in unit.head .. j

\* Text goes where the page prints it: to the unit whose heading it stands
\* under, and in a saint's collects to the right rite; and what a unit says of its
\* page, its section and its date is what is printed.
TextInItsPlace ==
    TextUnderItsHeading /\ RitesApart /\ PageIsPrinted /\ SectionIsPrinted /\ DateIsPrinted

-----------------------------------------------------------------------------
\* What the parsers keep as texts of a unit, apart from what waits in pending or
\* is taken off again.
OwnText(unit) ==
    {unit.text[i][2] : i \in {n \in DOMAIN unit.text :
        /\ unit.text[n][1] \notin {"psday", "subheading", "number", "bio", "rubric"}
        /\ html[unit.text[n][2]] # "or"}}

Shelved(unit) == [head |-> unit.head, text |-> IF unit.named THEN OwnText(unit) ELSE {}]

Anthology == INSTANCE Anthology WITH
    Element <- Nat,
    Nobody <- [head |-> 0, text |-> {}],
    read <- at - 1,
    open <- Shelved(current),
    shelf <- {Shelved(unit) : unit \in ToSet(results)}

\* Every parser keeps the promise of Anthology: whatever is read later never
\* changes a unit that is finished, and none with a text is thrown away.
ImplementsAnthology == Anthology!AnthologySpec
=============================================================================
