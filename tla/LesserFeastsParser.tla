------------------------- MODULE LesserFeastsParser -------------------------
(***************************************************************************)
(* liturgical_parsers/lff_2024.py: the spans of a PDF, page after page. A  *)
(* page with a name in bold is a collect page, any other tells the life of *)
(* whom the next collect page names. The first pass notes the running date *)
(* of every page, the second builds the entries; here each page is         *)
(* classified and dated while its spans go by.                             *)
(***************************************************************************)
EXTENDS PrayerBook

\* A page begins, with its role, or a span follows: "I_text" is the label I with
\* the first line beside it, "italic" 11pt italics but no date and no Amen,
\* "subtitle" 9pt italics, "prose" 9pt roman, "lessons" the label in bold 9pt.
FeastPages == {"bio_page", "collect_page"}
Spans == {"name", "date", "amen", "italic", "subtitle", "prose", "or", "lessons",
          "I", "I_text", "II", "II_text", "body"}
FeastKinds == FeastPages \cup Spans

SmallPrint == {"subtitle", "prose", "or", "lessons"}         \* is_bio_prose
RiteII == {"II", "II_text"}
BodyText == {"I", "I_text", "body"} \cup RiteII              \* is_body_text
WithText == {"I_text", "II_text"}

\* The part of the entry span k belongs to and the state it leads to, when the
\* machine of _parse_collect_page is in state s; "" for no part. Spans that
\* are not named are passed over.
Move(part, s) == [part |-> part, state |-> s]

\* Mutant: text.startswith("I") takes the label II for I.
RiteStartsByLetter(k, lost) ==
    CASE k \in {"I", "II"} -> Move("", "rite_i")
      [] k \in {"I_text", "II_text"} -> Move("rite_i", "rite_i")
      [] OTHER -> Move("", lost)

RiteStarts(k, lost) ==
    CASE k \in {"I", "I_text"} -> Move(IF k = "I_text" THEN "rite_i" ELSE "", "rite_i")
      [] k \in RiteII -> Move(IF k = "II_text" THEN "rite_ii" ELSE "", "rite_ii")
      [] OTHER -> Move("", lost)

CollectSpan(s, k) ==
    CASE s = "before_name" -> IF k = "name" THEN Move("name", "in_name") ELSE Move("", s)
      [] s = "in_name" ->
           CASE k = "name" -> Move("name", s)
             [] k = "subtitle" -> Move("subtitle", "after_name")
             [] k \in {"I", "II"} -> RiteStarts(k, s)
             [] OTHER -> Move("", "after_name")
      [] s = "after_name" -> RiteStarts(k, s)
      [] s = "rite_i" ->
           CASE k = "amen" -> Move(s, "after_rite_i")
             [] k \in RiteII -> RiteStarts(k, s)
             [] k \in {"date", "italic"} \cup (BodyText \ RiteII) -> Move(s, s)
             [] OTHER -> Move("", s)
      [] s = "after_rite_i" -> IF k \in RiteII THEN RiteStarts(k, s) ELSE Move("", s)
      [] s = "rite_ii" ->
           CASE k = "amen" -> Move(s, "after_rite_ii")
             [] k \in {"date", "italic"} \cup BodyText -> Move(s, s)
             [] k = "lessons" -> Move("", "lessons")
             [] OTHER -> Move("", s)
      [] s = "after_rite_ii" -> Move("", IF k = "lessons" THEN "lessons" ELSE s)
      [] s = "lessons" ->
           CASE k = "italic" -> Move("preface", s)
             [] k \in SmallPrint /\ (k = "or" => HasPart(current, {"lessons"})) ->
                     Move("lessons", s)
             [] OTHER -> Move("", s)

\* _parse_bio_page
BioSpan(s, k) == Move(IF k \in SmallPrint THEN "bio" ELSE "", s)

-----------------------------------------------------------------------------
\* Separators without a lesson after them are taken off again.
IsDanglingOr(unit, i) ==
    \A j \in i .. Len(unit.text) :
        unit.text[j][1] = "lessons" => html[unit.text[j][2]] = "or"

EntryText(unit) ==
    LET kept == {i \in DOMAIN unit.text :
                   ~(unit.text[i][1] = "lessons" /\ IsDanglingOr(unit, i))}
    IN  [unit EXCEPT !.text = Selected(unit.text, kept)]

\* builder.build(): pages of a life without a collect page after them are lost.
FeastEmit(unit) ==
    IF unit = NoUnit \/ ~HasPart(unit, {"name"}) THEN <<>> ELSE <<EntryText(unit)>>

\* A collect page holds a name.
PageIsOver == state # "before_name"

\* An entry begins with the first page after a collect page, and takes the
\* running date if its own page brings none.
FeastPage ==
    \E k \in FeastPages :
        /\ PageIsOver
        /\ Reads(k)
        /\ page' = at
        /\ state' = IF k = "bio_page" THEN "bio" ELSE "before_name"
        /\ IF state = "bio"
             THEN UNCHANGED <<current, results>>
             ELSE /\ results' = results \o FeastEmit(current)
                  /\ current' = [NewUnit EXCEPT !.page = at]
        /\ UNCHANGED <<book, section, pending>>

\* The first date of a page is the running date from then on, and the date of
\* an entry that begins on this page or has none yet.
FirstDateOfPage == \A j \in page + 1 .. at - 1 : html[j] # "date"

Dated(unit) == IF unit.section = 0 \/ unit.head = page
                 THEN [unit EXCEPT !.section = section'] ELSE unit

FeastSpan ==
    \E k \in Spans :
        /\ current # NoUnit
        /\ k = "name" => state # "bio"
        /\ Reads(k)
        /\ section' = IF k = "date" /\ FirstDateOfPage THEN at ELSE section
        /\ LET move == IF state = "bio" THEN BioSpan(state, k) ELSE CollectSpan(state, k)
               dated == IF section' # section THEN Dated(current) ELSE current
           IN  /\ state' = move.state
               /\ current' = IF move.part = "" THEN dated ELSE With(dated, move.part, at)
        /\ UNCHANGED <<book, page, pending, results>>

FeastsEnd == PageIsOver /\ PageEnds(results \o FeastEmit(current))

FeastsNext == FeastPage \/ FeastSpan \/ FeastsEnd

\* An entry begins with the first page, and with every page after a collect page.
PagesBefore(k) == {j \in 1 .. k - 1 : html[j] \in FeastPages}

FeastOpens(k) ==
    /\ html[k] \in FeastPages
    /\ PagesBefore(k) = {} \/ html[Max(PagesBefore(k))] = "collect_page"
=============================================================================
