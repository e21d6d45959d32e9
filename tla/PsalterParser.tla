--------------------------- MODULE PsalterParser ---------------------------
(***************************************************************************)
(* liturgical_parsers/bcp_psalter.py: the rows of the psalter's tables.    *)
(* pending is what has to wait: before the first psalm the day of the      *)
(* month (inter_psalm_psday), within a psalm a subheading.                 *)
(***************************************************************************)
EXTENDS PrayerBook

\* A row begins a psalm (here number one or two), names the day of the month at
\* which the psalms below are read, divides a psalm, or is a verse, or nothing.
PsalterKinds == {"psalm_1", "psalm_2", "psday", "subheading", "verse", "blank_verse", "skip"}

PsalmEmit(unit) == IF HasPart(unit, {"verse"}) THEN <<unit>> ELSE <<>>

PsalmStart ==
    \E k \in {"psalm_1", "psalm_2"} :
        /\ Reads(k)
        /\ results' = results \o PsalmEmit(current)
        /\ current' = IF current = NoUnit THEN [NewUnit EXCEPT !.text = pending] ELSE NewUnit
        /\ pending' = <<>>
        /\ UNCHANGED <<book, state, page, section>>

\* raw_metadata has one day before each verse: a second one replaces it.
BeforeNextVerse(unit) ==
    LET verses == {i \in DOMAIN unit.text : unit.text[i][1] = "verse"}
    IN  {i \in DOMAIN unit.text : \A v \in verses : v < i}

WithDay(unit, k) ==
    LET old == {i \in BeforeNextVerse(unit) : unit.text[i][1] = "psday"}
    IN  IF old = {} THEN With(unit, "psday", k)
                    ELSE [unit EXCEPT !.text[Min(old)] = <<"psday", k>>]

\* Once a psalm has begun a day is put down as its next verse's, also when
\* the psalm is over and the next one follows.
Psday ==
    /\ Reads("psday")
    /\ IF current = NoUnit
         THEN pending' = <<<<"psday", at>>>> /\ UNCHANGED current
         ELSE current' = WithDay(current, at) /\ UNCHANGED pending
    /\ UNCHANGED <<book, state, page, section, results>>

Flushed == [current EXCEPT !.text = @ \o pending]

Subheading ==
    /\ Reads("subheading")
    /\ IF current = NoUnit
         THEN UNCHANGED <<current, pending>>
         ELSE current' = Flushed /\ pending' = <<<<"subheading", at>>>>
    /\ UNCHANGED <<book, state, page, section, results>>

Verse ==
    \E k \in {"verse", "blank_verse"} :
        /\ Reads(k)
        /\ IF current = NoUnit
             THEN UNCHANGED <<current, pending>>
             ELSE /\ current' = IF k = "verse" THEN With(Flushed, "verse", at) ELSE Flushed
                  /\ pending' = <<>>
        /\ UNCHANGED <<book, state, page, section, results>>

\* results.sort(key=number), which keeps equal numbers in order.
Numbered(units, k) == Selected(units, {i \in DOMAIN units : html[units[i].head] = k})

PsalterEnds ==
    LET units == results \o PsalmEmit(current)
    IN  PageEnds(Numbered(units, "psalm_1") \o Numbered(units, "psalm_2"))

PsalterNext ==
    Skip({"skip"}) \/ PsalmStart \/ Psday \/ Subheading \/ Verse \/ PsalterEnds

PsalterOpens(k) == html[k] \in {"psalm_1", "psalm_2"}
=============================================================================
