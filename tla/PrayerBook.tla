----------------------------- MODULE PrayerBook -----------------------------
(***************************************************************************)
(* What the parsers of liturgical_parsers/ have in common: a page is a     *)
(* sequence of elements (tags, table rows or spans of a PDF), read once    *)
(* from first to last, and every parser collects the text of one unit at a *)
(* time in a builder. An element is known by its kind, that is by what the *)
(* predicates of a parser tell apart, and its text is its position.        *)
(*                                                                         *)
(* A page is not guessed beforehand: an element is drawn when the parser   *)
(* gets to it. Only the daily office looks ahead, and begins with its      *)
(* whole page.                                                             *)
(***************************************************************************)
EXTENDS Integers, Sequences, SequencesExt, FiniteSetsExt

CONSTANTS
    Books,        \* the parsers of this run
    Beginnings,   \* Beginnings[b]: the elements a page of b may begin with
    Longest       \* Longest[b]: bound on the elements of a page of b

ASSUME BooksAssumption ==
    /\ Longest \in [Books -> Nat]
    /\ DOMAIN Beginnings = Books
    /\ \A b \in Books : \A s \in Beginnings[b] : s \in Seq(ToSet(s)) /\ Len(s) <= Longest[b]

VARIABLES
    book,      \* the parser
    html,      \* the elements of the page that are known
    at,        \* position of the next element
    state,     \* state of the parser's machine
    current,   \* the builder
    page,      \* current_page: position of the last page marker, 0 for None
    section,   \* current_section, in lff_2024 running_date; 0 for None
    pending,   \* what waits for the next unit or verse
    results    \* the units emitted

bookVars == <<book, html, at, state, current, page, section, pending, results>>

\* A unit is headed by the element head; its text is a sequence of pieces, each
\* an element with the part of the unit (body, rubric, ...) it was put into.
NoUnit == [head |-> 0, named |-> FALSE, page |-> 0, section |-> 0, text |-> <<>>]

NewUnit == [head |-> at, named |-> TRUE, page |-> page, section |-> section, text |-> <<>>]

With(unit, part, k) == [unit EXCEPT !.text = Append(@, <<part, k>>)]

HasPart(unit, parts) == \E i \in DOMAIN unit.text : unit.text[i][1] \in parts

\* The elements of a sequence at the positions S, in their order.
Selected(seq, S) ==
    [n \in 1 .. Cardinality(S) |-> seq[CHOOSE i \in S : Cardinality({j \in S : j <= i}) = n]]

BookInit ==
    /\ book \in Books
    /\ html \in Beginnings[book]
    /\ at = 1
    /\ state = "idle"
    /\ current = NoUnit
    /\ page = 0 /\ section = 0
    /\ pending = <<>>
    /\ results = <<>>

-----------------------------------------------------------------------------
\* The next element is of kind k.
Reads(k) ==
    /\ state # "done"
    /\ at' = at + 1
    /\ \/ at <= Len(html) /\ html[at] = k /\ UNCHANGED html
       \/ at > Len(html) /\ Len(html) < Longest[book] /\ html' = Append(html, k)

\* Navigation, rules, small print, empty paragraphs.
Skip(kinds) ==
    /\ \E k \in kinds : Reads(k)
    /\ UNCHANGED <<book, state, current, page, section, pending, results>>

\* A rightfoot or leftfoot paragraph: the page of what follows, and of the unit
\* being built when no page was known before it.
PageMarker ==
    /\ Reads("marker")
    /\ page' = at
    /\ current' = IF current # NoUnit /\ current.page = 0
                    THEN [current EXCEPT !.page = at] ELSE current
    /\ UNCHANGED <<book, state, section, pending, results>>

\* A unit begins; the one before it is emitted as far as the parser emits it.
Begin(unit, emitted, s) ==
    /\ results' = results \o emitted
    /\ current' = unit
    /\ state' = s
    /\ UNCHANGED <<book, page, section, pending>>

\* Mutant: text that no unit is built for goes to the unit finished last.
AddToLast(part, s) ==
    /\ current' = IF current = NoUnit THEN NoUnit ELSE With(current, part, at)
    /\ results' = IF current = NoUnit /\ results # <<>>
                    THEN [results EXCEPT ![Len(results)] = With(@, part, at)] ELSE results
    /\ state' = s
    /\ UNCHANGED <<book, page, section, pending>>

\* Text for the unit being built. There may be none: the text is lost.
Add(part, s) ==
    /\ current' = IF current = NoUnit THEN NoUnit ELSE With(current, part, at)
    /\ state' = s
    /\ UNCHANGED <<book, page, section, pending, results>>

\* The page is read to its end.
PageEnds(emitted) ==
    /\ state # "done"
    /\ at > Len(html)
    /\ results' = emitted
    /\ current' = NoUnit
    /\ state' = "done"
    /\ UNCHANGED <<book, html, at, page, section, pending>>
=============================================================================
