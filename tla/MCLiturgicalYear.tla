-------------------------- MODULE MCLiturgicalYear --------------------------
(***************************************************************************)
(* The three programs around the prayer book, side by side: a behaviour is *)
(* one of a parser, one of the calendar, or one of the import. They share  *)
(* no state while they run; the import starts from what parsers return,    *)
(* the calendar from what the import of the feasts wrote.                  *)
(***************************************************************************)
EXTENDS LiturgicalParsers, LiturgicalCalendar, LiturgyImport

-----------------------------------------------------------------------------
(* The parsers: every page of the offices and of the proper liturgies with *)
(* four elements, every page of the other books with up to six, and the    *)
(* lives from a page's first spans on.                                     *)

MCBooks == Offices \cup {"collects", "psalter", "proper_liturgies", "prayers", "lff_2024"}

MCBeginnings == [b \in MCBooks |->
    CASE b \in Offices -> [1 .. 4 -> OfficeKinds]
      [] b = "lff_2024" ->
           {<<"bio_page", "prose", "bio_page", "date", "prose">>,
            <<"bio_page", "date", "prose", "collect_page", "name">>,
            <<"collect_page", "name", "subtitle", "I_text">>,
            <<"collect_page", "name", "II_text", "amen", "lessons">>}
      [] OTHER -> {<<>>}]

MCLongest == [b \in MCBooks |->
    CASE b \in Offices -> 4 [] b = "lff_2024" -> 8 [] b = "proper_liturgies" -> 4
      [] OTHER -> 6]

-----------------------------------------------------------------------------
(* The calendar: all dates of Easter, Western and Orthodox, in common and  *)
(* in leap years; the principal feasts and holy days of seed/feasts.yaml,  *)
(* with its double entries, and the lesser commemorations around Lent,     *)
(* Easter and Christmas; and every table with up to three feasts of a pool *)
(* of those that get in each other's way.                                  *)

Feast(type, prec, rule, n) == [type |-> type, precedence |-> prec, rule |-> rule, name |-> n]

OnDates(type, prec, days) ==
    [n \in DOMAIN days |-> Feast(type, prec, <<"date", days[n][1], days[n][2]>>, n)]

AfterEaster(prec, offsets) ==
    [n \in DOMAIN offsets |-> Feast("movable", prec, <<"easter", offsets[n]>>, n)]

HolyDaysOfAnglicans ==
    <<<<1, 1>>, <<2, 2>>, <<3, 25>>, <<5, 31>>, <<8, 6>>, <<9, 14>>, <<1, 18>>, <<1, 25>>,
      <<2, 24>>, <<3, 19>>, <<4, 25>>, <<5, 1>>, <<6, 11>>, <<6, 24>>, <<6, 29>>, <<7, 22>>,
      <<7, 25>>, <<8, 15>>, <<8, 24>>, <<9, 21>>, <<9, 29>>, <<10, 18>>, <<10, 23>>, <<10, 28>>,
      <<11, 30>>, <<12, 21>>, <<12, 26>>, <<12, 27>>, <<12, 28>>, <<7, 4>>, <<5, 1>>, <<5, 31>>,
      <<6, 29>>, <<7, 4>>, <<8, 15>>, <<9, 8>>, <<10, 23>>, <<12, 28>>>>

\* In the order of their names.
SomeLesserOnes ==
    <<<<12, 25>>, <<12, 25>>, <<4, 19>>, <<4, 19>>, <<4, 21>>, <<5, 2>>, <<4, 29>>, <<3, 27>>,
      <<3, 20>>, <<3, 20>>, <<3, 18>>, <<4, 15>>, <<4, 15>>, <<4, 9>>, <<5, 3>>, <<2, 25>>,
      <<12, 30>>, <<4, 1>>, <<4, 11>>, <<3, 23>>, <<4, 22>>, <<3, 26>>, <<4, 5>>, <<4, 20>>,
      <<3, 22>>, <<4, 2>>, <<3, 28>>, <<3, 31>>, <<3, 29>>, <<4, 18>>, <<4, 17>>, <<4, 4>>,
      <<3, 30>>, <<5, 4>>, <<5, 4>>, <<3, 24>>, <<3, 17>>, <<4, 16>>, <<4, 16>>, <<2, 23>>,
      <<4, 3>>, <<12, 29>>, <<3, 21>>, <<4, 7>>, <<4, 7>>, <<4, 23>>, <<4, 8>>, <<4, 10>>,
      <<4, 14>>, <<4, 27>>, <<3, 24>>>>

SundaysByDate ==
    << <<"on_or_after", Sunday, 11, 27>>, <<"advent_1", 7>>, <<"advent_1", 14>>,
       <<"advent_1", 21>>, <<"after", Sunday, 12, 25>>, <<"after", Sunday, 1, 1>>,
       <<"after", Sunday, 1, 6>>, <<"advent_1", -7>>, <<"nth", 4, 3, 11>> >>

AnglicanTable ==
    OnDates("fixed", "principal_feast",
        <<<<11, 1>>, <<12, 25>>, <<1, 6>>, <<1, 6>>, <<11, 1>>, <<12, 25>>>>)
    \o OnDates("fixed", "holy_day", HolyDaysOfAnglicans)
    \o OnDates("commemoration", "lesser_commemoration", SomeLesserOnes)
    \o AfterEaster("principal_feast", <<0, 39, 49, 56>>)
    \o AfterEaster("holy_day", <<-49, -46, -42, -35, -28, -21, -14, -7, -6, -5, -4, -3, -2, -1,
                                 1, 2, 3, 4, 5, 6, 7, 14, 21, 28, 35, 42>>)
    \o [n \in DOMAIN SundaysByDate |-> Feast("movable", "holy_day", SundaysByDate[n], n)]
    \o << Feast("movable", "ferial", <<"after", 2, 9, 14>>, 1) >>

ByzantineTable ==
    OnDates("fixed", "principal_feast",
        <<<<12, 25>>, <<1, 6>>, <<2, 2>>, <<3, 25>>, <<8, 6>>, <<8, 15>>, <<9, 8>>, <<9, 14>>,
          <<11, 21>>>>)
    \o OnDates("fixed", "holy_day",
        <<<<1, 1>>, <<6, 24>>, <<8, 29>>, <<12, 29>>, <<1, 30>>, <<6, 29>>, <<1, 1>>, <<1, 25>>,
          <<11, 13>>>>)
    \o OnDates("fixed", "lesser_commemoration",
        <<<<3, 10>>, <<3, 18>>, <<5, 21>>, <<5, 11>>, <<4, 23>>, <<2, 26>>, <<1, 10>>, <<3, 12>>,
          <<5, 17>>, <<2, 29>>, <<12, 4>>, <<2, 18>>, <<4, 1>>, <<9, 7>>, <<4, 7>>, <<9, 25>>,
          <<5, 15>>, <<9, 25>>>>)
    \o AfterEaster("principal_feast", <<0, 39, 49, -7>>)
    \o AfterEaster("lesser_commemoration", <<14>>)

Pool ==
    OnDates("fixed", "principal_feast", <<<<12, 25>>>>)
    \o OnDates("fixed", "holy_day",
        <<<<2, 2>>, <<2, 24>>, <<3, 19>>, <<3, 25>>, <<4, 25>>, <<5, 1>>, <<12, 26>>, <<12, 27>>>>)
    \o OnDates("commemoration", "holy_day", <<<<4, 20>>>>)
    \o OnDates("fixed", "lesser_commemoration", <<<<2, 29>>, <<3, 24>>, <<3, 25>>, <<12, 31>>>>)
    \o AfterEaster("holy_day", <<-46, -6>>)
    \o AfterEaster("lesser_commemoration", <<-8>>)
    \o << Feast("movable", "holy_day", <<"after", Sunday, 12, 25>>, 1),
          Feast("movable", "holy_day", <<"last", 0, 5>>, 2) >>

PoolTables ==
    {[n \in DOMAIN s |-> Pool[s[n]]] :
        s \in {SetToSortSeq(S, <) : S \in UNION {kSubset(k, DOMAIN Pool) : k \in 1 .. 3}}}

MCTraditions == {"anglican", "byzantine"}

EasterDays(first, last) ==
    [easter : first .. last, leap : {FALSE}] \cup [easter : first + 1 .. last + 1, leap : {TRUE}]

\* March 22 to April 25, April 4 to May 8.
MCYears == [t \in MCTraditions |-> IF t = "anglican" THEN EasterDays(81, 115) ELSE EasterDays(94, 128)]

MCTables == [t \in MCTraditions |->
    IF t = "anglican" THEN {AnglicanTable} \cup PoolTables ELSE {ByzantineTable}]

-----------------------------------------------------------------------------
(* The import.                                                             *)

PageUnit(kind, slug, rite, place, text) ==
    [kind |-> kind, slug |-> slug, rite |-> rite, place |-> place, text |-> text]

\* A collect in both rites, one text of which is also a prayer and a saint's
\* collect; a canticle that is also a saint's collect; an empty psalm; a rubric repeated in one
\* liturgy, under two texts.
FivePages ==
    [p \in ToSet(Parsers) |->
        CASE p = "collects" -> <<PageUnit("collect", "advent", "rite_i", "seasons", "grace"),
                                 PageUnit("collect", "advent", "rite_ii", "seasons", "shared")>>
          [] p = "daily_office" -> <<PageUnit("canticle", "gloria", "both", "morning_prayer", "glory")>>
          [] p = "psalter" -> <<PageUnit("psalm", "psalm_1", "none", "book_1", "")>>
          [] p = "proper_liturgies" -> <<PageUnit("rubric", "rubric", "none", "ashes", "kneel"),
                                         PageUnit("rubric", "rubric", "none", "ashes", "stand")>>
          [] p = "prayers" -> <<PageUnit("prayer", "for_peace", "none", "world", "shared")>>]

TwoSaints ==
    <<[slug |-> "seton", bio |-> "life",
       collects |-> <<[rite |-> "rite_i", text |-> "shared"]>>],
      [slug |-> "julian", bio |-> "",
       collects |-> <<[rite |-> "rite_i", text |-> "glory"], [rite |-> "rite_ii", text |-> "own"]>>]>>

Entry(slug, tradition, rule, subjects, xref) ==
    [slug |-> slug, tradition |-> tradition, rule |-> rule, subjects |-> subjects, xref |-> xref]

\* A file with two entries, edited; one whose reference is nowhere; a bad one.
Files ==
    {<<Entry("seton", "anglican", "01-04", {"charity"}, None)>>,
     <<Entry("seton", "anglican", "01-05", {"charity"}, "tikhon"),
       Entry("tikhon", "byzantine", "04-07", {"_other"}, None)>>,
     <<Entry("seton", "anglican", "01-04", {}, "nobody")>>,
     <<Entry("seton", "anglican", "malformed", {}, None)>>}

-----------------------------------------------------------------------------
NoBook ==
    /\ book = "none" /\ html = <<>> /\ at = 1 /\ state = "idle"
    /\ current = NoUnit /\ page = 0 /\ section = 0 /\ pending = <<>> /\ results = <<>>

NoCalendar ==
    /\ year = [easter |-> 0, leap |-> FALSE] /\ table = <<>> /\ canonical = <<>>
    /\ phase = "none" /\ todo = {} /\ calendar = <<>>

YearInit ==
    /\ LitInit
    /\ \/ BookInit /\ NoCalendar
       \/ NoBook /\ CalInit
       \/ NoBook /\ NoCalendar

YearNext ==
    \/ ParserNext /\ UNCHANGED <<calVars, litVars>>
    \/ CalNext /\ UNCHANGED <<bookVars, litVars>>
    \/ book = "none" /\ phase = "none" /\ LitNext /\ UNCHANGED <<bookVars, calVars>>

YearSpec == YearInit /\ [][YearNext]_<<bookVars, calVars, litVars>>
=============================================================================
