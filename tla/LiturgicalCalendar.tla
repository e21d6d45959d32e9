------------------------- MODULE LiturgicalCalendar -------------------------
(***************************************************************************)
(* liturgical_calendar.py: which feast is observed on which day of a year. *)
(* resolve_with_precedence places the feasts of the table one by one: the  *)
(* principal feasts, then the holy days, then the lesser commemorations,   *)
(* each group by date. A day is its number in the year; a feast that has   *)
(* to give way at the end of the year is observed in the next one.         *)
(***************************************************************************)
EXTENDS Integers, Sequences, FiniteSets, FiniteSetsExt

CONSTANTS
    Traditions,
    Years,    \* Years[t]: a year of tradition t is [easter |-> its day, leap |-> BOOLEAN]
    Tables    \* Tables[t]: what the feast table may hold of t, a sequence of feasts

ASSUME YearsAssumption ==
    \A t \in Traditions : Years[t] \subseteq [easter : 81 .. 129, leap : BOOLEAN]

ASSUME TablesAssumption ==
    \A t \in Traditions : \A T \in Tables[t] : DOMAIN T \subseteq Nat

VARIABLES
    year, table,
    canonical,   \* by_canonical: the date of every feast, 0 for none in this year
    phase,       \* which feasts are being placed
    todo,        \* positions in table of those still to be placed
    calendar     \* final_calendar; its domain is occupied

calVars == <<year, table, canonical, phase, todo, calendar>>

-----------------------------------------------------------------------------
\* Dates. Monday is 0.
Sunday == 6
Weekday(d) == (d - year.easter - 1) % 7

DaysBefore == <<0, 31, 59, 90, 120, 151, 181, 212, 243, 273, 304, 334>>
MonthLength(m) == IF m = 2 THEN IF year.leap THEN 29 ELSE 28
                  ELSE IF m \in {4, 6, 9, 11} THEN 30 ELSE 31
DayOf(m, d) == DaysBefore[m] + d + (IF year.leap /\ m > 2 THEN 1 ELSE 0)
LastDay == IF year.leap THEN 366 ELSE 365

\* A date that does not exist, like February 29 in most years, is day 0.
DayIfAny(m, d) == IF m \in 1 .. 12 /\ d \in 1 .. MonthLength(m) THEN DayOf(m, d) ELSE 0

FirstOnOrAfter(d, wd) == d + ((wd - Weekday(d)) % 7)
FirstAfter(d, wd) == FirstOnOrAfter(d + 1, wd)
Advent1 == FirstOnOrAfter(DayOf(11, 27), Sunday)

AshWednesday == year.easter - 46
HolyWeek == year.easter - 7 .. year.easter - 1
EasterWeek == year.easter .. year.easter + 6
ClosedWeeks == HolyWeek \cup EasterWeek
WeekAfterSecondSunday == year.easter + 8

\* _compute_movable_date. A rule is a tuple <<kind, ...>>; the validator of the
\* table lets the kind "last" pass, which no branch computes.
MovableDate(rule) ==
    CASE rule[1] = "easter" -> year.easter + rule[2]
      [] rule[1] = "advent_1" -> Advent1 + rule[2]
      [] rule[1] \in {"on_or_after", "after"} ->
           LET anchor == DayIfAny(rule[3], rule[4])
           IN  IF anchor = 0 THEN 0
               ELSE IF rule[1] = "after" THEN FirstAfter(anchor, rule[2])
               ELSE FirstOnOrAfter(anchor, rule[2])
      [] rule[1] = "nth" -> FirstOnOrAfter(DayOf(rule[4], 1), rule[3]) + 7 * (rule[2] - 1)
      [] rule[1] \in {"date", "last"} -> 0

CanonicalDate(feast) ==
    IF feast.type = "movable"
      THEN LET d == MovableDate(feast.rule) IN IF d \in 1 .. LastDay THEN d ELSE 0
    ELSE IF feast.rule[1] = "date" THEN DayIfAny(feast.rule[2], feast.rule[3]) ELSE 0

-----------------------------------------------------------------------------
Group(prec) ==
    {i \in DOMAIN table : table[i].precedence = prec /\ canonical[i] # 0}

\* Of the lesser commemorations of one date all but one are dropped. Rules with
\* a date sort before the other rules, then the name decides.
SortsBefore(i, j) ==
    LET dated(k) == table[k].type # "movable"
    IN  IF dated(i) # dated(j) THEN dated(i)
        ELSE IF table[i].name # table[j].name THEN table[i].name < table[j].name
        ELSE i < j

IsLesserWinner(i) ==
    \A j \in Group("lesser_commemoration") : canonical[j] = canonical[i] /\ j # i => SortsBefore(i, j)

LesserWinners == {i \in Group("lesser_commemoration") : IsLesserWinner(i)}

CalInit ==
    /\ \E t \in Traditions : year \in Years[t] /\ table \in Tables[t]
    /\ canonical = [i \in DOMAIN table |-> CanonicalDate(table[i])]
    /\ phase = "principal"
    /\ todo = Group("principal_feast")
    /\ calendar = <<>>

\* The next feast: by date, and on one date those with a date for a rule first,
\* as all_pairs lists them.
NextFeast ==
    LET day == Min({canonical[i] : i \in todo})
        today == {i \in todo : canonical[i] = day}
        dated == {i \in today : table[i].type # "movable"}
    IN  Min(IF dated # {} THEN dated ELSE today)

occupied == DOMAIN calendar

\* Mutant: a Sunday is as good as any day.
NextOpenDayOrSunday(start) ==
    Min({d \in start .. start + Cardinality(occupied) : d \notin occupied})

\* _find_next_open_day
NextOpenDay(start) ==
    Min({d \in start .. start + 2 * Cardinality(occupied) + 1 :
            Weekday(d) # Sunday /\ d \notin occupied})

Observe(i, d) ==
    calendar' = [x \in occupied \cup {d} |-> IF x = d THEN i ELSE calendar[x]]

\* Mutant: the day is not looked up in occupied.
ObserveAnyway(i, d) == Observe(i, d)

\* if target in occupied: continue
ObserveIfFree(i, d) == IF d \in occupied THEN UNCHANGED calendar ELSE Observe(i, d)

Done(i) == todo' = todo \ {i} /\ UNCHANGED <<year, table, canonical, phase>>

PlacePrincipalFeast ==
    /\ phase = "principal" /\ todo # {}
    /\ ObserveIfFree(NextFeast, canonical[NextFeast])
    /\ Done(NextFeast)

\* SUNDAY_OVERRIDE_FIXED_DATES
OverridesSunday(feast) == feast.rule \in {<<"date", 1, 1>>, <<"date", 2, 2>>, <<"date", 8, 6>>}

AfterSunday(i) ==
    IF table[i].type = "fixed" /\ Weekday(canonical[i]) = Sunday /\ ~OverridesSunday(table[i])
      THEN NextOpenDay(canonical[i] + 1) ELSE canonical[i]

\* Ash Wednesday holds its day against the other holy days.
AfterAshWednesday(i, d) ==
    IF d = AshWednesday /\ table[i].rule # <<"easter", -46>>
      THEN NextOpenDay(AshWednesday + 1) ELSE d

MovesOutOfClosedWeeks(i) == table[i].type = "fixed" /\ canonical[i] \in ClosedWeeks

PlaceHolyDay ==
    /\ phase = "holy_day" /\ todo # {}
    /\ LET i == NextFeast
       IN  /\ \/ MovesOutOfClosedWeeks(i) /\ Observe(i, NextOpenDay(WeekAfterSecondSunday))
              \/ ~MovesOutOfClosedWeeks(i) /\ ObserveIfFree(i, AfterAshWednesday(i, AfterSunday(i)))
           /\ Done(i)

LesserDay(i) ==
    IF canonical[i] \in ClosedWeeks THEN NextOpenDay(WeekAfterSecondSunday)
    ELSE IF Weekday(canonical[i]) = Sunday \/ canonical[i] \in occupied
      THEN NextOpenDay(canonical[i] + 1)
    ELSE canonical[i]

PlaceLesserCommemoration ==
    /\ phase = "lesser" /\ todo # {}
    /\ Observe(NextFeast, LesserDay(NextFeast))
    /\ Done(NextFeast)

NextPhase ==
    /\ todo = {}
    /\ \/ phase = "principal" /\ phase' = "holy_day" /\ todo' = Group("holy_day")
       \/ phase = "holy_day" /\ phase' = "lesser" /\ todo' = LesserWinners
       \/ phase = "lesser" /\ phase' = "done" /\ todo' = {}
    /\ UNCHANGED <<year, table, canonical, calendar>>

CalNext == PlacePrincipalFeast \/ PlaceHolyDay \/ PlaceLesserCommemoration \/ NextPhase

CalSpec == CalInit /\ [][CalNext]_calVars

-----------------------------------------------------------------------------
Observed == {calendar[d] : d \in occupied}
DateOf(i) == CHOOSE d \in occupied : calendar[d] = i

\* Never before its own date; a principal feast on it; a fixed holy day not on Ash
\* Wednesday, and on a Sunday only if it takes precedence; a lesser commemoration
\* on a weekday; neither in Holy or Easter Week, but for one that had to give way
\* just before them.
OnAllowedDays ==
    \A d \in occupied :
        LET f == table[calendar[d]] own == canonical[calendar[d]]
        IN  /\ d >= own
            /\ f.precedence = "principal_feast" => d = own
            /\ f.type = "movable" /\ f.precedence = "holy_day" /\ own # AshWednesday => d = own
            /\ f.type = "fixed" /\ f.precedence = "holy_day" =>
                 d # AshWednesday /\ (Weekday(d) = Sunday => OverridesSunday(f))
            /\ f.precedence = "lesser_commemoration" => Weekday(d) # Sunday
            /\ f.type = "fixed" /\ f.precedence # "principal_feast" /\ d \in ClosedWeeks =>
                 own < year.easter - 7

\* No two of them change places, whatever makes them move.
SameOrder(S) ==
    \A i, j \in S \cap Observed : canonical[i] < canonical[j] => DateOf(i) < DateOf(j)

FixedHolyDays == {i \in Group("holy_day") : table[i].type = "fixed"}

\* From Monday to Saturday principal feasts and holy days, and then a Sunday on which
\* a holy day may stay: one that is moved from the Sunday before it is moved past it.
CrowdedWeek ==
    \E sunday \in {DayOf(2, 2), DayOf(8, 6)} :
        /\ Weekday(sunday) = Sunday
        /\ \A d \in sunday - 6 .. sunday - 1 :
              d \in occupied /\ table[calendar[d]].precedence # "lesser_commemoration"

\* Every feast is observed on a day the rules allow it, and holy days with a date
\* keep their order, and so do lesser commemorations.
ObservedWhereAllowed ==
    /\ OnAllowedDays
    /\ CrowdedWeek \/ SameOrder(FixedHolyDays)
    /\ SameOrder(Group("lesser_commemoration"))

\* Nothing is lost but to a feast of at least its own rank: of two principal
\* feasts of one day the later in the table, a holy day whose day is held by a
\* principal feast or by an earlier holy day, and no winner of the lesser ones.
Rank(i) == IF table[i].precedence = "principal_feast" THEN 1 ELSE 2

HeldByAnother(i, d) ==
    /\ d \in occupied
    /\ Rank(calendar[d]) <= Rank(i)
    /\ canonical[calendar[d]] <= canonical[i]

LostOnlyToItsEqual ==
    /\ \A i \in Group("principal_feast") \cup Group("holy_day") :
          phase \in {"lesser", "done"} /\ i \notin Observed =>
              /\ HeldByAnother(i, canonical[i])
              /\ table[i].precedence = "holy_day" => ~MovesOutOfClosedWeeks(i)
    /\ phase = "done" => LesserWinners \subseteq Observed

\* liturgical_calendar.py:824: "Slot already taken - skip (a higher-precedence
\* feast won it)". Only a principal feast is higher than a holy day.
SkippedForHigherFeast ==
    \A i \in Group("holy_day") :
        phase \in {"lesser", "done"} /\ i \notin Observed =>
            canonical[i] \in occupied /\ Rank(calendar[canonical[i]]) < Rank(i)
=============================================================================
