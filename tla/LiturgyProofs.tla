--------------------------- MODULE LiturgyProofs ---------------------------
(***************************************************************************)
(* What is proved of the calendar and of the import of the prayer book.    *)
(* The calendar: the search for an open day ends, since among twice as     *)
(* many days as are taken, and two more, there are more weekdays than      *)
(* taken days; and every feast that was placed fits its day, every feast   *)
(* that was not is settled, and whatever a feast passed over on the way to *)
(* its day stands in the way of those behind it.  The import: rows only    *)
(* say more, so what a run without an error did stays done, and the run    *)
(* has in its hands the row it made itself.                                *)
(***************************************************************************)
EXTENDS LiturgicalCalendar, LiturgyImport, WellFoundedInduction, FiniteSetTheorems, TLAPS

LEMMA MinIsThere ==
    ASSUME NEW T \in SUBSET Nat, T # {}
    PROVE  Min(T) \in T /\ \A y \in T : Min(T) <= y
<1>1. \E v \in T : \A w \in T : v <= w
  <2>1. PICK v \in T : \A w \in T : ~ (<<w, v>> \in OpToRel(<, Nat))
    BY NatLessThanWellFounded, WFMin
  <2>2. \A w \in Nat : w < v => <<w, v>> \in OpToRel(<, Nat)
    BY DEF OpToRel
  <2>3. \A w \in Nat : ~(w < v) => v <= w
    OBVIOUS
  <2> QED BY <2>1, <2>2, <2>3
<1> QED BY <1>1 DEF Min

-----------------------------------------------------------------------------
(* LiturgicalCalendar.                                                     *)

YearOK == year \in [easter : 81 .. 129, leap : BOOLEAN]
DaysOK == occupied \subseteq Nat /\ IsFiniteSet(occupied)

\* Of two days one is no Sunday.
LEMMA NotTwoSundays ==
    ASSUME NEW d \in Int, YearOK
    PROVE  Weekday(d) # Sunday \/ Weekday(d + 1) # Sunday
BY DEF Weekday, Sunday, YearOK

\* _find_next_open_day ends: among twice as many days as are taken, and two more,
\* there are more that are no Sundays than are taken.
LEMMA OpenDay ==
    ASSUME YearOK, DaysOK, NEW start \in Nat
    PROVE  /\ NextOpenDay(start) \in Nat /\ NextOpenDay(start) >= start
           /\ NextOpenDay(start) \notin occupied /\ Weekday(NextOpenDay(start)) # Sunday
           /\ \A x \in start .. NextOpenDay(start) - 1 : x \in occupied \/ Weekday(x) = Sunday
<1> DEFINE k == Cardinality(occupied)
           open == {d \in start .. start + 2 * k + 1 : Weekday(d) # Sunday /\ d \notin occupied}
           day == [j \in 0..k |-> IF Weekday(start + 2 * j) # Sunday THEN start + 2 * j
                                  ELSE start + 2 * j + 1]
<1>1. k \in Nat
  BY FS_CardinalityType DEF DaysOK
<1>2. ASSUME NEW j \in 0..k
      PROVE  /\ day[j] \in start + 2 * j .. start + 2 * j + 1
             /\ day[j] \in start .. start + 2 * k + 1
             /\ Weekday(day[j]) # Sunday
  <2>1. start + 2 * j \in Nat /\ start + 2 * j + 1 <= start + 2 * k + 1
    BY <1>1
  <2>2. Weekday(start + 2 * j) # Sunday \/ Weekday(start + 2 * j + 1) # Sunday
    BY <2>1, NotTwoSundays
  <2>3. day[j] = IF Weekday(start + 2 * j) # Sunday THEN start + 2 * j ELSE start + 2 * j + 1
    OBVIOUS
  <2> HIDE DEF day
  <2> QED BY <1>1, <2>1, <2>2, <2>3
<1>3. ASSUME open = {} PROVE FALSE
  <2>1. \A j \in 0..k : day[j] \in occupied
    BY <1>2, <1>3
  <2>2. \A i, j \in 0..k : day[i] = day[j] => i = j
    <3> HIDE DEF day
    <3> QED BY <1>1, <1>2
  <2>3. day \in Injection(0..k, occupied)
    <3>1. day \in [0..k -> occupied]
      BY <2>1
    <3> HIDE DEF day
    <3> QED BY <2>2, <3>1 DEF Injection, IsInjective
  <2>4. Cardinality(0..k) <= Cardinality(occupied)
    <3> HIDE DEF day
    <3> QED BY <2>3, FS_Injection DEF DaysOK
  <2>5. Cardinality(0..k) = k + 1
    <3> HIDE DEF k
    <3> QED BY <1>1, FS_Interval
  <2> QED BY <1>1, <2>4, <2>5
<1>4. NextOpenDay(start) = Min(open)
  BY DEF NextOpenDay
<1>5. open \in SUBSET Nat
  BY <1>1
<1>6. \A d \in open : d >= start /\ Weekday(d) # Sunday /\ d \notin occupied
  BY <1>1
<1>7. \A d \in open : \A x \in start .. d - 1 : x \in open \/ x \in occupied \/ Weekday(x) = Sunday
  BY <1>1
<1> HIDE DEF open
<1>8. NextOpenDay(start) \in open /\ \A y \in open : NextOpenDay(start) <= y
  BY <1>3, <1>4, <1>5, MinIsThere
<1>9. ASSUME NEW x \in start .. NextOpenDay(start) - 1 PROVE x \notin open
  <2>1. NextOpenDay(start) \in Nat
    BY <1>5, <1>8
  <2>2. x \in Int /\ x < NextOpenDay(start)
    BY <2>1
  <2>3. x \in open => NextOpenDay(start) <= x
    BY <1>8
  <2> QED BY <2>1, <2>2, <2>3
<1>10. ASSUME NEW x \in start .. NextOpenDay(start) - 1 PROVE x \in occupied \/ Weekday(x) = Sunday
  BY <1>7, <1>8, <1>9, <1>10
<1> QED BY <1>5, <1>6, <1>8, <1>10

-----------------------------------------------------------------------------
Phases == {"principal", "holy_day", "lesser", "done"}

\* What is being placed, and what may have been.
GroupOf(ph) == CASE ph = "principal" -> Group("principal_feast")
                 [] ph = "holy_day" -> Group("holy_day")
                 [] ph = "lesser" -> LesserWinners
                 [] OTHER -> {}

CalTypeOK ==
    /\ YearOK /\ DaysOK
    /\ DOMAIN table \subseteq Nat
    /\ canonical \in [DOMAIN table -> Nat]
    /\ phase \in Phases
    /\ todo \subseteq GroupOf(phase)
    /\ \A i \in DOMAIN table :
        table[i].type = "fixed" /\ canonical[i] # 0 => table[i].rule[1] = "date"

\* Only what has been placed has a day.
PlacedByRank ==
    \A d \in occupied :
        \/ calendar[d] \in Group("principal_feast")
        \/ calendar[d] \in Group("holy_day") /\ phase # "principal"
        \/ calendar[d] \in LesserWinners /\ phase \in {"lesser", "done"}

\* The feast has a day, or its day is held by one of its rank.
Settled(i) ==
    i \in Observed \/ /\ HeldByAnother(i, canonical[i])
                      /\ table[i].precedence = "holy_day" => ~MovesOutOfClosedWeeks(i)

AllSettled ==
    /\ \A i \in Group("principal_feast") : (phase = "principal" /\ i \in todo) \/ Settled(i)
    /\ \A i \in Group("holy_day") :
        phase = "principal" \/ (phase = "holy_day" /\ i \in todo) \/ Settled(i)
    /\ \A i \in LesserWinners :
        phase \in {"principal", "holy_day"} \/ (phase = "lesser" /\ i \in todo) \/ i \in Observed

CalendarInv == CalTypeOK /\ PlacedByRank /\ OnAllowedDays /\ AllSettled

LEMMA CalendarImplies == CalendarInv => OnAllowedDays /\ LostOnlyToItsEqual
BY DEF CalendarInv, AllSettled, Settled, LostOnlyToItsEqual

\* The feast may be observed on that day.
Fits(i, d) ==
    LET f == table[i] own == canonical[i]
    IN  /\ d >= own
        /\ f.precedence = "principal_feast" => d = own
        /\ f.type = "movable" /\ f.precedence = "holy_day" /\ own # AshWednesday => d = own
        /\ f.type = "fixed" /\ f.precedence = "holy_day" =>
             d # AshWednesday /\ (Weekday(d) = Sunday => OverridesSunday(f))
        /\ f.precedence = "lesser_commemoration" => Weekday(d) # Sunday
        /\ f.type = "fixed" /\ f.precedence # "principal_feast" /\ d \in ClosedWeeks =>
             own < year.easter - 7

LEMMA AllFit == OnAllowedDays <=> \A d \in occupied : Fits(calendar[d], d)
BY DEF OnAllowedDays, Fits

LEMMA FeastInHand ==
    ASSUME CalTypeOK, todo # {}
    PROVE  /\ NextFeast \in todo /\ NextFeast \in DOMAIN table /\ NextFeast \in GroupOf(phase)
           /\ canonical[NextFeast] \in Nat \ {0}
           /\ \A j \in todo : canonical[NextFeast] <= canonical[j]
<1> DEFINE dates == {canonical[i] : i \in todo}
           day == Min(dates)
           today == {i \in todo : canonical[i] = day}
           dated == {i \in today : table[i].type # "movable"}
<1>1. todo \subseteq DOMAIN table /\ \A i \in todo : canonical[i] \in Nat \ {0}
  BY DEF CalTypeOK, GroupOf, Group, LesserWinners, Phases
<1>2. today # {} /\ (\A i \in today : \A j \in todo : canonical[i] <= canonical[j])
  <2>1. dates \in SUBSET Nat /\ dates # {}
    BY <1>1
  <2>2. day \in dates /\ \A d \in dates : day <= d
    <3> HIDE DEF dates
    <3> QED BY <2>1, MinIsThere
  <2> QED BY <2>2
<1>3. NextFeast = Min(IF dated # {} THEN dated ELSE today)
  BY DEF NextFeast
<1>4. dated \in SUBSET Nat /\ today \in SUBSET Nat /\ dated \subseteq today /\ today \subseteq todo
  BY <1>1 DEF CalTypeOK
<1> HIDE DEF dated, today
<1>5. NextFeast \in todo /\ NextFeast \in today
  BY <1>2, <1>3, <1>4, MinIsThere
<1> QED BY <1>1, <1>2, <1>5 DEF CalTypeOK

LEMMA DayIfAnyIsDay == ASSUME YearOK, NEW m, NEW d PROVE DayIfAny(m, d) \in Nat
<1> SUFFICES ASSUME m \in 1..12, d \in 1..MonthLength(m) PROVE DayOf(m, d) \in Nat
  BY DEF DayIfAny
<1>1. DaysBefore[m] \in Nat
  BY DEF DaysBefore
<1>2. d \in Nat
  BY DEF MonthLength
<1> QED BY <1>1, <1>2 DEF DayOf

LEMMA CalendarInitially == CalInit => CalendarInv
<1> SUFFICES ASSUME CalInit PROVE CalendarInv
  OBVIOUS
<1>1. YearOK /\ DOMAIN table \subseteq Nat
  BY YearsAssumption, TablesAssumption DEF CalInit, YearOK
<1>2. occupied = {} /\ DaysOK
  BY FS_EmptySet DEF CalInit, DaysOK, occupied
<1>3. ASSUME NEW i \in DOMAIN table PROVE CanonicalDate(table[i]) \in Nat
  <2>1. LastDay \in Nat
    BY DEF LastDay
  <2>2. CASE table[i].type = "movable"
    BY <2>1, <2>2 DEF CanonicalDate
  <2>3. CASE table[i].type # "movable"
    BY <1>1, <2>3, DayIfAnyIsDay DEF CanonicalDate
  <2> QED BY <2>2, <2>3
<1>4. canonical \in [DOMAIN table -> Nat]
  BY <1>3 DEF CalInit
<1>5. \A i \in DOMAIN table : table[i].type = "fixed" /\ canonical[i] # 0 => table[i].rule[1] = "date"
  BY DEF CalInit, CanonicalDate
<1>6. phase = "principal" /\ todo = Group("principal_feast")
  BY DEF CalInit
<1>7. CalTypeOK
  BY <1>1, <1>2, <1>4, <1>5, <1>6 DEF CalTypeOK, GroupOf, Phases
<1> QED BY <1>2, <1>6, <1>7 DEF CalendarInv, PlacedByRank, OnAllowedDays, AllSettled

-----------------------------------------------------------------------------
\* Days are only ever taken.
LEMMA SettledStay ==
    ASSUME UNCHANGED <<year, table, canonical>>, occupied \subseteq occupied',
           \A d \in occupied : calendar'[d] = calendar[d]
    PROVE  /\ Observed \subseteq Observed' /\ \A i : Settled(i) => Settled(i)'
           /\ \A prec : Group(prec)' = Group(prec)
           /\ LesserWinners' = LesserWinners
           /\ \A i, d : Fits(i, d) => Fits(i, d)'
<1>1. Observed \subseteq Observed'
  BY DEF Observed
<1>2. \A i, d : HeldByAnother(i, d) => HeldByAnother(i, d)'
  BY DEF HeldByAnother, Rank
<1>3. \A i : MovesOutOfClosedWeeks(i)' = MovesOutOfClosedWeeks(i)
  BY DEF MovesOutOfClosedWeeks, ClosedWeeks, HolyWeek, EasterWeek
<1>4. \A i : Settled(i) => Settled(i)'
  BY <1>1, <1>2, <1>3 DEF Settled
<1>5. \A prec : Group(prec)' = Group(prec)
  BY DEF Group
<1>6. LesserWinners' = LesserWinners
  BY <1>5 DEF LesserWinners, IsLesserWinner, SortsBefore
<1>7. \A i, d : Fits(i, d) => Fits(i, d)'
  BY DEF Fits, AshWednesday, Weekday, OverridesSunday, ClosedWeeks, HolyWeek, EasterWeek
<1> QED BY <1>1, <1>4, <1>5, <1>6, <1>7

\* A feast is done with: it has been given a day, or is settled without one.
LEMMA DoneKeeps ==
    ASSUME CalendarInv, NEW i \in todo, Done(i),
           occupied \subseteq occupied', \A d \in occupied : calendar'[d] = calendar[d],
           DaysOK', OnAllowedDays', PlacedByRank',
           i \in Observed' \/ (phase # "lesser" /\ Settled(i))
    PROVE  CalendarInv'
<1>1. UNCHANGED <<year, table, canonical, phase>> /\ todo' = todo \ {i}
  BY DEF Done
<1>2. /\ Observed \subseteq Observed' /\ \A j : Settled(j) => Settled(j)'
      /\ \A prec : Group(prec)' = Group(prec)
      /\ LesserWinners' = LesserWinners
  BY <1>1, SettledStay
<1>3. GroupOf(phase)' = GroupOf(phase)
  BY <1>1, <1>2 DEF GroupOf
<1>4. CalTypeOK'
  BY <1>1, <1>3 DEF CalendarInv, CalTypeOK, YearOK
<1>5. Settled(i)' /\ (phase = "lesser" => i \in Observed')
  BY <1>2 DEF Settled
<1>6. AllSettled'
  BY <1>1, <1>2, <1>5 DEF CalendarInv, AllSettled
<1> QED BY <1>4, <1>6 DEF CalendarInv

LEMMA ObserveKeeps ==
    ASSUME CalendarInv, NEW i \in todo, NEW d \in Nat, d \notin occupied, Fits(i, d),
           Observe(i, d), Done(i)
    PROVE  CalendarInv'
<1>1. /\ occupied' = occupied \cup {d} /\ calendar'[d] = i
      /\ \A x \in occupied : calendar'[x] = calendar[x]
  BY DEF Observe, occupied
<1>2. UNCHANGED <<year, table, canonical, phase>>
  BY DEF Done
<1>3. DaysOK'
  BY <1>1, FS_AddElement DEF CalendarInv, CalTypeOK, DaysOK
<1>4. /\ \A prec : Group(prec)' = Group(prec)
      /\ LesserWinners' = LesserWinners
      /\ \A j, x : Fits(j, x) => Fits(j, x)'
  BY <1>1, <1>2, SettledStay
<1>5. OnAllowedDays'
  <2>1. ASSUME NEW x \in occupied', NEW j, j = calendar'[x] PROVE Fits(j, x)'
    BY <1>1, <1>4, <2>1, AllFit DEF CalendarInv
  <2>2. \A x \in occupied' : \A j : j = calendar'[x] => Fits(j, x)'
    BY <2>1
  <2> QED BY <2>2 DEF OnAllowedDays, Fits
<1>6. PlacedByRank'
  <2>1. i \in GroupOf(phase) /\ phase \in Phases
    BY DEF CalendarInv, CalTypeOK
  <2>2. \/ i \in Group("principal_feast")
        \/ i \in Group("holy_day") /\ phase # "principal"
        \/ i \in LesserWinners /\ phase \in {"lesser", "done"}
    BY <2>1 DEF GroupOf, Phases
  <2> QED BY <1>1, <1>2, <1>4, <2>2 DEF CalendarInv, PlacedByRank
<1>7. i \in Observed'
  BY <1>1 DEF Observed
<1> QED BY <1>1, <1>3, <1>5, <1>6, <1>7, DoneKeeps

\* A feast whose own day is taken while only its equals and betters have days.
LEMMA SkipKeeps ==
    ASSUME CalendarInv, NEW i \in todo, phase \in {"principal", "holy_day"},
           canonical[i] \in occupied, UNCHANGED calendar, Done(i),
           phase = "holy_day" => ~MovesOutOfClosedWeeks(i)
    PROVE  CalendarInv'
<1> DEFINE holder == calendar[canonical[i]]
<1>1. i \in GroupOf(phase) /\ i \in DOMAIN table
  BY DEF CalendarInv, CalTypeOK, GroupOf, Group
<1>2. canonical[holder] <= canonical[i]
  BY DEF CalendarInv, OnAllowedDays
<1>3. Rank(holder) <= Rank(i)
  <2>1. CASE phase = "principal"
    <3>1. holder \in Group("principal_feast") /\ i \in Group("principal_feast")
      BY <1>1, <2>1 DEF CalendarInv, PlacedByRank, GroupOf
    <3> QED BY <3>1 DEF Group, Rank
  <2>2. CASE phase = "holy_day"
    <3>1. i \in Group("holy_day")
      BY <1>1, <2>2 DEF GroupOf
    <3> QED BY <3>1 DEF Group, Rank
  <2> QED BY <2>1, <2>2
<1>4. phase = "principal" => table[i].precedence = "principal_feast"
  BY <1>1 DEF GroupOf, Group
<1>5. Settled(i)
  BY <1>2, <1>3, <1>4 DEF Settled, HeldByAnother
<1>6. UNCHANGED <<year, table, canonical, phase>> /\ occupied' = occupied
  BY DEF Done, occupied
<1>7. OnAllowedDays'
  BY <1>6 DEF CalendarInv, OnAllowedDays, AshWednesday, Weekday, OverridesSunday, ClosedWeeks, HolyWeek, EasterWeek
<1>8. PlacedByRank' /\ DaysOK'
  BY <1>6, SettledStay DEF CalendarInv, CalTypeOK, PlacedByRank, DaysOK
<1> QED BY <1>5, <1>6, <1>7, <1>8, DoneKeeps

-----------------------------------------------------------------------------
(* The order of feasts that move.                                           *)

LesserOnes == Group("lesser_commemoration")

\* Where a feast looks for its day: from its own date on, or behind the closed weeks.
LooksFrom(i) == IF canonical[i] \in ClosedWeeks THEN year.easter + 8 ELSE canonical[i]

\* A day that a holy day passes over: a principal feast or a holy day is on it, or it is
\* a Sunday or Ash Wednesday.
NotForHolyDays(d) ==
    \/ d \in occupied /\ table[calendar[d]].precedence # "lesser_commemoration"
    \/ Weekday(d) = Sunday \/ d = AshWednesday
NotForLesserOnes(d) == d \in occupied \/ Weekday(d) = Sunday

\* Why the feast is on this day and no earlier.
HolyPassed(i, d) ==
    /\ \A x \in LooksFrom(i) .. d - 1 : NotForHolyDays(x)
    /\ d # canonical[i] /\ canonical[i] \notin ClosedWeeks =>
         Weekday(canonical[i]) = Sunday \/ canonical[i] = AshWednesday
LesserPassed(i, d) == \A x \in LooksFrom(i) .. d - 1 : NotForLesserOnes(x)

\* Of a kind of feasts, those with earlier dates are on earlier days.
KeepsOrder(S) ==
    \A d, e \in occupied :
        /\ calendar[d] \in S /\ calendar[e] \in S
        /\ canonical[calendar[d]] < canonical[calendar[e]]
        => d < e

\* A feast has one day, and none while it is still to be placed.
EachOnce ==
    /\ \A d, e \in occupied : calendar[d] = calendar[e] => d = e
    /\ \A d \in occupied : calendar[d] \notin todo

\* Of each kind those with earlier dates are placed first.
InTurn ==
    \A d \in occupied : \A j \in todo :
        table[calendar[d]].precedence = table[j].precedence => canonical[calendar[d]] <= canonical[j]

\* SUNDAY_OVERRIDE_FIXED_DATES by their days.
OverridingDates ==
    \A i \in FixedHolyDays :
        OverridesSunday(table[i]) => canonical[i] \in {DayOf(1, 1), DayOf(2, 2), DayOf(8, 6)}

OrderInv ==
    /\ EachOnce /\ InTurn /\ OverridingDates
    /\ \A d \in occupied : \A i \in FixedHolyDays : calendar[d] = i => HolyPassed(i, d)
    /\ \A d \in occupied : \A i \in LesserOnes : calendar[d] = i => LesserPassed(i, d)
    /\ CrowdedWeek \/ KeepsOrder(FixedHolyDays)
    /\ KeepsOrder(LesserOnes)

\* With one day for each feast, that is what the property says.
LEMMA OrderImplies ==
    ASSUME OrderInv
    PROVE  /\ CrowdedWeek \/ SameOrder(FixedHolyDays)
           /\ SameOrder(Group("lesser_commemoration"))
<1>1. ASSUME NEW d \in occupied PROVE DateOf(calendar[d]) = d
  <2>1. \A e \in occupied : calendar[e] = calendar[d] => e = d
    BY DEF OrderInv, EachOnce
  <2> QED BY <2>1 DEF DateOf
<1>2. ASSUME NEW S, KeepsOrder(S) PROVE SameOrder(S)
  <2> SUFFICES ASSUME NEW i \in S \cap Observed, NEW j \in S \cap Observed, canonical[i] < canonical[j]
               PROVE  DateOf(i) < DateOf(j)
    BY DEF SameOrder
  <2>1. PICK d \in occupied : calendar[d] = i
    BY DEF Observed
  <2>2. PICK e \in occupied : calendar[e] = j
    BY DEF Observed
  <2>3. d < e
    BY <1>2, <2>1, <2>2 DEF KeepsOrder
  <2>4. DateOf(i) = d /\ DateOf(j) = e
    BY <1>1, <2>1, <2>2
  <2> QED BY <2>3, <2>4
<1> QED BY <1>2 DEF OrderInv, LesserOnes

LEMMA OrderInitially == CalInit => OrderInv
<1> SUFFICES ASSUME CalInit PROVE OrderInv
  OBVIOUS
<1>1. occupied = {}
  BY DEF CalInit, occupied
<1>2. ASSUME NEW i \in FixedHolyDays, OverridesSunday(table[i])
      PROVE  canonical[i] \in {DayOf(1, 1), DayOf(2, 2), DayOf(8, 6)}
  <2>1. /\ i \in DOMAIN table /\ canonical[i] # 0 /\ table[i].type = "fixed"
        /\ canonical[i] = CanonicalDate(table[i])
    BY DEF FixedHolyDays, Group, CalInit
  <2>2. PICK rule : rule = table[i].rule
    OBVIOUS
  <2>3. rule \in {<<"date", 1, 1>>, <<"date", 2, 2>>, <<"date", 8, 6>>}
    BY <1>2, <2>2 DEF OverridesSunday
  <2>4. canonical[i] = DayIfAny(rule[2], rule[3])
    BY <2>1, <2>2, <2>3 DEF CanonicalDate
  <2>5. canonical[i] = DayOf(rule[2], rule[3])
    BY <2>1, <2>4 DEF DayIfAny
  <2>6. CASE rule = <<"date", 1, 1>>
    BY <2>5, <2>6
  <2>7. CASE rule = <<"date", 2, 2>>
    BY <2>5, <2>7
  <2>8. CASE rule = <<"date", 8, 6>>
    BY <2>5, <2>8
  <2> QED BY <2>3, <2>6, <2>7, <2>8
<1> QED BY <1>1, <1>2
        DEF OrderInv, EachOnce, InTurn, OverridingDates, KeepsOrder

\* When a feast is given a day that fits, whoever has an earlier date is on an earlier day:
\* of the lesser commemorations,
LEMMA LesserAfterEarlier ==
    ASSUME CalendarInv, NEW i, NEW d \in Nat, canonical[i] \in Nat, Fits(i, d), d \notin occupied,
           i \in LesserOnes, canonical[i] \in ClosedWeeks => d >= year.easter + 8,
           NEW e \in occupied, calendar[e] \in LesserOnes, LesserPassed(calendar[e], e),
           canonical[calendar[e]] \in Nat, canonical[calendar[e]] < canonical[i]
    PROVE  e < d
<1>1. PICK c \in Nat : c = canonical[calendar[e]] /\ c < canonical[i]
  OBVIOUS
<1>2. YearOK /\ year.easter \in 81 .. 129 /\ e \in Nat
  BY DEF CalendarInv, CalTypeOK, YearOK, DaysOK
<1>3. d >= canonical[i] /\ Weekday(d) # Sunday
  BY DEF Fits, LesserOnes, Group
<1>4. d # e
  OBVIOUS
<1>5. Weekday(year.easter + 7) = Sunday
  BY <1>2 DEF Weekday, Sunday
<1> SUFFICES ASSUME d < e PROVE FALSE
  BY <1>2, <1>4
<1>6. ~ d \in LooksFrom(calendar[e]) .. e - 1
  BY <1>3 DEF LesserPassed, NotForLesserOnes
<1>7. CASE c \notin ClosedWeeks
  BY <1>1, <1>2, <1>3, <1>6, <1>7 DEF LooksFrom
<1>8. CASE c \in ClosedWeeks
  <2>1. d < year.easter + 8
    BY <1>1, <1>2, <1>6, <1>8 DEF LooksFrom
  <2>2. canonical[i] \notin ClosedWeeks /\ canonical[i] > c
    BY <1>1, <1>2, <2>1
  <2>3. d = year.easter + 7
    BY <1>1, <1>2, <1>3, <1>8, <2>1, <2>2 DEF ClosedWeeks, HolyWeek, EasterWeek
  <2> QED BY <1>3, <1>5, <2>3
<1> QED BY <1>7, <1>8

\* Between two Sundays are six days.
LEMMA SundaysApart ==
    ASSUME YearOK, NEW c \in Nat, NEW d \in Nat, c < d, Weekday(c) = Sunday, Weekday(d) = Sunday
    PROVE  c <= d - 7
<1>1. PICK n \in Int : n = year.easter + 1
  BY DEF YearOK
<1>2. (c - n) % 7 = 6 /\ (d - n) % 7 = 6
  BY <1>1 DEF Weekday, Sunday, YearOK
<1>3. \A k \in 1 .. 6 : (c + k - n) % 7 # 6
  BY <1>2
<1>4. d - c \notin 1 .. 6
  BY <1>2, <1>3
<1> QED BY <1>4

\* The Sundays on which a holy day of a fixed date may stay come after six days that no
\* feast passes over without a feast on them, if it comes from before them.
LEMMA WeekIsCrowded ==
    ASSUME YearOK, OrderInv, NEW i, i \in FixedHolyDays, NEW d \in Nat, canonical[i] = d,
           OverridesSunday(table[i]), Weekday(d) = Sunday,
           NEW e \in occupied, DaysOK, NEW c \in Nat, c = canonical[calendar[e]], c < d, d < e,
           calendar[e] \in FixedHolyDays, HolyPassed(calendar[e], e)
    PROVE  CrowdedWeek
<1>1. year.easter \in 81 .. 129 /\ e \in Nat /\ year.leap \in BOOLEAN
  BY DEF YearOK, DaysOK
<1>2. d \in {DayOf(1, 1), DayOf(2, 2), DayOf(8, 6)}
  BY DEF OrderInv, OverridingDates
<1>3. DayOf(1, 1) = 1 /\ DayOf(2, 2) = 33 /\ DayOf(8, 6) \in {218, 219}
  BY <1>1 DEF DayOf, DaysBefore
<1>4. AshWednesday = year.easter - 46
  BY DEF AshWednesday
<1>5. \A x \in LooksFrom(calendar[e]) .. e - 1 : NotForHolyDays(x)
  BY DEF HolyPassed
<1>6. LooksFrom(calendar[e]) \in Nat /\ LooksFrom(calendar[e]) <= d - 6 /\ d # DayOf(1, 1)
  <2>1. CASE c \in ClosedWeeks
    <3>1. LooksFrom(calendar[e]) = year.easter + 8 /\ c >= year.easter - 7
      BY <1>1, <2>1 DEF LooksFrom, ClosedWeeks, HolyWeek, EasterWeek
    <3> QED BY <1>1, <1>2, <1>3, <3>1
  <2>2. CASE c \notin ClosedWeeks
    <3>1. LooksFrom(calendar[e]) = c
      BY <2>2 DEF LooksFrom
    <3>2. Weekday(c) = Sunday \/ c = AshWednesday
      BY <2>2 DEF HolyPassed
    <3>3. CASE Weekday(c) = Sunday
      <4>1. c <= d - 7
        BY <3>3, SundaysApart
      <4> QED BY <1>3, <3>1, <4>1
    <3>4. CASE c = AshWednesday
      BY <1>1, <1>2, <1>3, <1>4, <3>1, <3>4
    <3> QED BY <3>2, <3>3, <3>4
  <2> QED BY <2>1, <2>2
<1>7. ASSUME NEW x \in d - 6 .. d - 1
      PROVE  x \in occupied /\ table[calendar[x]].precedence # "lesser_commemoration"
  <2>1. x \in LooksFrom(calendar[e]) .. e - 1
    BY <1>1, <1>6
  <2>2. Weekday(x) # Sunday
    BY <1>1 DEF Weekday, Sunday
  <2>3. x # AshWednesday
    BY <1>1, <1>2, <1>3, <1>4, <1>6
  <2> QED BY <1>5, <2>1, <2>2, <2>3 DEF NotForHolyDays
<1> QED BY <1>2, <1>6, <1>7 DEF CrowdedWeek

\* and of the holy days.
LEMMA HolyAfterEarlier ==
    ASSUME CalendarInv, OrderInv, NEW i, NEW d \in Nat, canonical[i] \in Nat, Fits(i, d),
           d \notin occupied,
           i \in FixedHolyDays, canonical[i] \in ClosedWeeks => d >= year.easter + 8,
           Weekday(d) = Sunday => d = canonical[i],
           NEW e \in occupied, calendar[e] \in FixedHolyDays, HolyPassed(calendar[e], e),
           canonical[calendar[e]] \in Nat, canonical[calendar[e]] < canonical[i],
           ~CrowdedWeek
    PROVE  e < d
<1>1. PICK c \in Nat : c = canonical[calendar[e]] /\ c < canonical[i]
  OBVIOUS
<1>2. YearOK /\ DaysOK /\ year.easter \in 81 .. 129 /\ e \in Nat
  BY DEF CalendarInv, CalTypeOK, YearOK, DaysOK
<1>3. d >= canonical[i] /\ d # AshWednesday /\ (Weekday(d) = Sunday => OverridesSunday(table[i]))
  BY DEF Fits, FixedHolyDays, Group
<1>4. d # e
  OBVIOUS
<1> SUFFICES ASSUME d < e PROVE FALSE
  BY <1>2, <1>4
<1>5. Weekday(d) # Sunday
  BY <1>1, <1>2, <1>3, WeekIsCrowded
<1>6. ~ d \in LooksFrom(calendar[e]) .. e - 1
  BY <1>3, <1>5 DEF HolyPassed, NotForHolyDays
<1>7. Weekday(year.easter + 7) = Sunday
  BY <1>2 DEF Weekday, Sunday
<1>8. CASE c \notin ClosedWeeks
  BY <1>1, <1>2, <1>3, <1>6, <1>8 DEF LooksFrom
<1>9. CASE c \in ClosedWeeks
  <2>1. d < year.easter + 8
    BY <1>1, <1>2, <1>6, <1>9 DEF LooksFrom
  <2>2. canonical[i] \notin ClosedWeeks /\ canonical[i] > c
    BY <1>1, <1>2, <2>1
  <2>3. d = year.easter + 7
    BY <1>1, <1>2, <1>3, <1>9, <2>1, <2>2 DEF ClosedWeeks, HolyWeek, EasterWeek
  <2> QED BY <1>5, <1>7, <2>3
<1> QED BY <1>8, <1>9

-----------------------------------------------------------------------------
\* Where nothing is placed all stays in order.
LEMMA DatesStay ==
    ASSUME UNCHANGED <<year, table, canonical>>
    PROVE  /\ FixedHolyDays' = FixedHolyDays
           /\ LesserOnes' = LesserOnes
           /\ \A i : /\ LooksFrom(i)' = LooksFrom(i)
                     /\ OverridesSunday(table[i])' = OverridesSunday(table[i])
           /\ \A x : Weekday(x)' = Weekday(x)
           /\ AshWednesday' = AshWednesday /\ ClosedWeeks' = ClosedWeeks
           /\ \A m, x : DayOf(m, x)' = DayOf(m, x)
           /\ OverridingDates => OverridingDates'
<1>1. \A prec : Group(prec)' = Group(prec)
  BY DEF Group
<1>2. FixedHolyDays' = FixedHolyDays
  BY <1>1 DEF FixedHolyDays
<1>3. ClosedWeeks' = ClosedWeeks /\ AshWednesday' = AshWednesday /\ \A x : Weekday(x)' = Weekday(x)
  BY DEF ClosedWeeks, HolyWeek, EasterWeek, AshWednesday, Weekday
<1>4. LesserOnes' = LesserOnes /\ \A i : LooksFrom(i)' = LooksFrom(i)
  BY <1>1, <1>3 DEF LesserOnes, LooksFrom
<1>5. \A i : OverridesSunday(table[i])' = OverridesSunday(table[i])
  BY DEF OverridesSunday
<1>6. \A m, x : DayOf(m, x)' = DayOf(m, x)
  BY DEF DayOf
<1>7. OverridingDates => OverridingDates'
  BY <1>2, <1>5, <1>6 DEF OverridingDates
<1> QED BY <1>2, <1>3, <1>4, <1>5, <1>6, <1>7

\* Days are only ever taken, so that what was passed over stays so.
LEMMA PassedStays ==
    ASSUME UNCHANGED <<year, table, canonical>>, occupied \subseteq occupied',
           \A d \in occupied : calendar'[d] = calendar[d]
    PROVE  /\ \A i, d : HolyPassed(i, d) => HolyPassed(i, d)'
           /\ \A i, d : LesserPassed(i, d) => LesserPassed(i, d)'
           /\ CrowdedWeek => CrowdedWeek'
<1>1. \A x : (NotForHolyDays(x) => NotForHolyDays(x)') /\ (NotForLesserOnes(x) => NotForLesserOnes(x)')
  BY DatesStay DEF NotForHolyDays, NotForLesserOnes
<1>2. \A i, d : HolyPassed(i, d) => HolyPassed(i, d)'
  BY <1>1, DatesStay DEF HolyPassed
<1>3. \A i, d : LesserPassed(i, d) => LesserPassed(i, d)'
  BY <1>1, DatesStay DEF LesserPassed
<1>4. CrowdedWeek => CrowdedWeek'
  <2> SUFFICES ASSUME CrowdedWeek PROVE CrowdedWeek'
    OBVIOUS
  <2>1. PICK s \in {DayOf(2, 2), DayOf(8, 6)} :
          /\ Weekday(s) = Sunday
          /\ \A x \in s - 6 .. s - 1 :
                x \in occupied /\ table[calendar[x]].precedence # "lesser_commemoration"
    BY DEF CrowdedWeek
  <2>2. s \in {DayOf(2, 2)', DayOf(8, 6)'} /\ Weekday(s)' = Sunday
    BY <2>1, DatesStay
  <2>3. \A x \in s - 6 .. s - 1 :
           x \in occupied' /\ table'[calendar'[x]].precedence # "lesser_commemoration"
    BY <2>1
  <2> QED BY <2>2, <2>3 DEF CrowdedWeek
<1> QED BY <1>2, <1>3, <1>4

\* All who have a day are in the table.
LEMMA PlacedFeasts ==
    ASSUME CalendarInv, NEW d \in occupied
    PROVE  /\ calendar[d] \in DOMAIN table /\ canonical[calendar[d]] \in Nat /\ d \in Nat
           /\ phase \in {"principal", "holy_day"} =>
                table[calendar[d]].precedence # "lesser_commemoration"
           /\ phase = "principal" => table[calendar[d]].precedence = "principal_feast"
BY DEF CalendarInv, CalTypeOK, DaysOK, PlacedByRank, Group, LesserWinners

\* What the order needs of the day a feast is given.
InOrder(i, d) ==
    /\ i \in FixedHolyDays => HolyPassed(i, d) /\ (Weekday(d) = Sunday => d = canonical[i])
    /\ i \in LesserOnes => LesserPassed(i, d)
    /\ i \in FixedHolyDays \/ i \in LesserOnes =>
         (canonical[i] \in ClosedWeeks => d >= year.easter + 8)

\* A feast that is given a day keeps the order.
LEMMA ObserveInOrder ==
    ASSUME CalendarInv, OrderInv, NEW i \in todo, NEW d \in Nat, d \notin occupied, Fits(i, d),
           canonical[i] \in Nat, \A j \in todo : canonical[i] <= canonical[j],
           InOrder(i, d), Observe(i, d), Done(i)
    PROVE  OrderInv'
<1>1. /\ occupied' = occupied \cup {d} /\ calendar'[d] = i
      /\ \A x \in occupied : calendar'[x] = calendar[x]
  BY DEF Observe, occupied
<1>2. UNCHANGED <<year, table, canonical, phase>> /\ todo' = todo \ {i}
  BY DEF Done
<1>3. EachOnce'
  BY <1>1, <1>2 DEF OrderInv, EachOnce
<1>4. InTurn'
  <2> SUFFICES ASSUME NEW x \in occupied', NEW j \in todo',
                      table[calendar'[x]].precedence = table[j].precedence
               PROVE  canonical[calendar'[x]] <= canonical[j]
    BY <1>2 DEF InTurn
  <2>1. j \in todo
    BY <1>2
  <2>2. CASE x = d
    BY <1>1, <2>1, <2>2
  <2>3. CASE x \in occupied
    BY <1>1, <2>1, <2>3 DEF OrderInv, InTurn
  <2> QED BY <1>1, <2>2, <2>3
<1>5. OverridingDates'
  BY <1>2, DatesStay DEF OrderInv
<1>6. ASSUME NEW x \in occupied', NEW j \in FixedHolyDays, calendar'[x] = j PROVE HolyPassed(j, x)'
  <2>1. HolyPassed(j, x)
    BY <1>1, <1>6 DEF OrderInv, InOrder
  <2> QED BY <1>1, <1>2, <2>1, PassedStays
<1>7. ASSUME NEW x \in occupied', NEW j \in LesserOnes, calendar'[x] = j PROVE LesserPassed(j, x)'
  <2>1. LesserPassed(j, x)
    BY <1>1, <1>7 DEF OrderInv, InOrder
  <2> QED BY <1>1, <1>2, <2>1, PassedStays
<1>8. ASSUME NEW e \in occupied, table[calendar[e]].precedence = table[i].precedence
      PROVE  canonical[calendar[e]] <= canonical[i] /\ canonical[calendar[e]] \in Nat
  BY <1>8, PlacedFeasts DEF OrderInv, InTurn
<1>9. CrowdedWeek' \/ KeepsOrder(FixedHolyDays)'
  <2> SUFFICES ASSUME ~CrowdedWeek',
                      NEW x \in occupied', NEW y \in occupied',
                      calendar'[x] \in FixedHolyDays, calendar'[y] \in FixedHolyDays,
                      canonical[calendar'[x]] < canonical[calendar'[y]]
               PROVE  x < y
    BY <1>2, DatesStay DEF KeepsOrder
  <2>1. ~CrowdedWeek
    BY <1>1, <1>2, PassedStays
  <2>2. CASE x \in occupied /\ y \in occupied
    BY <1>1, <2>1, <2>2 DEF OrderInv, KeepsOrder
  <2>3. CASE x \in occupied /\ y = d
    <3>1. /\ i \in FixedHolyDays /\ calendar[x] \in FixedHolyDays /\ HolyPassed(calendar[x], x)
          /\ canonical[calendar[x]] < canonical[i] /\ canonical[calendar[x]] \in Nat
      BY <1>1, <2>3, PlacedFeasts DEF OrderInv
    <3>2. /\ canonical[i] \in ClosedWeeks => d >= year.easter + 8
          /\ Weekday(d) = Sunday => d = canonical[i]
      BY <3>1 DEF InOrder
    <3> QED BY <2>1, <2>3, <3>1, <3>2, HolyAfterEarlier
  <2>4. CASE x = d /\ y \in occupied
    <3>1. table[calendar[y]].precedence = table[i].precedence
      BY <1>1, <2>4 DEF FixedHolyDays, Group
    <3> QED BY <1>1, <1>8, <2>4, <3>1
  <2>5. CASE x = d /\ y = d
    BY <1>1, <2>5
  <2> QED BY <1>1, <2>2, <2>3, <2>4, <2>5
<1>10. KeepsOrder(LesserOnes)'
  <2> SUFFICES ASSUME NEW x \in occupied', NEW y \in occupied',
                      calendar'[x] \in LesserOnes, calendar'[y] \in LesserOnes,
                      canonical[calendar'[x]] < canonical[calendar'[y]]
               PROVE  x < y
    BY <1>2, DatesStay DEF KeepsOrder
  <2>1. CASE x \in occupied /\ y \in occupied
    BY <1>1, <2>1 DEF OrderInv, KeepsOrder
  <2>2. CASE x \in occupied /\ y = d
    <3>1. /\ i \in LesserOnes /\ calendar[x] \in LesserOnes /\ LesserPassed(calendar[x], x)
          /\ canonical[calendar[x]] < canonical[i] /\ canonical[calendar[x]] \in Nat
      BY <1>1, <2>2, PlacedFeasts DEF OrderInv
    <3>2. canonical[i] \in ClosedWeeks => d >= year.easter + 8
      BY <3>1 DEF InOrder
    <3> QED BY <2>2, <3>1, <3>2, LesserAfterEarlier
  <2>3. CASE x = d /\ y \in occupied
    <3>1. table[calendar[y]].precedence = table[i].precedence
      BY <1>1, <2>3 DEF LesserOnes, Group
    <3> QED BY <1>1, <1>8, <2>3, <3>1
  <2>4. CASE x = d /\ y = d
    BY <1>1, <2>4
  <2> QED BY <1>1, <2>1, <2>2, <2>3, <2>4
<1>11. FixedHolyDays' = FixedHolyDays /\ LesserOnes' = LesserOnes
  BY <1>2, DatesStay
<1> QED BY <1>3, <1>4, <1>5, <1>6, <1>7, <1>9, <1>10, <1>11 DEF OrderInv

\* Where no feast is given a day: one is skipped, or the next kind has its turn.
LEMMA PauseInOrder ==
    ASSUME OrderInv, UNCHANGED <<year, table, canonical, calendar>>, EachOnce', InTurn'
    PROVE  OrderInv'
<1>1. occupied' = occupied
  BY DEF occupied
<1>2. OverridingDates'
  BY DatesStay DEF OrderInv
<1>3. \A d \in occupied' : \A i \in FixedHolyDays' : calendar'[d] = i => HolyPassed(i, d)'
  BY <1>1, DatesStay, PassedStays DEF OrderInv
<1>4. \A d \in occupied' : \A i \in LesserOnes' : calendar'[d] = i => LesserPassed(i, d)'
  BY <1>1, DatesStay, PassedStays DEF OrderInv
<1>5. CrowdedWeek' \/ KeepsOrder(FixedHolyDays)'
  BY <1>1, DatesStay, PassedStays DEF OrderInv, KeepsOrder
<1>6. KeepsOrder(LesserOnes)'
  BY <1>1 DEF OrderInv, KeepsOrder, LesserOnes, Group
<1> QED BY <1>2, <1>3, <1>4, <1>5, <1>6 DEF OrderInv

YearInv == CalendarInv /\ OrderInv

LEMMA ObservedKeeps ==
    ASSUME YearInv, NEW i \in todo, NEW d \in Nat, d \notin occupied, Fits(i, d), InOrder(i, d),
           canonical[i] \in Nat, \A j \in todo : canonical[i] <= canonical[j],
           Observe(i, d), Done(i)
    PROVE  YearInv'
BY ObserveKeeps, ObserveInOrder DEF YearInv

LEMMA SkippedKeeps ==
    ASSUME YearInv, NEW i \in todo, phase \in {"principal", "holy_day"},
           canonical[i] \in occupied, UNCHANGED calendar, Done(i),
           phase = "holy_day" => ~MovesOutOfClosedWeeks(i)
    PROVE  YearInv'
<1>1. UNCHANGED <<year, table, canonical, calendar>> /\ todo' \subseteq todo /\ occupied' = occupied
  BY DEF Done, occupied
<1>2. EachOnce' /\ InTurn'
  BY <1>1 DEF YearInv, OrderInv, EachOnce, InTurn
<1> QED BY <1>1, <1>2, SkipKeeps, PauseInOrder DEF YearInv

-----------------------------------------------------------------------------
LEMMA PrincipalFeastKeeps == YearInv /\ PlacePrincipalFeast => YearInv'
<1> SUFFICES ASSUME YearInv, PlacePrincipalFeast PROVE YearInv'
  OBVIOUS
<1> DEFINE i == NextFeast
<1>1. /\ phase = "principal" /\ i \in todo /\ i \in Group("principal_feast")
      /\ canonical[i] \in Nat \ {0} /\ \A j \in todo : canonical[i] <= canonical[j]
  BY FeastInHand DEF PlacePrincipalFeast, YearInv, CalendarInv, GroupOf
<1>2. ObserveIfFree(i, canonical[i]) /\ Done(i)
  BY DEF PlacePrincipalFeast
<1> HIDE DEF i
<1>3. CASE canonical[i] \in occupied
  BY <1>1, <1>2, <1>3, SkippedKeeps DEF ObserveIfFree
<1>4. CASE canonical[i] \notin occupied
  <2>1. Fits(i, canonical[i])
    BY <1>1 DEF Fits, Group
  <2>2. InOrder(i, canonical[i])
    BY <1>1 DEF InOrder, FixedHolyDays, LesserOnes, Group
  <2> QED BY <1>1, <1>2, <1>4, <2>1, <2>2, ObservedKeeps DEF ObserveIfFree
<1> QED BY <1>3, <1>4

LEMMA HolyDayKeeps == YearInv /\ PlaceHolyDay => YearInv'
<1> SUFFICES ASSUME YearInv, PlaceHolyDay PROVE YearInv'
  OBVIOUS
<1> DEFINE i == NextFeast
           away == NextOpenDay(WeekAfterSecondSunday)
           kept == AfterSunday(i)
           target == AfterAshWednesday(i, kept)
<1>1. /\ phase = "holy_day" /\ i \in todo /\ i \in Group("holy_day")
      /\ i \in DOMAIN table /\ canonical[i] \in Nat \ {0}
      /\ \A j \in todo : canonical[i] <= canonical[j]
  BY FeastInHand DEF PlaceHolyDay, YearInv, CalendarInv, GroupOf
<1>2. /\ Done(i)
      /\ \/ MovesOutOfClosedWeeks(i) /\ Observe(i, away)
         \/ ~MovesOutOfClosedWeeks(i) /\ ObserveIfFree(i, target)
  BY DEF PlaceHolyDay
<1>3. YearOK /\ DaysOK /\ year.easter \in 81 .. 129
  BY DEF YearInv, CalendarInv, CalTypeOK, YearOK
<1>4. table[i].precedence = "holy_day"
  BY <1>1 DEF Group
<1>5. table[i].type = "fixed" => table[i].rule[1] = "date"
  BY <1>1 DEF YearInv, CalendarInv, CalTypeOK
<1> HIDE DEF i
<1>6. i \notin LesserOnes /\ (i \in FixedHolyDays => table[i].type = "fixed")
  BY <1>4 DEF LesserOnes, FixedHolyDays, Group
\* On a day that is taken now there is a principal feast or a holy day.
<1>7. \A x \in occupied : NotForHolyDays(x)
  BY <1>1, PlacedFeasts DEF YearInv, NotForHolyDays
<1>8. CASE MovesOutOfClosedWeeks(i)
  <2>1. WeekAfterSecondSunday \in Nat
    BY <1>3 DEF WeekAfterSecondSunday
  <2>2. /\ away \in Nat /\ away >= year.easter + 8
        /\ away \notin occupied /\ Weekday(away) # Sunday
        /\ \A x \in year.easter + 8 .. away - 1 : x \in occupied \/ Weekday(x) = Sunday
    BY <1>3, <2>1, OpenDay DEF WeekAfterSecondSunday
  <2> HIDE DEF away
  <2>3. table[i].type = "fixed" /\ canonical[i] <= year.easter + 6 /\ canonical[i] \in ClosedWeeks
    BY <1>1, <1>3, <1>8 DEF MovesOutOfClosedWeeks, ClosedWeeks, HolyWeek, EasterWeek
  <2>4. Fits(i, away)
    BY <1>1, <1>3, <1>4, <2>2, <2>3 DEF Fits, AshWednesday, ClosedWeeks, HolyWeek, EasterWeek
  <2>5. Observe(i, away)
    BY <1>2, <1>8
  <2>6. HolyPassed(i, away)
    <3>1. LooksFrom(i) = year.easter + 8
      BY <2>3 DEF LooksFrom
    <3>2. \A x \in year.easter + 8 .. away - 1 : NotForHolyDays(x)
      BY <1>7, <2>2 DEF NotForHolyDays
    <3> QED BY <2>3, <3>1, <3>2 DEF HolyPassed
  <2>7. InOrder(i, away)
    BY <1>6, <2>2, <2>6 DEF InOrder
  <2> QED BY <1>1, <1>2, <2>2, <2>4, <2>5, <2>7, ObservedKeeps
<1>9. CASE ~MovesOutOfClosedWeeks(i)
  <2>1. \/ kept = canonical[i] /\ (table[i].type = "fixed" /\ Weekday(kept) = Sunday => OverridesSunday(table[i]))
        \/ /\ kept \in Nat /\ kept > canonical[i] /\ kept \notin occupied
           /\ Weekday(kept) # Sunday /\ table[i].type = "fixed"
           /\ Weekday(canonical[i]) = Sunday
           /\ \A x \in canonical[i] + 1 .. kept - 1 : x \in occupied \/ Weekday(x) = Sunday
    BY <1>1, <1>3, OpenDay DEF AfterSunday
  <2>2. AshWednesday \in Nat /\ AshWednesday = year.easter - 46
    BY <1>3 DEF AshWednesday
  <2> HIDE DEF kept
  <2>3. \/ /\ target = kept
           /\ kept = AshWednesday => table[i].rule = <<"easter", -46>>
        \/ /\ kept = AshWednesday
           /\ target \in Nat /\ target > AshWednesday
           /\ target \notin occupied /\ Weekday(target) # Sunday
           /\ \A x \in AshWednesday + 1 .. target - 1 : x \in occupied \/ Weekday(x) = Sunday
    BY <1>3, <2>2, OpenDay DEF AfterAshWednesday
  <2> HIDE DEF target
  <2>4. table[i].type = "fixed" => table[i].rule # <<"easter", -46>>
    BY <1>5
  <2>5. target \in Nat /\ ObserveIfFree(i, target)
    BY <1>1, <1>2, <1>9, <2>1, <2>3
  <2>6. CASE target \in occupied
    <3>1. target = canonical[i]
      BY <2>1, <2>3, <2>6
    <3> QED BY <1>1, <1>2, <1>9, <2>5, <2>6, <3>1, SkippedKeeps DEF ObserveIfFree
  <2>7. CASE target \notin occupied
    <3>1. table[i].type = "fixed" /\ target \in ClosedWeeks => canonical[i] < year.easter - 7
      BY <1>1, <1>3, <1>9, <2>1, <2>2, <2>3 DEF MovesOutOfClosedWeeks, ClosedWeeks, HolyWeek, EasterWeek
    <3>2. target >= canonical[i]
      BY <1>1, <2>1, <2>2, <2>3
    <3>3. table[i].type = "movable" /\ canonical[i] # AshWednesday => target = canonical[i]
      BY <2>1, <2>3
    <3>4. table[i].type = "fixed" =>
            target # AshWednesday /\ (Weekday(target) = Sunday => OverridesSunday(table[i]))
      BY <2>1, <2>2, <2>3, <2>4
    <3>5. Fits(i, target)
      BY <1>4, <3>1, <3>2, <3>3, <3>4 DEF Fits
    <3>6. ASSUME i \in FixedHolyDays PROVE HolyPassed(i, target) /\ canonical[i] \notin ClosedWeeks
      <4>1. table[i].type = "fixed" /\ canonical[i] \notin ClosedWeeks /\ LooksFrom(i) = canonical[i]
        BY <1>6, <1>9, <3>6 DEF MovesOutOfClosedWeeks, LooksFrom
      <4>2. \A x \in canonical[i] .. kept - 1 : NotForHolyDays(x)
        BY <1>1, <1>7, <2>1 DEF NotForHolyDays
      <4>3. \A x \in kept .. target - 1 : NotForHolyDays(x)
        BY <1>1, <1>7, <2>1, <2>2, <2>3 DEF NotForHolyDays
      <4>4. \A x \in canonical[i] .. target - 1 : NotForHolyDays(x)
        BY <1>1, <2>1, <2>2, <2>3, <4>2, <4>3
      <4>5. target # canonical[i] => Weekday(canonical[i]) = Sunday \/ canonical[i] = AshWednesday
        BY <2>1, <2>3
      <4> QED BY <4>1, <4>4, <4>5 DEF HolyPassed
    <3>7. i \in FixedHolyDays /\ Weekday(target) = Sunday => target = canonical[i]
      BY <2>1, <2>3
    <3>8. InOrder(i, target)
      BY <1>6, <3>6, <3>7 DEF InOrder
    <3> QED BY <1>1, <1>2, <2>5, <2>7, <3>5, <3>8, ObservedKeeps DEF ObserveIfFree
  <2> QED BY <2>6, <2>7
<1> QED BY <1>8, <1>9

LEMMA LesserCommemorationKeeps == YearInv /\ PlaceLesserCommemoration => YearInv'
<1> SUFFICES ASSUME YearInv, PlaceLesserCommemoration PROVE YearInv'
  OBVIOUS
<1> DEFINE i == NextFeast
           target == LesserDay(i)
<1>1. /\ phase = "lesser" /\ i \in todo /\ i \in LesserWinners
      /\ canonical[i] \in Nat \ {0} /\ \A j \in todo : canonical[i] <= canonical[j]
  BY FeastInHand DEF PlaceLesserCommemoration, YearInv, CalendarInv, GroupOf
<1>2. Done(i) /\ Observe(i, target)
  BY DEF PlaceLesserCommemoration
<1>3. YearOK /\ DaysOK /\ year.easter \in 81 .. 129
  BY DEF YearInv, CalendarInv, CalTypeOK, YearOK
<1>4. table[i].precedence = "lesser_commemoration"
  BY <1>1 DEF LesserWinners, Group
<1> HIDE DEF i
<1>5. i \notin FixedHolyDays
  BY <1>4 DEF FixedHolyDays, Group
<1>6. CASE canonical[i] \in ClosedWeeks
  <2>1. WeekAfterSecondSunday \in Nat /\ target = NextOpenDay(WeekAfterSecondSunday)
    BY <1>3, <1>6 DEF WeekAfterSecondSunday, LesserDay
  <2>2. /\ target \in Nat /\ target >= year.easter + 8
        /\ target \notin occupied /\ Weekday(target) # Sunday
        /\ \A x \in year.easter + 8 .. target - 1 : x \in occupied \/ Weekday(x) = Sunday
    BY <1>3, <2>1, OpenDay DEF WeekAfterSecondSunday
  <2> HIDE DEF target
  <2>3. Fits(i, target)
    BY <1>1, <1>3, <1>4, <1>6, <2>2 DEF Fits, ClosedWeeks, HolyWeek, EasterWeek
  <2>4. InOrder(i, target)
    BY <1>6, <1>5, <2>2 DEF InOrder, LesserPassed, LooksFrom, NotForLesserOnes
  <2> QED BY <1>1, <1>2, <2>2, <2>3, <2>4, ObservedKeeps
<1>7. CASE canonical[i] \notin ClosedWeeks
  <2>1. /\ target \in Nat /\ target >= canonical[i]
        /\ target \notin occupied /\ Weekday(target) # Sunday
        /\ \A x \in canonical[i] .. target - 1 : x \in occupied \/ Weekday(x) = Sunday
    <3>1. CASE Weekday(canonical[i]) = Sunday \/ canonical[i] \in occupied
      <4>1. target = NextOpenDay(canonical[i] + 1) /\ canonical[i] + 1 \in Nat
        BY <1>1, <1>7, <3>1 DEF LesserDay
      <4> HIDE DEF target
      <4>2. /\ target \in Nat /\ target >= canonical[i] + 1
            /\ target \notin occupied /\ Weekday(target) # Sunday
            /\ \A x \in canonical[i] + 1 .. target - 1 : x \in occupied \/ Weekday(x) = Sunday
        BY <1>3, <4>1, OpenDay
      <4> QED BY <1>1, <3>1, <4>2
    <3>2. CASE ~(Weekday(canonical[i]) = Sunday \/ canonical[i] \in occupied)
      BY <1>1, <1>7, <3>2 DEF LesserDay
    <3> QED BY <3>1, <3>2
  <2> HIDE DEF target
  <2>2. target \in ClosedWeeks => canonical[i] < year.easter - 7
    BY <1>1, <1>3, <1>7, <2>1 DEF ClosedWeeks, HolyWeek, EasterWeek
  <2>3. Fits(i, target)
    BY <1>4, <2>1, <2>2 DEF Fits
  <2>4. InOrder(i, target)
    BY <1>7, <1>5, <2>1 DEF InOrder, LesserPassed, LooksFrom, NotForLesserOnes
  <2> QED BY <1>1, <1>2, <2>1, <2>3, <2>4, ObservedKeeps
<1> QED BY <1>6, <1>7

LEMMA PhaseKeeps == YearInv /\ NextPhase => YearInv'
<1> SUFFICES ASSUME YearInv, NextPhase PROVE YearInv'
  OBVIOUS
<1>1. UNCHANGED <<year, table, canonical, calendar>> /\ occupied' = occupied
  BY DEF NextPhase, occupied
<1>2. /\ Observed \subseteq Observed' /\ \A j : Settled(j) => Settled(j)'
      /\ \A prec : Group(prec)' = Group(prec)
      /\ LesserWinners' = LesserWinners
  BY <1>1, SettledStay
<1>3. OnAllowedDays'
  BY <1>1
  DEF YearInv, CalendarInv, OnAllowedDays, AshWednesday, Weekday, OverridesSunday, ClosedWeeks,
      HolyWeek, EasterWeek
<1>4. /\ todo = {}
      /\ \/ phase = "principal" /\ phase' = "holy_day" /\ todo' = Group("holy_day")
         \/ phase = "holy_day" /\ phase' = "lesser" /\ todo' = LesserWinners
         \/ phase = "lesser" /\ phase' = "done" /\ todo' = {}
  BY DEF NextPhase
<1>5. phase' \in Phases /\ todo' \subseteq GroupOf(phase)'
  BY <1>2, <1>4 DEF GroupOf, Phases
<1>6. CalTypeOK'
  BY <1>1, <1>5 DEF YearInv, CalendarInv, CalTypeOK, YearOK, DaysOK
<1>7. PlacedByRank'
  BY <1>1, <1>2, <1>4 DEF YearInv, CalendarInv, PlacedByRank
<1>8. AllSettled'
  BY <1>2, <1>4 DEF YearInv, CalendarInv, AllSettled
<1>9. EachOnce' /\ InTurn'
  <2>1. ASSUME NEW d \in occupied, NEW j \in todo'
        PROVE  table[calendar[d]].precedence # table[j].precedence
    BY <1>2, <1>4, PlacedFeasts DEF YearInv, Group, LesserWinners
  <2>2. \A d \in occupied : calendar[d] \notin todo'
    BY <2>1
  <2> QED BY <1>1, <2>1, <2>2 DEF YearInv, OrderInv, EachOnce, InTurn
<1>10. OrderInv'
  BY <1>1, <1>9, PauseInOrder DEF YearInv
<1> QED BY <1>3, <1>6, <1>7, <1>8, <1>10 DEF YearInv, CalendarInv

LEMMA CalendarStep == YearInv /\ [CalNext]_calVars => YearInv'
<1> SUFFICES ASSUME YearInv, [CalNext]_calVars PROVE YearInv'
  OBVIOUS
<1>1. CASE UNCHANGED calVars
  <2>1. UNCHANGED <<year, table, canonical, phase, todo, calendar>> /\ occupied' = occupied
    BY <1>1 DEF calVars, occupied
  <2>2. EachOnce' /\ InTurn'
    BY <2>1 DEF YearInv, OrderInv, EachOnce, InTurn
  <2>3. OrderInv'
    BY <2>1, <2>2, PauseInOrder DEF YearInv
  <2> QED BY <1>1, <2>3
     DEF YearInv, calVars, CalendarInv, CalTypeOK, YearOK, DaysOK, occupied, GroupOf, Group, LesserWinners,
     IsLesserWinner, SortsBefore, PlacedByRank, OnAllowedDays, AshWednesday, Weekday, OverridesSunday,
     ClosedWeeks, HolyWeek, EasterWeek, AllSettled, Settled, Observed, HeldByAnother, Rank, MovesOutOfClosedWeeks
<1> QED BY <1>1, PrincipalFeastKeeps, HolyDayKeeps, LesserCommemorationKeeps, PhaseKeeps DEF CalNext

LEMMA YearInitially == CalInit => YearInv
BY CalendarInitially, OrderInitially DEF YearInv

LEMMA YearImplies == YearInv => OnAllowedDays /\ LostOnlyToItsEqual /\ ObservedWhereAllowed
BY CalendarImplies, OrderImplies DEF YearInv, ObservedWhereAllowed

\* resolve_with_precedence observes every feast on a day the rules allow it, in every
\* year and whatever the table holds.
THEOREM FeastsOnAllowedDays == CalSpec => []OnAllowedDays
<1> QED BY YearInitially, CalendarStep, YearImplies, PTL DEF CalSpec

\* And holy days of fixed dates that are moved keep their order, but for a week full of
\* feasts before a Sunday that is none to move, and so do lesser commemorations.
THEOREM FeastsKeepTheirOrder == CalSpec => []ObservedWhereAllowed
<1> QED BY YearInitially, CalendarStep, YearImplies, PTL DEF CalSpec

\* A feast loses its day only to one of at least its rank, and no winner of the lesser
\* commemorations is lost: "if target in occupied: continue".
THEOREM OnlyEqualsDisplace == CalSpec => []LostOnlyToItsEqual
<1> QED BY YearInitially, CalendarStep, YearImplies, PTL DEF CalSpec

-----------------------------------------------------------------------------
(* LiturgyImport: the documents.                                           *)

ParserNames == {"collects", "daily_office", "psalter", "proper_liturgies", "prayers"}
UnitPcs == {"insert", "meta", "embed"}

\* The names of the saints' texts stand for these texts.
NamedFor(key, hash) ==
    \A n \in DOMAIN Saints :
        /\ key = BioKey(Saints[n]) => hash = Saints[n].bio
        /\ \A c \in ToSet(Saints[n].collects) :
              key = CollectKey(Saints[n], c.rite) => hash = c.text

RowFits(key, row) ==
    /\ row \in [hash : {row.hash}, chunk : {row.chunk}, vector : {row.vector}, meta : {row.meta}]
    /\ row.chunk # None /\ row.hash # None => row.chunk = row.hash
    /\ NamedFor(key, row.hash)

DocsInv == \A key \in DOMAIN docs : RowFits(key, docs[key])

\* What a row says it goes on saying.
SaysMore(row, later) ==
    /\ later.hash = row.hash
    /\ row.chunk # None => later.chunk = row.chunk /\ later.vector = row.vector
    /\ row.meta # NoMeta => later.meta = row.meta

DocsGrow == \A key \in DOMAIN docs : key \in DOMAIN docs' /\ SaysMore(docs[key], docs'[key])

UnitDone(p, n) ==
    LET text == Pages[p][n].text row == UnitRow(p, n) key == Key(p, n) IN
    text # "" =>
        /\ key \in DOMAIN docs /\ docs[key].chunk = text
        /\ docs[key].vector = <<row.header, text>> /\ docs[key].meta = row.meta

BioDone(n) == Saints[n].bio # "" => bios[n] > 0 /\ Findable(Saints[n].bio)

ParseJobs == [pc : {"parse"}, left : Seq(ParserNames)]
UnitJobs == [pc : UnitPcs, left : Seq(ParserNames), parser : ParserNames, n : Nat \ {0}, clean : BOOLEAN]
SaintJobs(maps) == [pc : {"saint"}, n : Nat \ {0}, item : Nat, clean : BOOLEAN, map : maps]

ImportTypeOK ==
    /\ job \in {NoJob} \cup ParseJobs \cup UnitJobs \cup SaintJobs({job.map})
    /\ bios \in [1 .. Len(Saints) -> Nat]
    /\ clean \subseteq ParserNames \cup {"lff"}

\* The units behind a run that has had no error are done, and the one in its hands
\* has the row the run has made for it.
UnitsInv ==
    /\ \A p \in clean \ {"lff"} : \A n \in DOMAIN Pages[p] : UnitDone(p, n)
    /\ \A p \in ParserNames : \A n \in DOMAIN Pages[p] :
        job.pc \in UnitPcs /\ job.parser = p =>
            /\ job.clean /\ n < job.n => UnitDone(p, n)
            /\ n = job.n /\ job.pc # "insert" =>
                  /\ Key(p, n) \in DOMAIN docs
                  /\ docs[Key(p, n)].chunk = None
                  /\ docs[Key(p, n)].hash \in {None, Pages[p][n].text}
                  /\ docs[Key(p, n)].meta = IF job.pc = "meta" THEN NoMeta ELSE UnitRow(p, n).meta

SaintsInv ==
    \A n \in DOMAIN Saints :
        /\ "lff" \in clean => \A c \in ToSet(Saints[n].collects) : Findable(c.text)
        /\ Saints[n].slug \in known => BioDone(n)
        /\ job.pc = "saint" /\ job.clean =>
              /\ n < job.n => \A c \in ToSet(Saints[n].collects) : Findable(c.text)
              /\ (n < job.n \/ (n = job.n /\ job.item > 0)) /\ Saints[n].slug \in job.map =>
                    BioDone(n)
              /\ n = job.n => \A i \in DOMAIN Saints[n].collects :
                    i < job.item => Findable(Saints[n].collects[i].text)

TextsInv == ImportTypeOK /\ DocsInv /\ UnitsInv /\ SaintsInv

-----------------------------------------------------------------------------
LEMMA ParsersAreNamed == ToSet(Parsers) = ParserNames /\ Parsers \in Seq(ParserNames)
BY DEF ToSet, Parsers, ParserNames

LEMMA UnitIsDescribed ==
    ASSUME NEW p \in ParserNames, NEW n
    PROVE  UnitRow(p, n).meta # NoMeta
<1>1. \A genre, register, office : BcpMeta(genre, register, office) # NoMeta
  BY DEF BcpMeta, NoMeta, None
<1> QED BY <1>1 DEF UnitRow, ParserNames, CollectRow, OfficeRow, PsalmRow, LiturgyRow, PrayerRow

\* What is done stays done while the rows say more and the links are kept.
LEMMA DoneStays ==
    ASSUME DocsGrow, \A n \in DOMAIN Saints : bios'[n] >= bios[n],
           bios \in [1 .. Len(Saints) -> Nat], bios' \in [1 .. Len(Saints) -> Nat]
    PROVE  /\ \A p \in ParserNames : \A n \in DOMAIN Pages[p] : UnitDone(p, n) => UnitDone(p, n)'
           /\ \A text : text # None /\ Findable(text) => Findable(text)'
           /\ \A n \in DOMAIN Saints : BioDone(n) => BioDone(n)'
<1>1. ASSUME NEW p \in ParserNames, NEW n \in DOMAIN Pages[p], UnitDone(p, n) PROVE UnitDone(p, n)'
  <2>1. Pages[p][n].text # None
    BY TextsAssumption, ParsersAreNamed
  <2> QED BY <1>1, <2>1, UnitIsDescribed DEF UnitDone, DocsGrow, SaysMore
<1>2. \A text : text # None /\ Findable(text) => Findable(text)'
  BY DEF Findable, DocsGrow, SaysMore
<1>3. \A n \in DOMAIN Saints : Saints[n].bio # None
  BY TextsAssumption
<1>4. DOMAIN Saints = 1 .. Len(Saints)
  BY TextsAssumption
<1>5. \A n \in DOMAIN Saints : bios[n] > 0 => bios'[n] > 0
  BY <1>4
<1>6. \A n \in DOMAIN Saints : BioDone(n) => BioDone(n)'
  BY <1>2, <1>3, <1>5 DEF BioDone
<1> QED BY <1>1, <1>2, <1>6

LEMMA RowIsPut ==
    ASSUME DocsInv, NEW key, NEW row, RowFits(key, row),
           key \in DOMAIN docs => SaysMore(docs[key], row),
           \/ docs' = Put(key, row)
           \/ key \in DOMAIN docs /\ docs' = [docs EXCEPT ![key] = row]
    PROVE  /\ DocsInv' /\ DocsGrow
           /\ DOMAIN docs' = DOMAIN docs \cup {key} /\ docs'[key] = row
<1>1. /\ DOMAIN docs' = DOMAIN docs \cup {key} /\ docs'[key] = row
      /\ \A k \in DOMAIN docs : k # key => docs'[k] = docs[k]
  BY DEF Put
<1>2. \A k \in DOMAIN docs' : RowFits(k, docs'[k])
  BY <1>1 DEF DocsInv
<1>3. DocsInv'
  BY <1>2 DEF DocsInv, RowFits, NamedFor
<1> QED BY <1>1, <1>3 DEF DocsGrow, SaysMore

LEMMA JobIs ==
    ASSUME ImportTypeOK
    PROVE  /\ job.pc = "parse" => job \in ParseJobs
           /\ job.pc \in UnitPcs => job \in UnitJobs
           /\ job.pc = "saint" => job \in SaintJobs({job.map})
           /\ job.pc \in {"idle", "parse", "saint"} \cup UnitPcs
BY DEF ImportTypeOK, NoJob, ParseJobs, UnitJobs, SaintJobs, UnitPcs

LEMMA UnitInHand ==
    ASSUME ImportTypeOK, NEW pc \in UnitPcs, InUnit(pc)
    PROVE  /\ job \in UnitJobs /\ job.pc = pc /\ job.parser \in ParserNames
           /\ job.n \in DOMAIN Pages[job.parser] /\ Unit.text # None
<1>1. job \in UnitJobs /\ job.pc = pc /\ job.n <= Len(Pages[job.parser])
  BY JobIs DEF InUnit, Bcp
<1>2. job.parser \in ParserNames /\ job.n \in Nat \ {0}
  BY <1>1 DEF UnitJobs
<1>3. DOMAIN Pages[job.parser] = 1 .. Len(Pages[job.parser]) /\ Len(Pages[job.parser]) \in Nat
  BY <1>2, TextsAssumption, ParsersAreNamed
<1> QED BY <1>1, <1>2, <1>3, TextsAssumption, ParsersAreNamed DEF Unit

LEMMA UnitNamesAreApart ==
    ASSUME NEW p \in ParserNames, NEW n \in DOMAIN Pages[p], NEW hash
    PROVE  NamedFor(Key(p, n), hash)
<1>1. \A saint : Key(p, n) # BioKey(saint)
  BY DEF Key, BioKey
<1> QED BY <1>1, NamesAssumption, ParsersAreNamed DEF NamedFor

LEMMA NextUnitIs ==
    ASSUME job \in UnitJobs, NEW isClean \in BOOLEAN, NextUnit(isClean)
    PROVE  /\ job' \in UnitJobs /\ job'.pc = "insert" /\ job'.parser = job.parser
           /\ job'.n = job.n + 1 /\ (job'.clean => job.clean /\ isClean)
<1>1. job' = [pc |-> "insert", left |-> job.left, parser |-> job.parser, n |-> job.n + 1,
              clean |-> job.clean /\ isClean]
  BY DEF NextUnit, UnitJobs
<1>2. (job.clean /\ isClean) \in BOOLEAN
  OBVIOUS
<1>3. job.n + 1 \in Nat \ {0} /\ job.left \in Seq(ParserNames) /\ job.parser \in ParserNames
  BY DEF UnitJobs
<1> QED BY <1>1, <1>2, <1>3 DEF UnitJobs, UnitPcs

\* A step of the prayer book's job which leaves the saints alone.
LEMMA UnitsStep ==
    ASSUME TextsInv, ImportTypeOK', DocsInv', DocsGrow, UNCHANGED <<bios, known>>,
           "lff" \in clean' => "lff" \in clean,
           job'.pc # "saint",
           UnitsInv'
    PROVE  TextsInv'
<1>1. /\ \A text : text # None /\ Findable(text) => Findable(text)'
      /\ \A n \in DOMAIN Saints : BioDone(n) => BioDone(n)'
  BY DoneStays, TextsAssumption DEF TextsInv, ImportTypeOK
<1>2. \A n \in DOMAIN Saints : \A c \in ToSet(Saints[n].collects) : c.text # None
  BY TextsAssumption
<1>3. SaintsInv'
  BY <1>1, <1>2 DEF TextsInv, SaintsInv
<1> QED BY <1>3 DEF TextsInv

LEMMA NextUnitKeeps ==
    ASSUME TextsInv, NEW pc \in UnitPcs, InUnit(pc), NEW isClean \in BOOLEAN, NextUnit(isClean),
           DocsInv', DocsGrow, UNCHANGED <<bios, clean, known>>,
           NEW p \in ParserNames, NEW n \in DOMAIN Pages[p], p = job.parser, n = job.n,
           isClean => UnitDone(p, n)'
    PROVE  TextsInv'
<1>1. job \in UnitJobs
  BY UnitInHand DEF TextsInv
<1>2. /\ job' \in UnitJobs /\ job'.pc = "insert" /\ job'.parser = p /\ job'.n = n + 1
      /\ (job'.clean => job.clean /\ isClean)
  BY <1>1, NextUnitIs
<1>3. ImportTypeOK'
  BY <1>2 DEF TextsInv, ImportTypeOK
<1>4. \A q \in ParserNames : \A m \in DOMAIN Pages[q] : UnitDone(q, m) => UnitDone(q, m)'
  BY <1>3, DoneStays, TextsAssumption DEF TextsInv, ImportTypeOK
<1>5. \A q \in clean' \ {"lff"} : \A m \in DOMAIN Pages[q] : UnitDone(q, m)'
  BY <1>4 DEF TextsInv, UnitsInv, ImportTypeOK
<1>6. ASSUME NEW q \in ParserNames, NEW m \in DOMAIN Pages[q], job'.parser = q, job'.clean, m < job'.n
      PROVE  UnitDone(q, m)'
  <2>1. q = p /\ job.clean /\ isClean /\ m < n + 1
    BY <1>2, <1>6
  <2>2. DOMAIN Pages[q] = 1 .. Len(Pages[q]) /\ Len(Pages[q]) \in Nat
    BY TextsAssumption, ParsersAreNamed
  <2>3. CASE m = n
    BY <2>1, <2>3
  <2>4. CASE m < n
    <3>1. UnitDone(q, m)
      BY <1>1, <2>1, <2>4 DEF TextsInv, UnitsInv, UnitJobs
    <3> QED BY <1>4, <3>1
  <2> QED BY <2>1, <2>2, <2>3, <2>4
<1>7. UnitsInv'
  BY <1>2, <1>5, <1>6 DEF UnitsInv
<1>8. job'.pc # "saint"
  BY <1>2
<1> QED BY <1>3, <1>7, <1>8, UnitsStep

\* Nothing but the job itself changes, or the job's end.
LEMMA QuietStep ==
    ASSUME TextsInv, ImportTypeOK', UNCHANGED <<docs, bios, known>>,
           "lff" \in clean' => "lff" \in clean,
           job'.pc # "saint",
           UnitsInv'
    PROVE  TextsInv'
<1>1. DocsInv' /\ DocsGrow
  BY DEF TextsInv, DocsInv, DocsGrow, SaysMore, RowFits, NamedFor
<1> QED BY <1>1, UnitsStep

LEMMA UnitsOutside ==
    ASSUME TextsInv, UNCHANGED docs, clean' = clean, job'.pc \notin UnitPcs
    PROVE  UnitsInv'
<1>1. \A q \in clean \ {"lff"} : \A m \in DOMAIN Pages[q] : UnitDone(q, m)'
  BY DEF TextsInv, UnitsInv, UnitDone
<1> QED BY <1>1 DEF UnitsInv

LEMMA BcpStarts == TextsInv /\ StartBcp => TextsInv'
<1> SUFFICES ASSUME TextsInv, StartBcp PROVE TextsInv'
  OBVIOUS
<1>1. job' \in ParseJobs /\ job'.pc = "parse" /\ UNCHANGED <<docs, bios, clean, known>>
  BY ParsersAreNamed DEF StartBcp, ParseJobs, tables
<1>2. ImportTypeOK'
  BY <1>1 DEF TextsInv, ImportTypeOK
<1> QED BY <1>1, <1>2, UnitsOutside, QuietStep DEF UnitPcs

LEMMA JobEnds ==
    ASSUME TextsInv, job' = NoJob, UNCHANGED <<docs, bios, clean, known>>
    PROVE  TextsInv'
<1>1. ImportTypeOK' /\ job'.pc = "idle"
  BY DEF TextsInv, ImportTypeOK, NoJob
<1> QED BY <1>1, UnitsOutside, QuietStep DEF UnitPcs

LEMMA ParserFailsKeeps == TextsInv /\ ParserFails => TextsInv'
<1> SUFFICES ASSUME TextsInv, ParserFails PROVE TextsInv'
  OBVIOUS
<1>1. job \in ParseJobs /\ job.left # <<>> /\ UNCHANGED <<docs, bios, clean, known>>
  BY JobIs DEF TextsInv, ParserFails, Bcp, tables
<1>2. Tail(job.left) \in Seq(ParserNames)
  BY <1>1 DEF ParseJobs
<1>3. job' \in ParseJobs /\ job'.pc = "parse"
  BY <1>1, <1>2 DEF ParserFails, ParseJobs
<1>4. ImportTypeOK'
  BY <1>1, <1>3 DEF TextsInv, ImportTypeOK
<1> QED BY <1>1, <1>3, <1>4, UnitsOutside, QuietStep DEF UnitPcs

LEMMA ParsePagesKeeps == TextsInv /\ ParsePages => TextsInv'
<1> SUFFICES ASSUME TextsInv, ParsePages PROVE TextsInv'
  OBVIOUS
<1>1. job \in ParseJobs /\ job.left # <<>> /\ UNCHANGED <<docs, bios, clean, known>>
  BY JobIs DEF TextsInv, ParsePages, Bcp, tables
<1>2. Tail(job.left) \in Seq(ParserNames) /\ Head(job.left) \in ParserNames
  BY <1>1 DEF ParseJobs
<1>3. job' \in UnitJobs /\ job'.pc = "insert" /\ job'.n = 1
  BY <1>2 DEF ParsePages, UnitJobs, UnitPcs
<1>4. ImportTypeOK'
  BY <1>1, <1>3 DEF TextsInv, ImportTypeOK
<1>5. \A q \in clean \ {"lff"} : \A m \in DOMAIN Pages[q] : UnitDone(q, m)'
  BY <1>1 DEF TextsInv, UnitsInv, UnitDone
<1>6. \A q \in ParserNames : \A m \in DOMAIN Pages[q] : ~(m < 1)
  BY TextsAssumption, ParsersAreNamed
<1>7. UnitsInv'
  BY <1>1, <1>3, <1>5, <1>6 DEF UnitsInv
<1> QED BY <1>1, <1>3, <1>4, <1>7, QuietStep

LEMMA SkipEmptyPsalmKeeps == TextsInv /\ SkipEmptyPsalm => TextsInv'
<1> SUFFICES ASSUME TextsInv, SkipEmptyPsalm PROVE TextsInv'
  OBVIOUS
<1>1. InUnit("insert") /\ NextUnit(TRUE) /\ Unit.text = "" /\ UNCHANGED <<docs, bios, clean, known>>
  BY DEF SkipEmptyPsalm, tables
<1>2. DocsInv' /\ DocsGrow
  BY <1>1 DEF TextsInv, DocsInv, DocsGrow, SaysMore, RowFits, NamedFor
<1>3. PICK p, n : p = job.parser /\ n = job.n
  OBVIOUS
<1>4. p \in ParserNames /\ n \in DOMAIN Pages[p] /\ Pages[p][n].text = ""
  BY <1>1, <1>3, UnitInHand DEF TextsInv, UnitPcs, Unit
<1>5. UnitDone(p, n)'
  BY <1>4 DEF UnitDone
<1> QED BY <1>1, <1>2, <1>3, <1>4, <1>5, NextUnitKeeps DEF UnitPcs

LEMMA UnitFailsKeeps == TextsInv /\ UnitFails => TextsInv'
<1> SUFFICES ASSUME TextsInv, UnitFails PROVE TextsInv'
  OBVIOUS
<1>1. PICK pc \in UnitPcs : InUnit(pc)
  BY DEF UnitFails, UnitPcs
<1>2. NextUnit(FALSE) /\ UNCHANGED <<docs, bios, clean, known>>
  BY DEF UnitFails, tables
<1>3. DocsInv' /\ DocsGrow
  BY <1>2 DEF TextsInv, DocsInv, DocsGrow, SaysMore, RowFits, NamedFor
<1>4. PICK p, n : p = job.parser /\ n = job.n
  OBVIOUS
<1>5. p \in ParserNames /\ n \in DOMAIN Pages[p]
  BY <1>1, <1>4, UnitInHand DEF TextsInv
<1> QED BY <1>1, <1>2, <1>3, <1>4, <1>5, NextUnitKeeps

LEMMA EndParserKeeps == TextsInv /\ EndParser => TextsInv'
<1> SUFFICES ASSUME TextsInv, EndParser PROVE TextsInv'
  OBVIOUS
<1>1. /\ job \in UnitJobs /\ job.pc = "insert" /\ job.n > Len(Pages[job.parser])
      /\ clean' = IF job.clean THEN clean \cup {job.parser} ELSE clean
      /\ job' = [pc |-> "parse", left |-> job.left] /\ UNCHANGED <<docs, bios, known>>
  BY JobIs DEF TextsInv, EndParser, Bcp, tables, UnitPcs
<1>2. job.parser \in ParserNames /\ job.left \in Seq(ParserNames) /\ job.n \in Nat
  BY <1>1 DEF UnitJobs
<1>3. job' \in ParseJobs /\ job'.pc = "parse"
  BY <1>1, <1>2 DEF ParseJobs
<1>4. ImportTypeOK'
  BY <1>1, <1>2, <1>3 DEF TextsInv, ImportTypeOK
<1>5. \A m \in DOMAIN Pages[job.parser] : m < job.n
  BY <1>1, <1>2, TextsAssumption, ParsersAreNamed
<1>6. job.clean => \A m \in DOMAIN Pages[job.parser] : UnitDone(job.parser, m)
  BY <1>1, <1>2, <1>5 DEF TextsInv, UnitsInv, UnitPcs
<1>7. \A q \in clean' \ {"lff"} : \A m \in DOMAIN Pages[q] : UnitDone(q, m)
  BY <1>1, <1>6 DEF TextsInv, UnitsInv
<1>8. \A q \in clean' \ {"lff"} : \A m \in DOMAIN Pages[q] : UnitDone(q, m)'
  BY <1>1, <1>7 DEF UnitDone
<1>9. UnitsInv'
  BY <1>3, <1>8 DEF UnitsInv, UnitPcs
<1>10. "lff" \in clean' => "lff" \in clean
  BY <1>1, <1>2 DEF ParserNames
<1> QED BY <1>1, <1>3, <1>4, <1>9, <1>10, QuietStep

-----------------------------------------------------------------------------
LEMMA NewRowFits ==
    ASSUME NEW key, NEW hash, NamedFor(key, hash)
    PROVE  RowFits(key, Row(hash))
BY DEF RowFits, Row

\* The job has written the row of the unit in its hands and goes on to the next step.
LEMMA UnitWrites ==
    ASSUME TextsInv, NEW pc \in UnitPcs, InUnit(pc), NEW p, NEW n, p = job.parser, n = job.n,
           NEW next \in {"meta", "embed"}, job' = [job EXCEPT !.pc = next],
           DocsInv', DocsGrow, UNCHANGED <<bios, clean, known>>,
           /\ Key(p, n) \in DOMAIN docs'
           /\ docs'[Key(p, n)].chunk = None
           /\ docs'[Key(p, n)].hash \in {None, Pages[p][n].text}
           /\ docs'[Key(p, n)].meta = IF next = "meta" THEN NoMeta ELSE UnitRow(p, n).meta
    PROVE  TextsInv'
<1>1. job \in UnitJobs
  BY UnitInHand DEF TextsInv
<1>2. /\ job' \in UnitJobs /\ job'.pc = next /\ job'.parser = job.parser /\ job'.n = job.n
      /\ job'.clean = job.clean
  BY <1>1 DEF UnitJobs, UnitPcs
<1>3. ImportTypeOK'
  BY <1>2 DEF TextsInv, ImportTypeOK
<1>4. \A q \in ParserNames : \A m \in DOMAIN Pages[q] : UnitDone(q, m) => UnitDone(q, m)'
  BY <1>3, DoneStays, TextsAssumption DEF TextsInv, ImportTypeOK
<1>5. \A q \in clean' \ {"lff"} : \A m \in DOMAIN Pages[q] : UnitDone(q, m)'
  BY <1>4 DEF TextsInv, UnitsInv, ImportTypeOK
<1>6. \A q \in ParserNames : \A m \in DOMAIN Pages[q] :
        job'.parser = q /\ job'.clean /\ m < job'.n => UnitDone(q, m)'
  BY <1>1, <1>2, <1>4 DEF TextsInv, UnitsInv, UnitJobs
<1>7. UnitsInv'
  BY <1>2, <1>5, <1>6 DEF UnitsInv
<1> QED BY <1>2, <1>3, <1>7, UnitsStep

LEMMA UpsertUnitKeeps == TextsInv /\ UpsertUnit => TextsInv'
<1> SUFFICES ASSUME TextsInv, UpsertUnit PROVE TextsInv'
  OBVIOUS
<1>1. PICK p, n : p = job.parser /\ n = job.n
  OBVIOUS
<1>2. InUnit("insert") /\ UNCHANGED <<bios, clean, known>>
  BY DEF UpsertUnit
<1>3. p \in ParserNames /\ n \in DOMAIN Pages[p] /\ "insert" \in UnitPcs
  BY <1>1, <1>2, UnitInHand DEF TextsInv, UnitPcs
<1>4. CASE Key(p, n) \in DOMAIN docs
  <2>1. NextUnit(FALSE) /\ UNCHANGED docs
    BY <1>1, <1>4 DEF UpsertUnit
  <2>2. DocsInv' /\ DocsGrow
    BY <2>1 DEF TextsInv, DocsInv, DocsGrow, SaysMore, RowFits, NamedFor
  <2> QED BY <1>1, <1>2, <1>3, <2>1, <2>2, NextUnitKeeps
<1>5. CASE Key(p, n) \notin DOMAIN docs
  <2>1. PICK hash \in {None, Pages[p][n].text} :
          docs' = Put(Key(p, n), Row(hash)) /\ job' = [job EXCEPT !.pc = "meta"]
    BY <1>1, <1>5 DEF UpsertUnit, Unit
  <2>2. RowFits(Key(p, n), Row(hash))
    BY <1>3, UnitNamesAreApart, NewRowFits
  <2>3. DocsInv' /\ DocsGrow /\ Key(p, n) \in DOMAIN docs' /\ docs'[Key(p, n)] = Row(hash)
    <3> DEFINE key == Key(p, n)
               row == Row(hash)
    <3>1. DocsInv /\ RowFits(key, row) /\ key \notin DOMAIN docs /\ docs' = Put(key, row)
      BY <1>5, <2>1, <2>2 DEF TextsInv
    <3> HIDE DEF key, row
    <3>2. DocsInv' /\ DocsGrow /\ key \in DOMAIN docs' /\ docs'[key] = row
      BY <3>1, RowIsPut
    <3> QED BY <3>2 DEF key, row
  <2>4. /\ docs'[Key(p, n)].chunk = None /\ docs'[Key(p, n)].hash \in {None, Pages[p][n].text}
        /\ docs'[Key(p, n)].meta = NoMeta
    BY <2>3 DEF Row
  <2> QED BY <1>1, <1>2, <1>3, <2>1, <2>3, <2>4, UnitWrites
<1> QED BY <1>4, <1>5

LEMMA DescribeUnitKeeps == TextsInv /\ DescribeUnit => TextsInv'
<1> SUFFICES ASSUME TextsInv, DescribeUnit PROVE TextsInv'
  OBVIOUS
<1>1. PICK p, n : p = job.parser /\ n = job.n
  OBVIOUS
<1>2. InUnit("meta") /\ job' = [job EXCEPT !.pc = "embed"] /\ UNCHANGED <<bios, clean, known>>
  BY DEF DescribeUnit
<1>3. p \in ParserNames /\ n \in DOMAIN Pages[p] /\ "meta" \in UnitPcs /\ job.pc = "meta"
  BY <1>1, <1>2, UnitInHand DEF TextsInv, UnitPcs
<1> DEFINE key == Key(p, n)
           old == docs[key]
           meta == UnitRow(p, n).meta
           row == [old EXCEPT !.meta = meta]
<1>4. /\ key \in DOMAIN docs /\ old.chunk = None /\ old.hash \in {None, Pages[p][n].text}
      /\ old.meta = NoMeta
  BY <1>1, <1>3 DEF TextsInv, UnitsInv
<1>5. docs' = [docs EXCEPT ![key] = row]
  BY <1>1, <1>4 DEF DescribeUnit, UpsertMeta
<1>6. RowFits(key, old)
  BY <1>4 DEF TextsInv, DocsInv
<1>7. /\ row.hash = old.hash /\ row.chunk = old.chunk /\ row.meta = meta
      /\ row \in [hash : {row.hash}, chunk : {row.chunk}, vector : {row.vector}, meta : {row.meta}]
  BY <1>6 DEF RowFits
<1> HIDE DEF row, key
<1>8. RowFits(key, row) /\ SaysMore(docs[key], row)
  BY <1>4, <1>6, <1>7 DEF RowFits, SaysMore
<1>9. DocsInv' /\ DocsGrow /\ key \in DOMAIN docs' /\ docs'[key] = row
  BY <1>4, <1>5, <1>8, RowIsPut DEF TextsInv
<1> QED BY <1>1, <1>2, <1>3, <1>4, <1>7, <1>9, UnitWrites DEF key

LEMMA EmbedUnitKeeps == TextsInv /\ EmbedUnit => TextsInv'
<1> SUFFICES ASSUME TextsInv, EmbedUnit PROVE TextsInv'
  OBVIOUS
<1>1. PICK p, n : p = job.parser /\ n = job.n
  OBVIOUS
<1>2. InUnit("embed") /\ NextUnit(TRUE) /\ UNCHANGED <<bios, clean, known>>
  BY DEF EmbedUnit
<1>3. p \in ParserNames /\ n \in DOMAIN Pages[p] /\ "embed" \in UnitPcs /\ job.pc = "embed"
  BY <1>1, <1>2, UnitInHand DEF TextsInv, UnitPcs
<1> DEFINE key == Key(p, n)
           old == docs[key]
           text == Pages[p][n].text
           row == [old EXCEPT !.chunk = text, !.vector = <<UnitRow(p, n).header, text>>]
<1>4. /\ key \in DOMAIN docs /\ old.chunk = None /\ old.hash \in {None, text}
      /\ old.meta = UnitRow(p, n).meta
  BY <1>1, <1>3 DEF TextsInv, UnitsInv
<1>5. docs' = [docs EXCEPT ![key] = row]
  BY <1>1, <1>4 DEF EmbedUnit, Embedded, Unit
<1>6. RowFits(key, old)
  BY <1>4 DEF TextsInv, DocsInv
<1>7. /\ row.hash = old.hash /\ row.chunk = text /\ row.meta = old.meta
      /\ row.vector = <<UnitRow(p, n).header, text>>
      /\ row \in [hash : {row.hash}, chunk : {row.chunk}, vector : {row.vector}, meta : {row.meta}]
  BY <1>6 DEF RowFits
<1> HIDE DEF row, key
<1>8. RowFits(key, row) /\ SaysMore(docs[key], row)
  BY <1>4, <1>6, <1>7 DEF RowFits, SaysMore
<1>9. DocsInv' /\ DocsGrow /\ key \in DOMAIN docs' /\ docs'[key] = row
  BY <1>4, <1>5, <1>8, RowIsPut DEF TextsInv
<1>10. UnitDone(p, n)'
  BY <1>4, <1>7, <1>9 DEF UnitDone, key
<1> QED BY <1>1, <1>2, <1>3, <1>9, <1>10, NextUnitKeeps

-----------------------------------------------------------------------------
\* A step of the saints' job, which leaves the prayer book's units alone.
LEMMA SaintsStep ==
    ASSUME TextsInv, ImportTypeOK', DocsInv', DocsGrow, \A n \in DOMAIN Saints : bios'[n] >= bios[n],
           clean' \subseteq clean \cup {"lff"}, job'.pc \notin UnitPcs, SaintsInv'
    PROVE  TextsInv'
<1>1. \A q \in ParserNames : \A m \in DOMAIN Pages[q] : UnitDone(q, m) => UnitDone(q, m)'
  BY DoneStays DEF TextsInv, ImportTypeOK
<1>2. \A q \in clean' \ {"lff"} : \A m \in DOMAIN Pages[q] : UnitDone(q, m)'
  BY <1>1 DEF TextsInv, UnitsInv, ImportTypeOK
<1>3. UnitsInv'
  BY <1>2 DEF UnitsInv
<1> QED BY <1>3 DEF TextsInv

LEMMA RowTaken ==
    ASSUME DocsInv, NEW key, NEW text, text # None, NamedFor(key, text),
           key \in DOMAIN docs => docs[key].hash = text
    PROVE  LET place == Target(key, text) row == RowOf(key, text)
           IN  /\ RowFits(place, row) /\ row.hash = text /\ row.chunk \in {None, text}
               /\ place \in DOMAIN docs => SaysMore(docs[place], row)
<1> DEFINE place == Target(key, text)
           row == RowOf(key, text)
<1>1. CASE Insertable(key, text)
  <2>1. place = key /\ row = Row(text) /\ key \notin DOMAIN docs
    BY <1>1 DEF Target, RowOf, Insertable
  <2>2. row.hash = text /\ row.chunk = None
    BY <2>1 DEF Row
  <2> QED BY <2>1, <2>2, NewRowFits
<1>2. CASE ~Insertable(key, text)
  <2>1. place \in DOMAIN docs /\ docs[place].hash = text
    BY <1>2 DEF Target, Insertable, RowsWith
  <2>2. row = docs[place]
    BY <1>2 DEF RowOf
  <2>3. RowFits(place, row)
    BY <2>1, <2>2 DEF DocsInv
  <2> QED BY <2>1, <2>2, <2>3 DEF RowFits, SaysMore
<1> QED BY <1>1, <1>2

LEMMA RowIsEmbedded ==
    ASSUME DocsInv, NEW key, NEW row, NEW header, NEW text, text # None,
           RowFits(key, row), row.hash = text, row.chunk \in {None, text},
           key \in DOMAIN docs => SaysMore(docs[key], row),
           docs' = Put(key, Embedded(row, header, text))
    PROVE  DocsInv' /\ DocsGrow /\ Findable(text)'
<1> DEFINE new == Embedded(row, header, text)
<1>1. /\ new.hash = text /\ new.chunk = text /\ new.meta = row.meta
      /\ row.chunk # None => new.vector = row.vector
      /\ new \in [hash : {new.hash}, chunk : {new.chunk}, vector : {new.vector}, meta : {new.meta}]
  BY DEF Embedded, RowFits
<1>2. docs' = Put(key, new)
  OBVIOUS
<1> HIDE DEF new
<1>3. RowFits(key, new)
  BY <1>1 DEF RowFits
<1>4. key \in DOMAIN docs => SaysMore(docs[key], new)
  BY <1>1 DEF SaysMore
<1>5. DocsInv' /\ DocsGrow /\ DOMAIN docs' = DOMAIN docs \cup {key} /\ docs'[key] = new
  BY <1>2, <1>3, <1>4, RowIsPut
<1> QED BY <1>1, <1>5 DEF Findable

LEMMA SaintInHand ==
    ASSUME ImportTypeOK, InSaint
    PROVE  job \in SaintJobs({job.map}) /\ job.pc = "saint" /\ job.n \in DOMAIN Saints
<1>1. job \in SaintJobs({job.map}) /\ job.pc = "saint" /\ job.n <= Len(Saints)
  BY JobIs DEF InSaint
<1>2. DOMAIN Saints = 1 .. Len(Saints) /\ Len(Saints) \in Nat
  BY TextsAssumption
<1> QED BY <1>1, <1>2 DEF SaintJobs

LEMMA NextItemIs ==
    ASSUME job \in SaintJobs({job.map}), NextItem
    PROVE  /\ job' \in SaintJobs({job'.map}) /\ job'.pc = "saint" /\ job'.n = job.n
           /\ job'.item = job.item + 1 /\ job'.clean = job.clean /\ job'.map = job.map
BY DEF NextItem, SaintJobs

LEMMA NextSaintIs ==
    ASSUME job \in SaintJobs({job.map}), NEW isClean \in BOOLEAN, NextSaint(isClean)
    PROVE  /\ job' \in SaintJobs({job'.map}) /\ job'.pc = "saint" /\ job'.n = job.n + 1
           /\ job'.item = 0 /\ (job'.clean => job.clean /\ isClean) /\ job'.map = job.map
<1>1. job' = [pc |-> "saint", n |-> job.n + 1, item |-> 0, clean |-> job.clean /\ isClean,
              map |-> job.map]
  BY DEF NextSaint, SaintJobs
<1>2. (job.clean /\ isClean) \in BOOLEAN
  OBVIOUS
<1>3. job.n + 1 \in Nat \ {0}
  BY DEF SaintJobs
<1> QED BY <1>1, <1>2, <1>3 DEF SaintJobs

LEMMA CollectsAreNumbered ==
    ASSUME NEW n \in DOMAIN Saints
    PROVE  /\ Len(Saints[n].collects) \in Nat
           /\ DOMAIN Saints[n].collects = 1 .. Len(Saints[n].collects)
           /\ DOMAIN Saints[n].collects \subseteq Nat
           /\ \A i \in DOMAIN Saints[n].collects : Saints[n].collects[i] \in ToSet(Saints[n].collects)
           /\ \A c \in ToSet(Saints[n].collects) :
                 \E i \in DOMAIN Saints[n].collects : c = Saints[n].collects[i]
<1> DEFINE collects == Saints[n].collects
<1>1. collects \in Seq(ToSet(collects))
  BY TextsAssumption
<1> HIDE DEF collects
<1>2. Len(collects) \in Nat /\ DOMAIN collects = 1 .. Len(collects)
  BY <1>1
<1>3. /\ \A i \in DOMAIN collects : collects[i] \in ToSet(collects)
      /\ \A c \in ToSet(collects) : \E i \in DOMAIN collects : c = collects[i]
  BY DEF ToSet
<1> QED BY <1>2, <1>3 DEF collects

\* The job goes on to the next item of the saint; the one behind it is done.
LEMMA NextItemKeeps ==
    ASSUME TextsInv, InSaint, NextItem, DocsInv', DocsGrow, UNCHANGED <<clean, known>>,
           bios' \in [1 .. Len(Saints) -> Nat], \A m \in DOMAIN Saints : bios'[m] >= bios[m],
           NEW n, n = job.n,
           job.item = 0 /\ Saints[n].slug \in job.map => BioDone(n)',
           \A i \in DOMAIN Saints[n].collects : i = job.item => Findable(Saints[n].collects[i].text)'
    PROVE  TextsInv'
<1>1. job \in SaintJobs({job.map}) /\ job.pc = "saint" /\ n \in DOMAIN Saints
  BY SaintInHand DEF TextsInv
<1>2. /\ job' \in SaintJobs({job'.map}) /\ job'.pc = "saint" /\ job'.n = job.n
      /\ job'.item = job.item + 1 /\ job'.clean = job.clean /\ job'.map = job.map
  BY <1>1, NextItemIs
<1>3. ImportTypeOK'
  BY <1>2 DEF TextsInv, ImportTypeOK
<1>4. /\ \A text : text # None /\ Findable(text) => Findable(text)'
      /\ \A m \in DOMAIN Saints : BioDone(m) => BioDone(m)'
  BY DoneStays DEF TextsInv, ImportTypeOK
<1>5. \A m \in DOMAIN Saints : \A c \in ToSet(Saints[m].collects) : c.text # None
  BY TextsAssumption
<1>6. \A m \in DOMAIN Saints : /\ DOMAIN Saints[m].collects \subseteq Nat
                              /\ \A i \in DOMAIN Saints[m].collects :
                                    Saints[m].collects[i] \in ToSet(Saints[m].collects)
  BY CollectsAreNumbered
<1>7. job.item \in Nat /\ job.n \in Nat
  BY <1>1 DEF SaintJobs
<1>8. ASSUME NEW m \in DOMAIN Saints, job.clean
      PROVE  /\ m < job.n => \A c \in ToSet(Saints[m].collects) : Findable(c.text)'
             /\ (m < job.n \/ m = job.n) /\ Saints[m].slug \in job.map => BioDone(m)'
             /\ m = job.n => \A i \in DOMAIN Saints[m].collects :
                   i < job.item + 1 => Findable(Saints[m].collects[i].text)'
  <2>1. m < job.n => \A c \in ToSet(Saints[m].collects) : Findable(c.text)'
    BY <1>1, <1>4, <1>5, <1>8 DEF TextsInv, SaintsInv
  <2>2. (m < job.n \/ m = job.n) /\ Saints[m].slug \in job.map => BioDone(m)'
    BY <1>1, <1>4, <1>7, <1>8 DEF TextsInv, SaintsInv
  <2>3. ASSUME m = job.n, NEW i \in DOMAIN Saints[m].collects, i < job.item + 1
        PROVE  Findable(Saints[m].collects[i].text)'
    <3>1. CASE i = job.item
      BY <2>3, <3>1
    <3>2. CASE i < job.item
      BY <1>1, <1>4, <1>5, <1>6, <1>8, <2>3, <3>2 DEF TextsInv, SaintsInv
    <3> QED BY <1>6, <1>7, <2>3, <3>1, <3>2
  <2> QED BY <2>1, <2>2, <2>3
<1>9. \A m \in DOMAIN Saints :
        /\ "lff" \in clean => \A c \in ToSet(Saints[m].collects) : Findable(c.text)'
        /\ Saints[m].slug \in known => BioDone(m)'
  BY <1>4, <1>5 DEF TextsInv, SaintsInv
<1>10. SaintsInv'
  BY <1>2, <1>8, <1>9 DEF SaintsInv
<1> QED BY <1>2, <1>3, <1>10, SaintsStep DEF UnitPcs

LEMMA LffStarts == TextsInv /\ StartLff => TextsInv'
<1> SUFFICES ASSUME TextsInv, StartLff PROVE TextsInv'
  OBVIOUS
<1>1. /\ job' \in SaintJobs({job'.map}) /\ job'.pc = "saint" /\ job'.n = 1 /\ job'.item = 0
      /\ UNCHANGED <<docs, bios, clean, known>>
  BY DEF StartLff, SaintJobs, tables
<1>2. DocsInv' /\ DocsGrow
  BY <1>1 DEF TextsInv, DocsInv, DocsGrow, SaysMore, RowFits, NamedFor
<1>3. ImportTypeOK'
  BY <1>1 DEF TextsInv, ImportTypeOK
<1>4. DOMAIN Saints = 1 .. Len(Saints) /\ Len(Saints) \in Nat
  BY TextsAssumption
<1>5. \A n \in DOMAIN Saints : ~(n < 1) /\ \A i \in DOMAIN Saints[n].collects : ~(i < 0)
  BY <1>4, CollectsAreNumbered
<1>6. \A n \in DOMAIN Saints :
        /\ "lff" \in clean => \A c \in ToSet(Saints[n].collects) : Findable(c.text)'
        /\ Saints[n].slug \in known => BioDone(n)'
  BY <1>1 DEF TextsInv, SaintsInv, Findable, BioDone
<1>7. SaintsInv'
  BY <1>1, <1>5, <1>6 DEF SaintsInv
<1>8. \A n \in DOMAIN Saints : bios'[n] >= bios[n]
  BY <1>1, <1>4 DEF TextsInv, ImportTypeOK
<1> QED BY <1>1, <1>2, <1>3, <1>7, <1>8, SaintsStep DEF UnitPcs

LEMMA SkipBioKeeps == TextsInv /\ SkipBio => TextsInv'
<1> SUFFICES ASSUME TextsInv, SkipBio PROVE TextsInv'
  OBVIOUS
<1>1. PICK n : n = job.n
  OBVIOUS
<1>2. InSaint /\ NextItem /\ job.item = 0 /\ UNCHANGED <<docs, bios, clean, known>>
  BY DEF SkipBio, tables
<1>3. DocsInv' /\ DocsGrow
  BY <1>2 DEF TextsInv, DocsInv, DocsGrow, SaysMore, RowFits, NamedFor
<1>4. DOMAIN Saints = 1 .. Len(Saints)
  BY TextsAssumption
<1>5. bios' \in [1 .. Len(Saints) -> Nat] /\ \A m \in DOMAIN Saints : bios'[m] >= bios[m]
  BY <1>2, <1>4 DEF TextsInv, ImportTypeOK
<1>6. Saints[n].slug \in job.map => BioDone(n)'
  <2>1. Saints[n].bio = "" \/ Saints[n].slug \notin job.map
    BY <1>1 DEF SkipBio, Saint, HasFeast
  <2> QED BY <2>1 DEF BioDone
<1>7. n \in DOMAIN Saints
  BY <1>1, <1>2, SaintInHand DEF TextsInv
<1>8. \A i \in DOMAIN Saints[n].collects : i # job.item
  BY <1>2, <1>7, CollectsAreNumbered
<1> QED BY <1>1, <1>2, <1>3, <1>5, <1>6, <1>8, NextItemKeeps

LEMMA IngestBioKeeps == TextsInv /\ IngestBio => TextsInv'
<1> SUFFICES ASSUME TextsInv, IngestBio PROVE TextsInv'
  OBVIOUS
<1>1. PICK n : n = job.n
  OBVIOUS
<1> DEFINE text == Saints[n].bio
           key == BioKey(Saints[n])
           place == Target(key, text)
           row == RowOf(key, text)
<1>2. /\ InSaint /\ NextItem /\ job.item = 0 /\ UNCHANGED <<clean, known>>
      /\ docs' = Put(place, Embedded(row, "prose", text))
      /\ bios' = [bios EXCEPT ![n] = @ + 1]
  BY <1>1 DEF IngestBio, Saint
<1>3. n \in DOMAIN Saints /\ text # None
  BY <1>1, <1>2, SaintInHand, TextsAssumption DEF TextsInv
<1>4. NamedFor(key, text)
  <2>1. \A m \in DOMAIN Saints : key = BioKey(Saints[m]) => m = n
    BY <1>3, NamesAssumption DEF BioKey
  <2>2. \A m, rite : key # CollectKey(Saints[m], rite)
    BY DEF BioKey, CollectKey
  <2> QED BY <2>1, <2>2 DEF NamedFor
<1>5. key \in DOMAIN docs => docs[key].hash = text
  BY <1>3 DEF TextsInv, DocsInv, RowFits, NamedFor
<1> HIDE DEF key, text
<1>6. /\ RowFits(place, row) /\ row.hash = text /\ row.chunk \in {None, text}
      /\ place \in DOMAIN docs => SaysMore(docs[place], row)
  BY <1>3, <1>4, <1>5, RowTaken DEF TextsInv
<1> HIDE DEF place, row
<1>7. DocsInv' /\ DocsGrow /\ Findable(text)'
  BY <1>2, <1>3, <1>6, RowIsEmbedded DEF TextsInv
<1>8. DOMAIN Saints = 1 .. Len(Saints)
  BY TextsAssumption
<1>9. /\ bios' \in [1 .. Len(Saints) -> Nat] /\ bios'[n] > 0
      /\ \A m \in DOMAIN Saints : bios'[m] >= bios[m]
  BY <1>2, <1>3, <1>8 DEF TextsInv, ImportTypeOK
<1>10. BioDone(n)'
  BY <1>7, <1>9 DEF BioDone, text
<1>11. \A i \in DOMAIN Saints[n].collects : i # job.item
  BY <1>2, <1>3, CollectsAreNumbered
<1> QED BY <1>1, <1>2, <1>7, <1>9, <1>10, <1>11, NextItemKeeps

LEMMA IngestCollectKeeps == TextsInv /\ IngestCollect => TextsInv'
<1> SUFFICES ASSUME TextsInv, IngestCollect PROVE TextsInv'
  OBVIOUS
<1>1. PICK n, i : n = job.n /\ i = job.item
  OBVIOUS
<1>2. /\ InSaint /\ NextItem /\ i \in 1 .. Len(Saints[n].collects) /\ UNCHANGED <<bios, clean, known>>
  BY <1>1 DEF IngestCollect, InCollect, Saint
<1>3. n \in DOMAIN Saints
  BY <1>1, <1>2, SaintInHand DEF TextsInv
<1> DEFINE collect == Saints[n].collects[i]
           text == collect.text
           key == CollectKey(Saints[n], collect.rite)
           place == Target(key, text)
           old == RowOf(key, text)
<1>4. collect \in ToSet(Saints[n].collects) /\ i \in DOMAIN Saints[n].collects
  BY <1>2, <1>3, CollectsAreNumbered
<1>5. text # None
  BY <1>3, <1>4, TextsAssumption
<1>6. PICK meta :
        docs' = Put(place, Embedded([old EXCEPT !.meta = IF @ = NoMeta THEN meta ELSE @],
                                    SaintHeader(Saints[n], collect.rite), text))
  BY <1>1 DEF IngestCollect, Saint, Collect
<1>7. NamedFor(key, text)
  <2>1. \A m : key # BioKey(Saints[m])
    BY DEF BioKey, CollectKey
  <2>2. ASSUME NEW m \in DOMAIN Saints, NEW c \in ToSet(Saints[m].collects),
               key = CollectKey(Saints[m], c.rite)
        PROVE  text = c.text
    <3>1. Saints[m].slug = Saints[n].slug /\ c.rite = collect.rite
      BY <2>2 DEF CollectKey
    <3>2. m = n
      BY <1>3, <3>1, NamesAssumption
    <3>3. c = collect
      BY <1>3, <1>4, <3>1, <3>2, NamesAssumption
    <3> QED BY <3>3
  <2> QED BY <2>1, <2>2 DEF NamedFor
<1>8. key \in DOMAIN docs => docs[key].hash = text
  BY <1>3, <1>4 DEF TextsInv, DocsInv, RowFits, NamedFor
<1> HIDE DEF key, text
<1>9. /\ RowFits(place, old) /\ old.hash = text /\ old.chunk \in {None, text}
      /\ place \in DOMAIN docs => SaysMore(docs[place], old)
  BY <1>5, <1>7, <1>8, RowTaken DEF TextsInv
<1> HIDE DEF place, old
<1> DEFINE row == [old EXCEPT !.meta = IF old.meta = NoMeta THEN meta ELSE old.meta]
<1>10. /\ row.hash = old.hash /\ row.chunk = old.chunk /\ row.vector = old.vector
       /\ (old.meta # NoMeta => row.meta = old.meta)
       /\ row \in [hash : {row.hash}, chunk : {row.chunk}, vector : {row.vector}, meta : {row.meta}]
  BY <1>9 DEF RowFits
<1>11. docs' = Put(place, Embedded(row, SaintHeader(Saints[n], collect.rite), text))
  BY <1>6
<1> HIDE DEF row
<1>12. RowFits(place, row) /\ (place \in DOMAIN docs => SaysMore(docs[place], row))
  BY <1>9, <1>10 DEF RowFits, SaysMore
<1>13. DocsInv' /\ DocsGrow /\ Findable(text)'
  BY <1>5, <1>9, <1>10, <1>11, <1>12, RowIsEmbedded DEF TextsInv
<1>14. DOMAIN Saints = 1 .. Len(Saints)
  BY TextsAssumption
<1>15. bios' \in [1 .. Len(Saints) -> Nat] /\ \A m \in DOMAIN Saints : bios'[m] >= bios[m]
  BY <1>2, <1>14 DEF TextsInv, ImportTypeOK
<1>16. \A j \in DOMAIN Saints[n].collects : j = job.item => Findable(Saints[n].collects[j].text)'
  BY <1>1, <1>13 DEF text
<1>17. job.item # 0
  BY <1>1, <1>2
<1> QED BY <1>1, <1>2, <1>13, <1>15, <1>16, <1>17, NextItemKeeps

\* The job goes on to the next saint; the one behind it is done.
LEMMA NextSaintKeeps ==
    ASSUME TextsInv, InSaint, NEW isClean \in BOOLEAN, NextSaint(isClean),
           UNCHANGED <<docs, bios, clean, known>>,
           isClean => job.item > Len(Saints[job.n].collects)
    PROVE  TextsInv'
<1>1. job \in SaintJobs({job.map}) /\ job.pc = "saint" /\ job.n \in DOMAIN Saints
  BY SaintInHand DEF TextsInv
<1>2. /\ job' \in SaintJobs({job'.map}) /\ job'.pc = "saint" /\ job'.n = job.n + 1
      /\ job'.item = 0 /\ (job'.clean => job.clean /\ isClean) /\ job'.map = job.map
  BY <1>1, NextSaintIs
<1>3. DocsInv' /\ DocsGrow
  BY DEF TextsInv, DocsInv, DocsGrow, SaysMore, RowFits, NamedFor
<1>4. ImportTypeOK'
  BY <1>2 DEF TextsInv, ImportTypeOK
<1>5. DOMAIN Saints = 1 .. Len(Saints) /\ Len(Saints) \in Nat
  BY TextsAssumption
<1>6. job.n \in Nat /\ job.item \in Nat
  BY <1>1 DEF SaintJobs
<1>7. ASSUME NEW n \in DOMAIN Saints, job.clean, isClean, n < job.n + 1
      PROVE  /\ \A c \in ToSet(Saints[n].collects) : Findable(c.text)
             /\ Saints[n].slug \in job.map => BioDone(n)
  <2>1. CASE n = job.n
    <3>1. \A i \in DOMAIN Saints[n].collects : Findable(Saints[n].collects[i].text)
      <4>1. \A i \in DOMAIN Saints[n].collects : i < job.item
        BY <1>6, <1>7, <2>1, CollectsAreNumbered
      <4> QED BY <1>1, <1>7, <2>1, <4>1 DEF TextsInv, SaintsInv
    <3>2. job.item > 0
      BY <1>6, <1>7, <2>1, CollectsAreNumbered
    <3> QED BY <1>1, <1>7, <2>1, <3>1, <3>2, CollectsAreNumbered DEF TextsInv, SaintsInv
  <2>2. CASE n < job.n
    BY <1>1, <1>7, <2>2 DEF TextsInv, SaintsInv
  <2> QED BY <1>5, <1>6, <1>7, <2>1, <2>2
<1>8. \A n \in DOMAIN Saints : \A i \in DOMAIN Saints[n].collects : ~(i < 0)
  BY CollectsAreNumbered
<1>9. /\ \A text : Findable(text)' <=> Findable(text)
      /\ \A n : BioDone(n)' <=> BioDone(n)
  BY DEF Findable, BioDone
<1>10. ASSUME NEW n \in DOMAIN Saints, job'.clean
       PROVE  /\ n < job'.n => \A c \in ToSet(Saints[n].collects) : Findable(c.text)'
              /\ (n < job'.n \/ (n = job'.n /\ job'.item > 0)) /\ Saints[n].slug \in job'.map =>
                    BioDone(n)'
  BY <1>2, <1>7, <1>9, <1>10
<1>11. \A n \in DOMAIN Saints :
        /\ "lff" \in clean => \A c \in ToSet(Saints[n].collects) : Findable(c.text)'
        /\ Saints[n].slug \in known => BioDone(n)'
  BY <1>9 DEF TextsInv, SaintsInv
<1>12. SaintsInv'
  BY <1>2, <1>8, <1>10, <1>11 DEF SaintsInv
<1>13. \A n \in DOMAIN Saints : bios'[n] >= bios[n]
  BY <1>5 DEF TextsInv, ImportTypeOK
<1>14. job'.pc \notin UnitPcs /\ clean' \subseteq clean \cup {"lff"}
  BY <1>2 DEF UnitPcs
<1> QED BY <1>3, <1>4, <1>12, <1>13, <1>14, SaintsStep

LEMMA EndLffKeeps == TextsInv /\ EndLff => TextsInv'
<1> SUFFICES ASSUME TextsInv, EndLff PROVE TextsInv'
  OBVIOUS
<1>1. /\ job.pc = "saint" /\ job.n > Len(Saints) /\ job' = NoJob /\ UNCHANGED <<docs, bios>>
      /\ clean' = IF job.clean THEN clean \cup {"lff"} ELSE clean
      /\ known' = IF job.clean THEN known \cup job.map ELSE known
  BY DEF EndLff, tables
<1>2. DocsInv' /\ DocsGrow
  BY <1>1 DEF TextsInv, DocsInv, DocsGrow, SaysMore, RowFits, NamedFor
<1>3. ImportTypeOK' /\ job'.pc = "idle"
  BY <1>1 DEF TextsInv, ImportTypeOK, NoJob
<1>4. DOMAIN Saints = 1 .. Len(Saints) /\ Len(Saints) \in Nat
  BY TextsAssumption
<1>5. job.n \in Nat
  BY <1>1, JobIs DEF TextsInv, SaintJobs
<1>6. \A n \in DOMAIN Saints : job.clean =>
        /\ \A c \in ToSet(Saints[n].collects) : Findable(c.text)
        /\ Saints[n].slug \in job.map => BioDone(n)
  BY <1>1, <1>4, <1>5 DEF TextsInv, SaintsInv
<1>7. /\ \A text : Findable(text)' <=> Findable(text)
      /\ \A n : BioDone(n)' <=> BioDone(n)
  BY <1>1 DEF Findable, BioDone
<1>8. SaintsInv'
  BY <1>1, <1>3, <1>6, <1>7 DEF TextsInv, SaintsInv
<1>9. \A n \in DOMAIN Saints : bios'[n] >= bios[n]
  BY <1>1, <1>4 DEF TextsInv, ImportTypeOK
<1> QED BY <1>1, <1>2, <1>3, <1>8, <1>9, SaintsStep DEF UnitPcs

LEMMA TextsInitially == LitInit => TextsInv
<1> SUFFICES ASSUME LitInit PROVE TextsInv
  OBVIOUS
<1>1. /\ DOMAIN docs = {} /\ job = NoJob /\ clean = {} /\ known = {}
      /\ bios = [n \in 1 .. Len(Saints) |-> 0]
  BY DEF LitInit
<1>2. job.pc = "idle"
  BY <1>1 DEF NoJob
<1> QED BY <1>1, <1>2 DEF TextsInv, ImportTypeOK, DocsInv, UnitsInv, SaintsInv, UnitPcs

LEMMA TextsSame ==
    ASSUME TextsInv, UNCHANGED <<docs, bios, job, clean, known>>
    PROVE  TextsInv'
<1>1. ImportTypeOK' /\ DocsInv'
  BY DEF TextsInv, ImportTypeOK, DocsInv, RowFits, NamedFor
<1>2. \A p, n : UnitDone(p, n)' <=> UnitDone(p, n)
  BY DEF UnitDone
<1>3. UnitsInv'
  BY <1>2 DEF TextsInv, UnitsInv
<1>4. /\ \A text : Findable(text)' <=> Findable(text)
      /\ \A n : BioDone(n)' <=> BioDone(n)
  BY DEF Findable, BioDone
<1>5. SaintsInv'
  BY <1>4 DEF TextsInv, SaintsInv
<1> QED BY <1>1, <1>3, <1>5 DEF TextsInv

LEMMA TextsStep == TextsInv /\ [LitNext]_litVars => TextsInv'
<1> SUFFICES ASSUME TextsInv, [LitNext]_litVars PROVE TextsInv'
  OBVIOUS
<1>1. CASE BcpNext
  <2>1. CASE EndBcp
    BY <2>1, JobEnds DEF EndBcp, tables
  <2> QED BY <1>1, <2>1, BcpStarts, ParserFailsKeeps, ParsePagesKeeps, SkipEmptyPsalmKeeps,
             UpsertUnitKeeps, DescribeUnitKeeps, EmbedUnitKeeps, UnitFailsKeeps, EndParserKeeps
          DEF BcpNext
<1>2. CASE LffNext
  <2>1. CASE SaintFails
    <3>1. InSaint /\ NextSaint(FALSE) /\ UNCHANGED <<docs, bios, clean, known>>
      BY <2>1 DEF SaintFails, InCollect, tables
    <3> QED BY <3>1, NextSaintKeeps
  <2>2. CASE SaintDone
    <3>1. /\ InSaint /\ NextSaint(TRUE) /\ UNCHANGED <<docs, bios, clean, known>>
          /\ job.item > Len(Saints[job.n].collects)
      BY <2>2 DEF SaintDone, Saint, tables
    <3> QED BY <3>1, NextSaintKeeps
  <2> QED BY <1>2, <2>1, <2>2, LffStarts, SkipBioKeeps, IngestBioKeeps, IngestCollectKeeps, EndLffKeeps
          DEF LffNext
<1>3. CASE JobDies
  BY <1>3, JobEnds DEF JobDies, tables
<1>4. CASE FeastNext
  BY <1>4, TextsSame DEF FeastNext, StartImport, UpsertFeasts, ResolveReferences, ImportDies, tables
<1>5. CASE UNCHANGED litVars
  BY <1>5, TextsSame DEF litVars, tables
<1> QED BY <1>1, <1>2, <1>3, <1>4, <1>5 DEF LitNext

-----------------------------------------------------------------------------
(* LiturgyImport: the feasts.                                              *)

Numbers(file, slug) == {n \in DOMAIN file : file[n].slug = slug}

FeastReads(file, slug) ==
    LET e == EntryOf(file, slug) row == feasts[slug]
    IN  /\ slug \in DOMAIN feasts
        /\ row \in [tradition : {e.tradition}, rule : {e.rule}, subjects : {e.subjects}, xref : {row.xref}]

\* Its row reads as the entry does, its reference too.
FeastIsWritten(file, slug) ==
    LET e == EntryOf(file, slug) row == feasts[slug]
    IN  /\ row.rule = e.rule /\ row.subjects = e.subjects
        /\ e.xref \in Slugs(file) => row.xref = e.xref

\* Between its two passes the import has written the entries, but for what they refer to.
FeastsInv ==
    /\ script \in {NotRunning} \cup [pc : {"rows", "references"}, file : FeastFiles, ignore : BOOLEAN]
    /\ script # NotRunning => written = NoFile
    /\ written \in FeastFiles \cup {NoFile}
    /\ \A file \in FeastFiles : \A slug \in Slugs(file) :
          /\ script.pc = "references" /\ script.file = file => FeastReads(file, slug)
          /\ written = file => FeastIsWritten(file, slug)

LEMMA MaxIsThere ==
    ASSUME NEW m \in Nat, NEW T \in SUBSET (1 .. m), T # {}
    PROVE  Max(T) \in T /\ \A y \in T : y <= Max(T)
<1> DEFINE below == {m - y : y \in T}
<1>1. below \in SUBSET Nat /\ below # {}
  <2>1. \A y \in T : y \in 1 .. m
    OBVIOUS
  <2>2. \A y \in T : m - y \in Nat
    BY <2>1
  <2> QED BY <2>2
<1>2. PICK x \in T : m - x = Min(below)
  <2>1. Min(below) \in below
    <3> HIDE DEF below
    <3> QED BY <1>1, MinIsThere
  <2> QED BY <2>1
<1>3. \A y \in T : m - x <= m - y
  <2>1. \A z \in below : Min(below) <= z
    <3> HIDE DEF below
    <3> QED BY <1>1, MinIsThere
  <2> QED BY <1>2, <2>1
<1>4. \A y \in T : x >= y
  BY <1>3
<1>5. Max(T) \in T /\ \A y \in T : Max(T) >= y
  BY <1>4 DEF Max
<1> QED BY <1>5

\* An entry that refers to one of the file is the one its row refers by.
LEMMA ReferenceIsGiven ==
    ASSUME NEW file \in FeastFiles, NEW slug \in Slugs(file), EntryOf(file, slug).xref \in Slugs(file)
    PROVE  Referring(file, slug) = EntryOf(file, slug).xref
<1> DEFINE given == {n \in DOMAIN file : file[n].slug = slug /\ file[n].xref \in Slugs(file)}
           last == Max(Numbers(file, slug))
<1>1. DOMAIN file = 1 .. Len(file) /\ Len(file) \in Nat
  <2>1. file \in Seq(ToSet(file))
    BY TextsAssumption
  <2> HIDE DEF given, last
  <2> QED BY <2>1
<1>2. Numbers(file, slug) \in SUBSET (1 .. Len(file)) /\ Numbers(file, slug) # {}
  BY <1>1 DEF Numbers, Slugs, Entries, ToSet
<1>3. last \in Numbers(file, slug) /\ \A y \in Numbers(file, slug) : y <= last
  BY <1>1, <1>2, MaxIsThere
<1>4. EntryOf(file, slug) = file[last]
  BY DEF EntryOf, Numbers
<1> HIDE DEF last
<1>5. last \in given /\ given \subseteq Numbers(file, slug)
  BY <1>3, <1>4 DEF Numbers
<1>6. Referring(file, slug) = file[Max(given)].xref
  BY <1>5 DEF Referring
<1> HIDE DEF given
<1>7. Max(given) \in given /\ last <= Max(given)
  BY <1>1, <1>2, <1>5, MaxIsThere
<1>8. Max(given) = last
  BY <1>1, <1>2, <1>3, <1>5, <1>7
<1> QED BY <1>4, <1>6, <1>8

LEMMA NoEntries == Slugs(NoFile) = {}
<1>1. DOMAIN NoFile = {}
  BY DEF NoFile
<1> QED BY <1>1 DEF Slugs, Entries, ToSet

LEMMA ScriptIs ==
    ASSUME FeastsInv, script.pc \in {"rows", "references"}
    PROVE  /\ script \in [pc : {"rows", "references"}, file : FeastFiles, ignore : BOOLEAN]
           /\ script # NotRunning /\ written = NoFile
BY DEF FeastsInv, NotRunning

LEMMA FeastsInitially == LitInit => FeastsInv
<1> SUFFICES ASSUME LitInit PROVE FeastsInv
  OBVIOUS
<1>1. script = NotRunning /\ written = NoFile /\ script.pc = "idle"
  BY DEF LitInit, NotRunning
<1>2. \A file \in FeastFiles : \A slug \in Slugs(file) : written # file
  BY <1>1, NoEntries
<1> QED BY <1>1, <1>2 DEF FeastsInv

LEMMA UpsertFeastsKeeps == FeastsInv /\ UpsertFeasts => FeastsInv'
<1> SUFFICES ASSUME FeastsInv, UpsertFeasts PROVE FeastsInv'
  OBVIOUS
<1>1. /\ script \in [pc : {"rows", "references"}, file : FeastFiles, ignore : BOOLEAN]
      /\ written = NoFile /\ written' = NoFile
  BY ScriptIs DEF UpsertFeasts
<1>2. /\ script' \in [pc : {"rows", "references"}, file : FeastFiles, ignore : BOOLEAN]
      /\ script'.file = script.file
  BY <1>1 DEF UpsertFeasts
<1>3. ASSUME NEW slug \in Slugs(script.file)
      PROVE  slug \in DOMAIN feasts' /\ feasts'[slug] = Upserted(script.file, slug)
  BY DEF UpsertFeasts
<1>4. ASSUME NEW file, file = script.file, NEW slug \in Slugs(file) PROVE FeastReads(file, slug)'
  <2>1. slug \in DOMAIN feasts' /\ feasts'[slug] = Upserted(file, slug)
    BY <1>3, <1>4
  <2> QED BY <2>1 DEF FeastReads, Upserted
<1>5. \A file \in FeastFiles : \A slug \in Slugs(file) : written' # file
  BY <1>1, NoEntries
<1> QED BY <1>1, <1>2, <1>4, <1>5 DEF FeastsInv

LEMMA ResolveReferencesKeeps == FeastsInv /\ ResolveReferences => FeastsInv'
<1> SUFFICES ASSUME FeastsInv, ResolveReferences PROVE FeastsInv'
  OBVIOUS
<1>1. PICK file : file = script.file
  OBVIOUS
<1>2. file \in FeastFiles /\ script.pc = "references"
  BY <1>1, ScriptIs DEF ResolveReferences
<1>3. script' = NotRunning /\ script'.pc = "idle" /\ written' \in {file, NoFile}
  BY <1>1 DEF ResolveReferences, NotRunning
<1>4. ASSUME NEW slug \in Slugs(file) PROVE FeastIsWritten(file, slug)'
  <2>1. FeastReads(file, slug)
    BY <1>1, <1>2 DEF FeastsInv
  <2>2. feasts'[slug] = [feasts[slug] EXCEPT !.xref = Referring(file, slug)]
    BY <1>1, <2>1 DEF ResolveReferences, FeastReads
  <2>3. /\ feasts'[slug].rule = EntryOf(file, slug).rule
        /\ feasts'[slug].subjects = EntryOf(file, slug).subjects
        /\ feasts'[slug].xref = Referring(file, slug)
    BY <2>1, <2>2 DEF FeastReads
  <2> QED BY <1>2, <2>3, ReferenceIsGiven DEF FeastIsWritten
<1>5. ASSUME NEW f \in FeastFiles, NEW slug \in Slugs(f), written' = f PROVE FeastIsWritten(f, slug)'
  <2>1. f = file
    BY <1>3, <1>5, NoEntries
  <2> QED BY <1>4, <1>5, <2>1
<1> QED BY <1>2, <1>3, <1>5 DEF FeastsInv

LEMMA FeastsStep == FeastsInv /\ [LitNext]_litVars => FeastsInv'
<1> SUFFICES ASSUME FeastsInv, [LitNext]_litVars PROVE FeastsInv'
  OBVIOUS
<1>1. CASE UNCHANGED <<feasts, script, written>>
  <2>1. script' = script /\ written' = written
    BY <1>1
  <2>2. ASSUME NEW file \in FeastFiles, NEW slug \in Slugs(file)
        PROVE  /\ script.pc = "references" /\ script.file = file => FeastReads(file, slug)'
               /\ written = file => FeastIsWritten(file, slug)'
    <3>1. FeastReads(file, slug) => FeastReads(file, slug)'
      BY <1>1 DEF FeastReads
    <3>2. FeastIsWritten(file, slug) => FeastIsWritten(file, slug)'
      BY <1>1 DEF FeastIsWritten
    <3> QED BY <3>1, <3>2 DEF FeastsInv
  <2> QED BY <2>1, <2>2 DEF FeastsInv
<1>2. ASSUME NEW file \in FeastFiles, NEW i \in BOOLEAN, StartImport(file, i) PROVE FeastsInv'
  <2>1. /\ script' \in [pc : {"rows", "references"}, file : FeastFiles, ignore : BOOLEAN]
        /\ script'.pc = "rows" /\ written' = NoFile
    BY <1>2 DEF StartImport
  <2> QED BY <2>1, NoEntries DEF FeastsInv
<1>3. CASE ImportDies
  <2>1. script' = NotRunning /\ script'.pc = "idle" /\ UNCHANGED <<feasts, written>>
    BY <1>3 DEF ImportDies, NotRunning, tables
  <2>2. \A file, slug : FeastIsWritten(file, slug)' <=> FeastIsWritten(file, slug)
    BY <2>1 DEF FeastIsWritten
  <2> QED BY <2>1, <2>2 DEF FeastsInv
<1>4. CASE FeastNext
  BY <1>2, <1>3, <1>4, UpsertFeastsKeeps, ResolveReferencesKeeps DEF FeastNext
<1>5. CASE BcpNext
  BY <1>1, <1>5 DEF BcpNext, StartBcp, ParserFails, ParsePages, SkipEmptyPsalm, UpsertUnit,
     DescribeUnit, EmbedUnit, UnitFails, EndParser, EndBcp, tables
<1>6. CASE LffNext
  BY <1>1, <1>6 DEF LffNext, StartLff, SkipBio, IngestBio, IngestCollect, SaintFails, SaintDone,
     EndLff, tables
<1>7. CASE JobDies \/ UNCHANGED litVars
  BY <1>1, <1>7 DEF JobDies, litVars, tables
<1> QED BY <1>4, <1>5, <1>6, <1>7 DEF LitNext

LEMMA ImportImplies == TextsInv /\ FeastsInv => CleanRunIsComplete
<1> SUFFICES ASSUME TextsInv, FeastsInv PROVE CleanRunIsComplete
  OBVIOUS
<1>1. \A p \in clean \ {"lff"} : \A n \in DOMAIN Pages[p] : UnitDone(p, n)
  BY DEF TextsInv, UnitsInv
<1>2. \A n \in DOMAIN Saints :
        /\ "lff" \in clean => \A c \in ToSet(Saints[n].collects) : Findable(c.text)
        /\ Saints[n].slug \in known => BioDone(n)
  BY DEF TextsInv, SaintsInv
<1>3. \A slug \in Slugs(written) : FeastIsWritten(written, slug)
  BY NoEntries DEF FeastsInv
<1> QED BY <1>1, <1>2, <1>3 DEF CleanRunIsComplete, UnitDone, BioDone, FeastIsWritten

\* A job that reports no error has done all of its work, and an import of the feasts
\* that ended in success has written what the file says: handle_liturgy_bcp_ingest,
\* handle_liturgy_lff_ingest and feast_import.py, whatever failed or died before.
THEOREM CleanRunsAreComplete == LitSpec => []CleanRunIsComplete
<1> QED BY TextsInitially, TextsStep, FeastsInitially, FeastsStep, ImportImplies, PTL DEF LitSpec
====
