---------------------------- MODULE ParserProofs ----------------------------
(***************************************************************************)
(* The six parsers implement the anthology, for every page of every book.  *)
(* A step of a parser is of one of three kinds: it emits the unit at hand  *)
(* and goes on without one, it begins a new one, or it adds to the one at  *)
(* hand; in each, what is emitted and what is at hand hold nothing but     *)
(* what was read, and a unit is thrown away only without a text.           *)
(***************************************************************************)
EXTENDS LiturgicalParsers, WellFoundedInduction, FiniteSetTheorems, TLAPS

-----------------------------------------------------------------------------
(* What a step of any parser does to the page read and to the units.        *)

LEMMA MinIsThere ==
    ASSUME NEW T \in SUBSET Nat, T # {}
    PROVE  Min(T) \in T /\ \A y \in T : Min(T) <= y
<1>1. \E v \in T : \A w \in T : v <= w
  <2>1. PICK v \in T : \A w \in T : ~ (<<w, v>> \in OpToRel(<, Nat))
    BY NatLessThanWellFounded, WFMin
  <2>2. \A w \in Nat : w < v => <<w, v>> \in OpToRel(<, Nat)
    BY DEF OpToRel
  <2>3. \A w \in Nat : ~(w < v) => v <= w
    OBVIOUS
  <2> QED BY <2>1, <2>2, <2>3
<1> QED BY <1>1 DEF Min

LEMMA MaxIsThere ==
    ASSUME NEW m \in Nat, NEW T \in SUBSET (1 .. m), T # {}
    PROVE  Max(T) \in T /\ \A y \in T : y <= Max(T)
<1> DEFINE below == {m - y : y \in T}
<1>1. below \in SUBSET Nat /\ below # {}
  <2>1. \A y \in T : y \in 1 .. m
    OBVIOUS
  <2>2. \A y \in T : m - y \in Nat
    BY <2>1
  <2> QED BY <2>2
<1>2. PICK x \in T : m - x = Min(below)
  <2>1. Min(below) \in below
    <3> HIDE DEF below
    <3> QED BY <1>1, MinIsThere
  <2> QED BY <2>1
<1>3. \A y \in T : m - x <= m - y
  <2>1. \A z \in below : Min(below) <= z
    <3> HIDE DEF below
    <3> QED BY <1>1, MinIsThere
  <2> QED BY <1>2, <2>1
<1>4. \A y \in T : x >= y
  BY <1>3
<1>5. Max(T) \in T /\ \A y \in T : Max(T) >= y
  BY <1>4 DEF Max
<1> QED BY <1>5

Part == {"body", "rubric", "preface", "psday", "subheading", "verse", "name", "subtitle", "bio",
         "rite_i", "rite_ii", "lessons", "number", "psalm-verse", "prayer-body", "speaker-line"}
Piece == Part \X Nat
Builder == [head : Nat, named : BOOLEAN, page : Nat, section : Nat, text : Seq(Piece)]

\* The pieces of a unit that are its own text, before separators are left out.
Uncounted == {"psday", "subheading", "number", "bio", "rubric"}
Counted(unit) ==
    {unit.text[i] : i \in {n \in DOMAIN unit.text : unit.text[n][1] \notin Uncounted}}

\* Shelved on the page h.
Holds(h, unit) ==
    [head |-> unit.head,
     text |-> IF unit.named THEN {p[2] : p \in {q \in Counted(unit) : h[q[2]] # "or"}} ELSE {}]

InRange(unit, k) == \A p \in Counted(unit) : p[2] \in 1 .. k

IsSequence(s) == \E S : s \in Seq(S)

PageRead ==
    /\ IsSequence(html) /\ at \in Nat \ {0} /\ at <= Len(html) + 1
    /\ page \in Nat /\ section \in Nat
    /\ current \in Builder /\ InRange(current, at - 1)
    /\ current = NoUnit \/ current.head \in 1 .. at - 1
    /\ results \in Seq(Builder) /\ \A unit \in ToSet(results) : InRange(unit, at - 1)

\* A step reads html from at to at' - 1.
ReadsOn ==
    /\ IsSequence(html') /\ at' \in Nat /\ at <= at' /\ at' <= Len(html') + 1
    /\ Len(html) <= Len(html') /\ \A i \in 1 .. Len(html) : html'[i] = html[i]

InHand == at .. at' - 1

\* A unit of what is read in this step; the unit being built, as it is emitted; it,
\* with what is read in this step.
Fresh(unit) ==
    unit \in Builder /\ unit.head \in InHand /\ \A p \in Counted(unit) : p[2] \in InHand
Emitted(unit) ==
    /\ unit \in Builder /\ current # NoUnit
    /\ unit.head = current.head /\ unit.named = current.named
    /\ Counted(unit) \subseteq Counted(current)
    /\ \A p \in Counted(current) \ Counted(unit) : html[p[2]] = "or"
Grown(unit) ==
    /\ unit \in Builder /\ current # NoUnit
    /\ unit.head = current.head /\ unit.named = current.named
    /\ Counted(current) \subseteq Counted(unit)
    /\ \A p \in Counted(unit) \ Counted(current) : p[2] \in InHand

\* Nothing is lost when the unit being built is closed and units are emitted.
Settled(units) ==
    current = NoUnit \/ ~current.named \/ Counted(current) = {} \/ \E unit \in units : Emitted(unit)

LEMMA OwnTextIs ==
    ASSUME NEW h, NEW unit
    PROVE  {unit.text[i][2] : i \in {n \in DOMAIN unit.text :
                /\ unit.text[n][1] \notin {"psday", "subheading", "number", "bio", "rubric"}
                /\ h[unit.text[n][2]] # "or"}}
           = {p[2] : p \in {q \in Counted(unit) : h[q[2]] # "or"}}
BY DEF Counted, Uncounted

LEMMA HoldsStill ==
    ASSUME PageRead, ReadsOn, NEW unit \in Builder, InRange(unit, at - 1)
    PROVE  Holds(html', unit) = Holds(html, unit)
<1>1. ASSUME NEW p \in Counted(unit) PROVE html'[p[2]] = html[p[2]]
  BY <1>1 DEF PageRead, ReadsOn, InRange
<1> QED BY <1>1 DEF Holds

LEMMA EmittedHolds ==
    ASSUME NEW unit, Emitted(unit) PROVE Holds(html, unit) = Holds(html, current)
<1>1. {q \in Counted(unit) : html[q[2]] # "or"} = {q \in Counted(current) : html[q[2]] # "or"}
  BY DEF Emitted
<1> QED BY <1>1 DEF Holds, Emitted

\* Every step of a parser is of one kind: it emits some units, and goes on with none,
\* with a new one, or with the one being built.
LEMMA ReadStep ==
    ASSUME PageRead, ReadsOn, NEW units, results' \in Seq(Builder),
           ToSet(results') = ToSet(results) \cup units,
           \A unit \in units : Emitted(unit) \/ Fresh(unit),
           \/ current' = NoUnit /\ Settled(units)
           \/ Fresh(current') /\ Settled(units)
           \/ Grown(current'),
           page' \in Nat, section' \in Nat
    PROVE  PageRead' /\ Anthology!ReadOn
<1> DEFINE open == Holds(html, current)
           open2 == Holds(html', current')
           shelf == {Holds(html, unit) : unit \in ToSet(results)}
           shelf2 == {Holds(html', unit) : unit \in ToSet(results')}
           none == [head |-> 0, text |-> {}]
<1>1. /\ Shelved(current) = open /\ Shelved(current)' = open2
      /\ {Shelved(unit) : unit \in ToSet(results)} = shelf
      /\ {Shelved(unit) : unit \in ToSet(results)}' = shelf2
  <2>1. Shelved(current) = open
    BY OwnTextIs DEF Shelved, OwnText, Holds
  <2>2. Shelved(current)' = open2
    BY OwnTextIs DEF Shelved, OwnText, Holds
  <2>3. ASSUME NEW unit PROVE Shelved(unit) = Holds(html, unit)
    BY OwnTextIs DEF Shelved, OwnText, Holds
  <2>4. ASSUME NEW unit PROVE Shelved(unit)' = Holds(html', unit)
    BY OwnTextIs DEF Shelved, OwnText, Holds
  <2>5. {Shelved(unit) : unit \in ToSet(results)} = shelf
    BY <2>3
  <2>6. {Shelved(unit) : unit \in ToSet(results)}' = shelf2
    BY <2>4
  <2> QED BY <2>1, <2>2, <2>5, <2>6
<1>2. Holds(html', current) = open /\ \A unit \in ToSet(results) : Holds(html', unit) = Holds(html, unit)
  BY HoldsStill DEF PageRead, ToSet
<1>3. \A unit \in units : Emitted(unit) => Holds(html', unit) = open
  <2>1. ASSUME NEW unit \in units, Emitted(unit) PROVE Holds(html', unit) = open
    <3>1. unit \in Builder /\ InRange(unit, at - 1)
      BY <2>1 DEF Emitted, InRange, PageRead
    <3> QED BY <3>1, <2>1, HoldsStill, EmittedHolds
  <2> QED BY <2>1
<1>4. ASSUME NEW unit, Fresh(unit)
      PROVE  Holds(html', unit).head \in InHand /\ Holds(html', unit).text \subseteq InHand
  BY <1>4 DEF Fresh, Holds
<1>5. open = none <=> current = NoUnit
  <2>1. current # NoUnit => open.head # 0
    BY DEF PageRead, Holds
  <2>2. current = NoUnit => open = none
    BY DEF Holds, NoUnit
  <2> QED BY <2>1, <2>2
<1>6. ~Grown(current') => open.text = {} \/ open = none \/ open \in shelf2
  <2>1. SUFFICES ASSUME Settled(units) PROVE open.text = {} \/ open = none \/ open \in shelf2
    OBVIOUS
  <2>2. CASE \E unit \in units : Emitted(unit)
    <3>1. PICK unit \in units : Emitted(unit)
      BY <2>2
    <3>2. unit \in ToSet(results') /\ Holds(html', unit) = open
      BY <3>1, <1>3
    <3> QED BY <3>2
  <2>3. ~current.named \/ Counted(current) = {} => open.text = {}
    BY DEF Holds
  <2> QED BY <1>5, <2>1, <2>2, <2>3 DEF Settled
<1>7. InHand = (at - 1) + 1 .. at' - 1 /\ at \in Nat /\ at >= 1 /\ at' \in Nat /\ at <= at'
  <2>1. at \in Nat /\ at >= 1 /\ at' \in Nat /\ at <= at'
    BY DEF ReadsOn, PageRead
  <2>2. (at - 1) + 1 = at
    BY <2>1
  <2> QED BY <2>1, <2>2 DEF InHand
<1>8. Grown(current') => /\ open2.head = open.head /\ open2 # none /\ open # none
                         /\ open.text \subseteq open2.text /\ open2.text \ open.text \subseteq InHand
  <2>1. SUFFICES ASSUME Grown(current')
                 PROVE  /\ open2.head = open.head /\ open2 # none /\ open # none
                        /\ open.text \subseteq open2.text /\ open2.text \ open.text \subseteq InHand
    OBVIOUS
  <2>2. open2.head = open.head /\ open.head # 0
    BY <2>1 DEF Grown, Holds, PageRead
  <2>3. \A p \in Counted(current) : html'[p[2]] = html[p[2]]
    BY DEF PageRead, ReadsOn, InRange
  <2>4. open.text \subseteq open2.text /\ open2.text \ open.text \subseteq InHand
    BY <2>1, <2>3 DEF Grown, Holds
  <2> QED BY <2>2, <2>4
<1>9. open2 = none \/ Grown(current') \/ (open2.head \in InHand /\ open2.text \subseteq InHand)
  <2>1. current' = NoUnit => open2 = none
    BY DEF Holds, NoUnit
  <2>2. Fresh(current') => open2.head \in InHand /\ open2.text \subseteq InHand
    BY <1>4
  <2> QED BY <2>1, <2>2
<1>10. shelf \subseteq shelf2
  BY <1>2
<1>11. \A s \in shelf2 \ shelf : s = open \/ (s.head \in InHand /\ s.text \subseteq InHand)
  <2>1. SUFFICES ASSUME NEW unit \in ToSet(results'), Holds(html', unit) \notin shelf
                 PROVE  \/ Holds(html', unit) = open
                        \/ Holds(html', unit).head \in InHand /\ Holds(html', unit).text \subseteq InHand
    <3> HIDE DEF shelf, open
    <3> QED OBVIOUS
  <2>2. unit \in units
    BY <2>1, <1>2
  <2> QED BY <2>2, <1>3, <1>4
<1>12. \A k \in InHand : k # 0
  BY <1>7 DEF InHand
<1>13. Anthology!ReadOn
  <2> HIDE DEF open, open2, shelf, shelf2, InHand
  <2>1. Anthology!JustRead = InHand /\ (at - 1)' >= at - 1
    <3>1. (at - 1)' = at' - 1
      OBVIOUS
    <3>2. Anthology!JustRead = (at - 1) + 1 .. at' - 1
      BY <3>1 DEF Anthology!JustRead
    <3>3. at' - 1 >= at - 1
      <4>1. \A x, y \in Nat : x <= y => y - 1 >= x - 1
        OBVIOUS
      <4> QED BY <4>1, <1>7
    <3> QED BY <1>7, <3>1, <3>2, <3>3
  <2>2. \/ open2 = none
        \/ open2 # none /\ Anthology!IsNew(open2)
        \/ open # none /\ open2 # none /\ Anthology!Continues(open2)
    BY <2>1, <1>1, <1>8, <1>9 DEF Anthology!Continues, Anthology!IsNew
  <2>3. \A s \in shelf2 \ shelf : s = open \/ Anthology!IsNew(s)
    BY <2>1, <1>11 DEF Anthology!IsNew
  <2>4. open # none /\ (open2 = none \/ open2.head # open.head) => open.text = {} \/ open \in shelf2
    BY <1>6, <1>8
  <2> HIDE DEF none
  <2> QED BY <1>1, <1>10, <2>1, <2>2, <2>3, <2>4 DEF Anthology!ReadOn, none
<1>14. InRange(current, at' - 1) /\ \A unit \in ToSet(results) : InRange(unit, at' - 1)
  BY DEF PageRead, ReadsOn, InRange
<1>15. ASSUME NEW unit, Fresh(unit) \/ Emitted(unit) \/ Grown(unit)
       PROVE  InRange(unit, at' - 1) /\ unit \in Builder /\ unit.head \in 1 .. at' - 1
  BY <1>14, <1>15, <1>7 DEF InRange, Fresh, Emitted, Grown, PageRead
<1>16. NoUnit \in Builder /\ InRange(NoUnit, at' - 1)
  BY DEF NoUnit, Builder, InRange, Counted, Piece
<1>17. current' \in Builder /\ InRange(current', at' - 1)
       /\ (current' = NoUnit \/ current'.head \in 1 .. at' - 1)
  BY <1>15, <1>16
<1>18. \A unit \in ToSet(results') : InRange(unit, at' - 1)
  BY <1>14, <1>15
<1> QED BY <1>13, <1>17, <1>18, <1>7 DEF PageRead, ReadsOn, InRange, Counted

LEMMA ToSetConcat ==
    ASSUME NEW S, NEW s \in Seq(S), NEW t \in Seq(S)
    PROVE  s \o t \in Seq(S) /\ ToSet(s \o t) = ToSet(s) \cup ToSet(t)
<1>1. s \o t \in Seq(S) /\ Len(s \o t) = Len(s) + Len(t) /\ Len(s) \in Nat /\ Len(t) \in Nat
      /\ \A i \in 1 .. Len(s) + Len(t) : (s \o t)[i] = IF i <= Len(s) THEN s[i] ELSE t[i - Len(s)]
  OBVIOUS
<1>2. \A i \in 1 .. Len(t) : /\ Len(s) + i \in 1 .. Len(s) + Len(t) /\ ~(Len(s) + i <= Len(s))
                            /\ (Len(s) + i) - Len(s) = i
  BY <1>1
<1>3. \A x \in ToSet(t) : x \in ToSet(s \o t)
  <2>1. SUFFICES ASSUME NEW i \in 1 .. Len(t) PROVE t[i] \in ToSet(s \o t)
    BY DEF ToSet
  <2>2. (s \o t)[Len(s) + i] = t[i]
    BY <1>1, <1>2
  <2> QED BY <2>2, <1>1, <1>2 DEF ToSet
<1>4. \A x \in ToSet(s) : x \in ToSet(s \o t)
  BY <1>1 DEF ToSet
<1>5. \A x \in ToSet(s \o t) : x \in ToSet(s) \/ x \in ToSet(t)
  <2>1. SUFFICES ASSUME NEW i \in 1 .. Len(s) + Len(t)
                 PROVE  (s \o t)[i] \in ToSet(s) \/ (s \o t)[i] \in ToSet(t)
    BY <1>1 DEF ToSet
  <2>2. i <= Len(s) => (s \o t)[i] \in ToSet(s)
    BY <1>1 DEF ToSet
  <2>3. ~(i <= Len(s)) => i - Len(s) \in 1 .. Len(t) /\ (s \o t)[i] = t[i - Len(s)]
    BY <1>1
  <2> QED BY <2>2, <2>3 DEF ToSet
<1> QED BY <1>1, <1>3, <1>4, <1>5

LEMMA ToSetOne == \A x : ToSet(<<x>>) = {x} /\ ToSet(<<>>) = {}
BY DEF ToSet

LEMMA NoText ==
    ASSUME NEW unit, unit.text = <<>>
    PROVE  Counted(unit) = {} /\ \A parts : ~HasPart(unit, parts)
BY DEF Counted, HasPart

LEMMA SameText ==
    ASSUME NEW unit, NEW other, unit.text = other.text
    PROVE  Counted(unit) = Counted(other) /\ \A parts : HasPart(unit, parts) <=> HasPart(other, parts)
BY DEF Counted, HasPart

LEMMA WithIs ==
    ASSUME NEW unit \in Builder, NEW part \in Part, NEW k \in Nat
    PROVE  /\ With(unit, part, k) \in Builder
           /\ With(unit, part, k).head = unit.head /\ With(unit, part, k).named = unit.named
           /\ Counted(With(unit, part, k)) =
                Counted(unit) \cup (IF part \in Uncounted THEN {} ELSE {<<part, k>>})
           /\ \A parts : HasPart(With(unit, part, k), parts) <=> HasPart(unit, parts) \/ part \in parts
<1> DEFINE more == With(unit, part, k)
           n == Len(unit.text)
<1>1. more = [unit EXCEPT !.text = Append(unit.text, <<part, k>>)]
  BY DEF With
<1>2. unit.text \in Seq(Piece) /\ <<part, k>> \in Piece
  BY DEF Builder, Piece
<1>3. Append(unit.text, <<part, k>>) \in Seq(Piece)
  BY <1>2
<1>4. /\ more \in Builder /\ more.head = unit.head /\ more.named = unit.named
      /\ more.text = Append(unit.text, <<part, k>>)
  BY <1>1, <1>3 DEF Builder
<1>5. /\ n \in Nat /\ DOMAIN unit.text = 1 .. n /\ DOMAIN more.text = 1 .. n + 1
      /\ more.text[n + 1] = <<part, k>> /\ \A i \in 1 .. n : more.text[i] = unit.text[i]
  BY <1>4, <1>2
<1>6. 1 .. n + 1 = (1 .. n) \cup {n + 1}
  BY <1>5
<1>7. <<part, k>>[1] = part
  OBVIOUS
<1> HIDE DEF more, n
<1>8. Counted(more) = Counted(unit) \cup (IF part \in Uncounted THEN {} ELSE {<<part, k>>})
  <2>1. more.text[n + 1][1] = part /\ n + 1 \notin 1 .. n /\ \A i \in 1 .. n : more.text[i][1] = unit.text[i][1]
    BY <1>5, <1>7
  <2>2. CASE part \in Uncounted
    <3>1. {i \in DOMAIN more.text : more.text[i][1] \notin Uncounted}
          = {i \in DOMAIN unit.text : unit.text[i][1] \notin Uncounted}
      BY <2>1, <2>2, <1>5, <1>6
    <3> QED BY <2>2, <3>1, <1>5 DEF Counted
  <2>3. CASE part \notin Uncounted
    <3>1. {i \in DOMAIN more.text : more.text[i][1] \notin Uncounted}
          = {i \in DOMAIN unit.text : unit.text[i][1] \notin Uncounted} \cup {n + 1}
      BY <2>1, <2>3, <1>5, <1>6
    <3> QED BY <2>3, <3>1, <1>5 DEF Counted
  <2> QED BY <2>2, <2>3
<1>9. \A parts : HasPart(more, parts) <=> HasPart(unit, parts) \/ part \in parts
  BY <1>5, <1>6, <1>7 DEF HasPart
<1> QED BY <1>4, <1>8, <1>9 DEF more

LEMMA NewUnitIs ==
    ASSUME PageRead
    PROVE  /\ NewUnit \in Builder /\ NewUnit.head = at /\ NewUnit.named /\ NewUnit.text = <<>>
           /\ NewUnit.page = page /\ NewUnit.section = section /\ Counted(NewUnit) = {}
           /\ NoUnit \in Builder /\ NoUnit.text = <<>> /\ ~NoUnit.named /\ Counted(NoUnit) = {}
<1>1. at \in Nat /\ page \in Nat /\ section \in Nat /\ 0 \in Nat /\ <<>> \in Seq(Piece)
  BY DEF PageRead
<1>2. NewUnit \in Builder /\ NoUnit \in Builder
  BY <1>1 DEF NewUnit, NoUnit, Builder
<1>3. NewUnit.text = <<>> /\ NoUnit.text = <<>>
  BY DEF NewUnit, NoUnit
<1>4. Counted(NewUnit) = {} /\ Counted(NoUnit) = {}
  BY <1>3, NoText
<1> QED BY <1>2, <1>3, <1>4 DEF NewUnit, NoUnit

LEMMA AppendIs ==
    ASSUME NEW s, IsSequence(s), NEW x
    PROVE  /\ IsSequence(Append(s, x)) /\ Len(s) \in Nat /\ Len(Append(s, x)) = Len(s) + 1
           /\ \A i \in 1 .. Len(s) : Append(s, x)[i] = s[i]
<1>1. PICK S : s \in Seq(S)
  BY DEF IsSequence
<1>2. s \in Seq(S \cup {x})
  BY <1>1
<1>3. Append(s, x) \in Seq(S \cup {x})
  BY <1>2
<1> QED BY <1>2, <1>3 DEF IsSequence

LEMMA ReadsIs ==
    ASSUME PageRead, NEW k, Reads(k)
    PROVE  ReadsOn /\ at' = at + 1 /\ InHand = {at} /\ at \in Nat /\ state # "done"
<1>1. at \in Nat /\ at' = at + 1 /\ Len(html) \in Nat /\ IsSequence(html) /\ at <= Len(html) + 1
  BY AppendIs DEF Reads, PageRead
<1>2. \A x \in Nat : x <= x + 1 /\ x + 1 \in Nat /\ x .. (x + 1) - 1 = {x}
  OBVIOUS
<1>3. InHand = {at} /\ at' \in Nat /\ at <= at'
  BY <1>1, <1>2 DEF InHand
<1>4. IsSequence(html') /\ Len(html) <= Len(html') /\ at + 1 <= Len(html') + 1
      /\ \A i \in 1 .. Len(html) : html'[i] = html[i]
  <2>1. CASE at <= Len(html) /\ UNCHANGED html
    BY <1>1, <2>1
  <2>2. CASE at > Len(html) /\ html' = Append(html, k)
    <3>1. IsSequence(html') /\ Len(html') = Len(html) + 1 /\ \A i \in 1 .. Len(html) : html'[i] = html[i]
      BY <1>1, <2>2, AppendIs
    <3>2. \A x, y \in Nat : y = x + 1 => x <= y
      OBVIOUS
    <3>3. \A x, y, z \in Nat : y = x + 1 /\ z <= x + 1 => z + 1 <= y + 1
      OBVIOUS
    <3>4. Len(html') \in Nat
      BY <3>1, AppendIs
    <3> QED BY <1>1, <3>1, <3>2, <3>3, <3>4
  <2> QED BY <2>1, <2>2 DEF Reads
<1> QED BY <1>1, <1>3, <1>4 DEF ReadsOn, Reads

\* What is emitted when the unit being built is closed.
Closes(emitted) ==
    /\ emitted \in Seq(Builder) /\ \A unit \in ToSet(emitted) : Emitted(unit)
    /\ Settled(ToSet(emitted))

LEMMA ClosesWithIt ==
    ASSUME PageRead, NEW emitted,
           \/ emitted = <<>> /\ (current = NoUnit \/ ~current.named \/ Counted(current) = {})
           \/ emitted = <<current>> /\ current # NoUnit
    PROVE  Closes(emitted)
<1>1. CASE emitted = <<>>
  BY <1>1, ToSetOne DEF Closes, Settled
<1>2. CASE emitted = <<current>> /\ current # NoUnit
  <2>1. Emitted(current) /\ current \in Builder
    BY <1>2 DEF Emitted, PageRead
  <2> QED BY <1>2, <2>1, ToSetOne DEF Closes, Settled
<1> QED BY <1>1, <1>2

LEMMA BeginStep ==
    ASSUME PageRead, ReadsOn, NEW emitted, Closes(emitted), results' = results \o emitted,
           current' = NoUnit \/ Fresh(current'),
           page' \in Nat, section' \in Nat
    PROVE  PageRead' /\ Anthology!ReadOn
<1>1. results' \in Seq(Builder) /\ ToSet(results') = ToSet(results) \cup ToSet(emitted)
  BY ToSetConcat DEF PageRead, Closes
<1> QED BY <1>1, ReadStep DEF Closes

LEMMA GoOnStep ==
    ASSUME PageRead, ReadsOn, UNCHANGED results,
           (current = NoUnit /\ current' = NoUnit) \/ Grown(current'),
           page' \in Nat, section' \in Nat
    PROVE  PageRead' /\ Anthology!ReadOn
<1>1. results' \in Seq(Builder) /\ ToSet(results') = ToSet(results) \cup {}
  BY DEF PageRead
<1> QED BY <1>1, ReadStep DEF Settled

\* Text for the unit being built, if there is one.
LEMMA AddIs ==
    ASSUME PageRead, InHand = {at}, NEW part \in Part, current # NoUnit,
           current' = With(current, part, at)
    PROVE  /\ Grown(current')
           /\ \A parts : HasPart(current', parts) <=> HasPart(current, parts) \/ part \in parts
           /\ Counted(current') = Counted(current) \cup
                 (IF part \in Uncounted THEN {} ELSE {<<part, at>>})
<1>1. at \in Nat /\ current \in Builder
  BY DEF PageRead
<1>2. Counted(current') \subseteq Counted(current) \cup {<<part, at>>} /\ <<part, at>>[2] = at
  BY <1>1, WithIs
<1>3. Counted(current) \subseteq Counted(current') /\ \A p \in Counted(current') \ Counted(current) : p[2] = at
  <2>1. Counted(current) \subseteq Counted(current')
    BY <1>1, WithIs
  <2> QED BY <2>1, <1>2
<1>4. /\ current' \in Builder /\ current'.head = current.head /\ current'.named = current.named
      /\ \A parts : HasPart(current', parts) <=> HasPart(current, parts) \/ part \in parts
      /\ Counted(current') = Counted(current) \cup (IF part \in Uncounted THEN {} ELSE {<<part, at>>})
  BY <1>1, WithIs
<1> HIDE DEF InHand
<1> QED BY <1>3, <1>4 DEF Grown

\* Page and section of the unit being built may change.
LEMMA SameIs ==
    ASSUME PageRead, current # NoUnit, current' \in Builder,
           current'.head = current.head, current'.named = current.named,
           Counted(current') = Counted(current)
    PROVE  Grown(current')
BY DEF Grown

LEMMA SkipIs ==
    ASSUME PageRead, NEW kinds, Skip(kinds)
    PROVE  PageRead' /\ Anthology!ReadOn /\ UNCHANGED <<book, state, current, pending, results>>
<1>1. PICK k \in kinds : Reads(k)
  BY DEF Skip
<1>2. ReadsOn /\ UNCHANGED <<book, state, current, page, section, pending, results>>
  BY <1>1, ReadsIs DEF Skip
<1>3. current = NoUnit \/ Grown(current')
  BY <1>2, SameIs DEF PageRead
<1>4. page' \in Nat /\ section' \in Nat
  BY <1>2 DEF PageRead
<1> QED BY <1>2, <1>3, <1>4, GoOnStep

LEMMA PageMarkerIs ==
    ASSUME PageRead, PageMarker
    PROVE  /\ PageRead' /\ Anthology!ReadOn /\ UNCHANGED <<book, state, pending, results>>
           /\ Counted(current') = Counted(current)
           /\ \A parts : HasPart(current', parts) <=> HasPart(current, parts)
           /\ current = NoUnit => current' = NoUnit
<1>1. Reads("marker") /\ UNCHANGED <<book, state, section, pending, results>> /\ page' = at
  BY DEF PageMarker
<1>2. ReadsOn /\ at \in Nat
  BY <1>1, ReadsIs
<1>3. /\ current' \in Builder /\ current'.text = current.text
      /\ current'.head = current.head /\ current'.named = current.named
  <2>1. current' = current \/ current' = [current EXCEPT !.page = at]
    BY DEF PageMarker
  <2> QED BY <2>1, <1>2 DEF PageRead, Builder
<1>4. current = NoUnit => current' = NoUnit
  BY DEF PageMarker
<1>5. Counted(current') = Counted(current) /\ \A parts : HasPart(current', parts) <=> HasPart(current, parts)
  BY <1>3, SameText
<1>6. current = NoUnit \/ Grown(current')
  BY <1>3, <1>5, SameIs
<1>7. page' \in Nat /\ section' \in Nat
  BY <1>1, <1>2 DEF PageRead
<1> QED BY <1>1, <1>2, <1>4, <1>5, <1>6, <1>7, GoOnStep

LEMMA TextIsAdded ==
    ASSUME PageRead, NEW k, Reads(k), NEW part \in Part, NEW s, Add(part, s)
    PROVE  /\ PageRead' /\ Anthology!ReadOn /\ UNCHANGED <<book, pending, results>> /\ state' = s
           /\ current = NoUnit => current' = NoUnit
           /\ current # NoUnit =>
                /\ \A parts : HasPart(current', parts) <=> HasPart(current, parts) \/ part \in parts
                /\ Counted(current') = Counted(current) \cup
                      (IF part \in Uncounted THEN {} ELSE {<<part, at>>})
<1>1. ReadsOn /\ InHand = {at} /\ UNCHANGED <<book, page, section, pending, results>> /\ state' = s
  BY ReadsIs DEF Add
<1>2. page' \in Nat /\ section' \in Nat
  BY <1>1 DEF PageRead
<1>3. CASE current = NoUnit
  BY <1>1, <1>2, <1>3, GoOnStep DEF Add
<1>4. CASE current # NoUnit
  <2>1. current' = With(current, part, at)
    BY <1>4 DEF Add
  <2> QED BY <1>1, <1>2, <1>4, <2>1, AddIs, GoOnStep
<1> QED BY <1>3, <1>4

LEMMA UnitBegins ==
    ASSUME PageRead, NEW k, Reads(k), NEW unit, NEW emitted, NEW s,
           Begin(unit, emitted, s), Closes(emitted), unit = NoUnit \/ Fresh(unit)
    PROVE  /\ PageRead' /\ Anthology!ReadOn /\ UNCHANGED <<book, pending>> /\ state' = s
           /\ current' = unit
<1>1. ReadsOn /\ InHand = {at} /\ UNCHANGED <<book, page, section, pending>> /\ state' = s
      /\ current' = unit /\ results' = results \o emitted
  BY ReadsIs DEF Begin
<1>2. page' \in Nat /\ section' \in Nat
  BY <1>1 DEF PageRead
<1>3. current' = NoUnit \/ Fresh(current')
  BY <1>1
<1> QED BY <1>1, <1>2, <1>3, BeginStep

LEMMA PageIsRead ==
    ASSUME PageRead, NEW emitted, PageEnds(results \o emitted), Closes(emitted)
    PROVE  /\ PageRead' /\ Anthology!ReadOn /\ UNCHANGED <<book, pending>> /\ state' = "done"
           /\ current' = NoUnit
<1>1. UNCHANGED <<book, html, at, page, section, pending>> /\ state' = "done"
      /\ current' = NoUnit /\ results' = results \o emitted
  BY DEF PageEnds
<1>2. page' \in Nat /\ section' \in Nat /\ ReadsOn
  BY <1>1 DEF PageRead, ReadsOn
<1> QED BY <1>1, <1>2, BeginStep

\* A unit with no text yet, or with the element it begins with.
LEMMA FreshIs ==
    ASSUME PageRead, at \in InHand, NEW unit \in Builder, unit.head = at, unit.text = <<>>
    PROVE  /\ Fresh(unit) /\ Counted(unit) = {} /\ \A parts : ~HasPart(unit, parts)
           /\ \A k \in InHand : \A part \in Part : k \in Nat => Fresh(With(unit, part, k))
<1>1. Counted(unit) = {} /\ \A parts : ~HasPart(unit, parts)
  BY NoText
<1>2. ASSUME NEW k \in InHand, NEW part \in Part, k \in Nat
      PROVE  Fresh(With(unit, part, k))
  <2>1. /\ With(unit, part, k) \in Builder /\ With(unit, part, k).head = at
        /\ Counted(With(unit, part, k)) \subseteq {<<part, k>>}
    BY <1>1, <1>2, WithIs
  <2> QED BY <2>1, <1>2 DEF Fresh
<1>3. Fresh(unit)
  BY <1>1 DEF Fresh
<1> QED BY <1>1, <1>2, <1>3

-----------------------------------------------------------------------------
(* The collects.                                                            *)

\* bcp_collects: text comes with a body, and after the body nothing else than text.
CollectsInv ==
    /\ Counted(current) = {} \/ HasPart(current, {"body"})
    /\ state \in {"in_body", "after_amen"} /\ current # NoUnit => HasPart(current, {"body"})

LEMMA CollectsKeep ==
    ASSUME PageRead, CollectsInv, CollectsNext
    PROVE  PageRead' /\ Anthology!ReadOn /\ CollectsInv' /\ UNCHANGED book
<1>1. Closes(CollectEmit(current))
  BY ClosesWithIt, NewUnitIs DEF CollectEmit, CollectsInv
<1>2. CASE PageMarker
  BY <1>2, PageMarkerIs DEF CollectsInv
<1>3. CASE Skip({"skip"})
  BY <1>3, SkipIs DEF CollectsInv
<1>4. CASE CollectHead
  <2>1. PICK k \in {"strong", "blank_strong"} :
            Reads(k) /\ Begin([NewUnit EXCEPT !.named = (k = "strong")], CollectEmit(current), "in_heading")
    BY <1>4 DEF CollectHead
  <2> DEFINE unit == [NewUnit EXCEPT !.named = (k = "strong")]
  <2>2. unit \in Builder /\ unit.head = at /\ unit.text = <<>>
    BY NewUnitIs DEF Builder
  <2>3. InHand = {at}
    BY <2>1, ReadsIs
  <2> HIDE DEF unit
  <2>4. Fresh(unit) /\ Counted(unit) = {}
    BY <2>2, <2>3, FreshIs
  <2>5. PageRead' /\ Anthology!ReadOn /\ UNCHANGED book /\ state' = "in_heading" /\ current' = unit
    BY <1>1, <2>1, <2>3, <2>4, UnitBegins DEF unit
  <2> QED BY <2>4, <2>5 DEF CollectsInv
<1>5. ASSUME NEW k, NEW part \in Part, NEW s, Reads(k), Add(part, s),
             \/ part = "body"
             \/ part = "rubric" /\ s = state
             \/ part = "preface" /\ state \in {"in_body", "after_amen"}
      PROVE  PageRead' /\ Anthology!ReadOn /\ CollectsInv' /\ UNCHANGED book
  <2>1. /\ PageRead' /\ Anthology!ReadOn /\ UNCHANGED book /\ state' = s
        /\ current = NoUnit => current' = NoUnit
        /\ current # NoUnit =>
             /\ \A parts : HasPart(current', parts) <=> HasPart(current, parts) \/ part \in parts
             /\ Counted(current') = Counted(current) \cup
                   (IF part \in Uncounted THEN {} ELSE {<<part, at>>})
    BY <1>5, TextIsAdded
  <2>2. CollectsInv'
    <3>1. CASE current = NoUnit
      BY <2>1, <3>1, NewUnitIs DEF CollectsInv
    <3>2. CASE current # NoUnit /\ part = "body"
      BY <2>1, <3>2 DEF CollectsInv
    <3>3. CASE current # NoUnit /\ part = "rubric" /\ s = state
      BY <2>1, <3>3 DEF CollectsInv, Uncounted
    <3>4. CASE current # NoUnit /\ part = "preface" /\ state \in {"in_body", "after_amen"}
      BY <2>1, <3>4 DEF CollectsInv
    <3> QED BY <1>5, <3>1, <3>2, <3>3, <3>4
  <2> QED BY <2>1, <2>2
<1>6. CASE CollectRubric
  <2>1. Reads("rubric") /\ Add("rubric", state) /\ "rubric" \in Part
    BY <1>6 DEF CollectRubric, Part
  <2> QED BY <2>1, <1>5
<1>7. CASE CollectParagraph
  <2>1. PICK k \in {"text", "amen", "preface"} :
            /\ Reads(k)
            /\ \/ state = "idle" /\ Add("body", state)
               \/ state # "idle" /\ BodyParagraph(k)
               \/ k = "preface" /\ Preface
    BY <1>7 DEF CollectParagraph
  <2>2. "body" \in Part /\ "preface" \in Part
    BY DEF Part
  <2>3. CASE Add("body", state)
    BY <2>1, <2>2, <2>3, <1>5
  <2>4. CASE BodyParagraph(k)
    <3> DEFINE s == IF k = "amen" THEN "after_amen" ELSE IF state = "in_heading" THEN "in_body" ELSE state
    <3>1. Add("body", s)
      BY <2>2, <2>4 DEF BodyParagraph
    <3> HIDE DEF s
    <3> QED BY <2>1, <2>2, <3>1, <1>5
  <2>5. CASE Preface
    <3>1. CASE Add("preface", "after_amen")
      BY <2>1, <2>2, <2>5, <3>1, <1>5 DEF Preface
    <3>2. CASE UNCHANGED <<book, state, current, page, section, pending, results>>
      <4>1. Skip({k})
        BY <2>1, <3>2 DEF Skip
      <4> QED BY <4>1, SkipIs DEF CollectsInv
    <3> QED BY <2>5, <3>1, <3>2 DEF Preface
  <2> QED BY <2>1, <2>3, <2>4, <2>5
<1>8. CASE CollectsEnd
  <2>1. PageRead' /\ Anthology!ReadOn /\ UNCHANGED book /\ state' = "done" /\ current' = NoUnit
    BY <1>1, <1>8, PageIsRead DEF CollectsEnd
  <2> QED BY <2>1, NewUnitIs DEF CollectsInv
<1> QED BY <1>2, <1>3, <1>4, <1>6, <1>7, <1>8 DEF CollectsNext

-----------------------------------------------------------------------------
(* Prayers and thanksgivings, and the offices.                              *)

\* bcp_prayers_and_thanksgivings.
PrayersInv == Counted(current) = {} \/ HasPart(current, {"body"})

LEMMA PrayersKeep ==
    ASSUME PageRead, PrayersInv, PrayersNext
    PROVE  PageRead' /\ Anthology!ReadOn /\ PrayersInv' /\ UNCHANGED book
<1>1. Closes(PrayerEmit(current))
  <2>1. ~HasPart(NoUnit, {"body"})
    BY NewUnitIs, NoText
  <2> QED BY <2>1, ClosesWithIt DEF PrayerEmit, PrayersInv
<1>2. CASE PageMarker
  BY <1>2, PageMarkerIs DEF PrayersInv
<1>3. CASE Skip({"skip", "cross_ref"})
  BY <1>3, SkipIs DEF PrayersInv
<1>4. CASE PrayerHeading
  <2>1. Reads("heading") /\ Begin(NewUnit, PrayerEmit(current), state)
    BY <1>4 DEF PrayerHeading
  <2>2. InHand = {at}
    BY <2>1, ReadsIs
  <2>3. Fresh(NewUnit) /\ Counted(NewUnit) = {}
    BY <2>2, NewUnitIs, FreshIs
  <2>4. PageRead' /\ Anthology!ReadOn /\ UNCHANGED book /\ current' = NewUnit
    BY <1>1, <2>1, <2>3, UnitBegins
  <2>5. Counted(current') = {}
    BY <2>3, <2>4
  <2> QED BY <2>4, <2>5 DEF PrayersInv
<1>5. CASE SectionAnchor
  <2>1. PICK k \in {"section", "section_beside"} :
            /\ Reads(k) /\ section' = at
            /\ current' = IF k = "section_beside" /\ current # NoUnit
                            THEN With(current, "body", at) ELSE current
            /\ UNCHANGED <<book, state, page, pending, results>>
    BY <1>5 DEF SectionAnchor
  <2>2. ReadsOn /\ InHand = {at} /\ at \in Nat /\ "body" \in Part
    BY <2>1, ReadsIs DEF Part
  <2>3. page' \in Nat /\ section' \in Nat
    BY <2>1, <2>2 DEF PageRead
  <2>4. CASE k = "section_beside" /\ current # NoUnit
    <3>1. current' = With(current, "body", at)
      BY <2>1, <2>4
    <3>2. Grown(current') /\ HasPart(current', {"body"})
      BY <3>1, <2>2, <2>4, AddIs
    <3> QED BY <2>1, <2>2, <2>3, <3>2, GoOnStep DEF PrayersInv
  <2>5. CASE ~(k = "section_beside" /\ current # NoUnit)
    <3>1. current' = current
      BY <2>1, <2>5
    <3>2. current = NoUnit \/ Grown(current')
      BY <3>1, SameIs DEF PageRead
    <3> QED BY <2>1, <2>2, <2>3, <3>1, <3>2, GoOnStep DEF PrayersInv
  <2> QED BY <2>4, <2>5
<1>6. CASE PrayerText
  <2>1. PICK k \in {"text", "rubric"} :
            Reads(k) /\ Add(IF k = "text" THEN "body" ELSE "rubric", state)
    BY <1>6 DEF PrayerText
  <2> DEFINE part == IF k = "text" THEN "body" ELSE "rubric"
  <2>2. part \in Part /\ part \in {"body", "rubric"}
    BY DEF Part
  <2>3. Reads(k) /\ Add(part, state)
    BY <2>1
  <2> HIDE DEF part
  <2>4. /\ PageRead' /\ Anthology!ReadOn /\ UNCHANGED book
        /\ current = NoUnit => current' = NoUnit
        /\ current # NoUnit =>
             /\ \A parts : HasPart(current', parts) <=> HasPart(current, parts) \/ part \in parts
             /\ Counted(current') = Counted(current) \cup
                   (IF part \in Uncounted THEN {} ELSE {<<part, at>>})
    BY <2>2, <2>3, TextIsAdded
  <2>5. PrayersInv'
    <3>1. CASE current = NoUnit
      BY <2>4, <3>1, NewUnitIs DEF PrayersInv
    <3>2. CASE current # NoUnit /\ part = "body"
      BY <2>4, <3>2 DEF PrayersInv
    <3>3. CASE current # NoUnit /\ part = "rubric"
      BY <2>4, <3>3 DEF PrayersInv, Uncounted
    <3> QED BY <2>2, <3>1, <3>2, <3>3
  <2> QED BY <2>4, <2>5
<1>7. CASE PrayersEnd
  <2>1. PageRead' /\ Anthology!ReadOn /\ UNCHANGED book /\ state' = "done" /\ current' = NoUnit
    BY <1>1, <1>7, PageIsRead DEF PrayersEnd
  <2> QED BY <2>1, NewUnitIs DEF PrayersInv
<1> QED BY <1>2, <1>3, <1>4, <1>5, <1>6, <1>7 DEF PrayersNext

LEMMA FirstBelowIs ==
    ASSUME IsSequence(html), NEW k \in Nat, NEW n \in Nat, NEW more
    PROVE  FirstBelow(k, n, more) = 0 \/ FirstBelow(k, n, more) \in k + 1 .. Len(html)
<1> DEFINE seen == {j \in k + 1 .. k + n : j <= Len(html) /\ html[j] \notin PassedOver \cup more}
<1>1. Len(html) \in Nat
  BY DEF IsSequence
<1>2. \A j \in k + 1 .. k + n : j \in Nat
  OBVIOUS
<1>3. seen \in SUBSET Nat /\ \A j \in seen : j \in k + 1 .. Len(html)
  BY <1>1, <1>2
<1>4. FirstBelow(k, n, more) = IF seen = {} THEN 0 ELSE Min(seen)
  BY DEF FirstBelow
<1> HIDE DEF seen
<1>5. seen # {} => Min(seen) \in seen
  BY <1>3, MinIsThere
<1> QED BY <1>3, <1>4, <1>5

LEMMA OfficeCloses ==
    ASSUME PageRead PROVE Closes(OfficeEmit(current))
BY ClosesWithIt DEF OfficeEmit

\* A sentence of a season is a unit by itself, and none is built after it.
LEMMA SeasonIs ==
    ASSUME PageRead, ReadsOn, at \in InHand, NEW k, k = 0 \/ k \in InHand, Begin(NoUnit, OfficeEmit(current) \o <<SeasonUnit(k)>>, "idle")
    PROVE  PageRead' /\ Anthology!ReadOn /\ UNCHANGED <<book, pending>>
<1> DEFINE unit == SeasonUnit(k)
           closed == OfficeEmit(current)
<1>1. unit = NewUnit \/ (unit = With(NewUnit, "body", k) /\ k # 0)
  BY DEF SeasonUnit
<1>2. k # 0 => k \in Nat
  BY DEF InHand, PageRead, ReadsOn
<1>3. "body" \in Part /\ NewUnit \in Builder /\ NewUnit.head = at /\ NewUnit.text = <<>>
  BY NewUnitIs DEF Part
<1>4. Fresh(unit) /\ unit \in Builder
  <2>1. Fresh(unit)
    BY <1>1, <1>2, <1>3, FreshIs
  <2> QED BY <2>1 DEF Fresh
<1> HIDE DEF unit
<1>5. Closes(closed)
  BY OfficeCloses
<1> HIDE DEF closed
<1>6. results' = results \o (closed \o <<unit>>) /\ current' = NoUnit
      /\ UNCHANGED <<book, page, section, pending>>
  BY DEF Begin, unit, closed
<1>7. closed \o <<unit>> \in Seq(Builder) /\ ToSet(closed \o <<unit>>) = ToSet(closed) \cup {unit}
  <2>1. <<unit>> \in Seq(Builder)
    BY <1>4
  <2>2. closed \in Seq(Builder)
    BY <1>5 DEF Closes
  <2>3. ToSet(<<unit>>) = {unit}
    BY ToSetOne
  <2>4. closed \o <<unit>> \in Seq(Builder) /\ ToSet(closed \o <<unit>>) = ToSet(closed) \cup ToSet(<<unit>>)
    BY <2>1, <2>2, ToSetConcat
  <2> QED BY <2>3, <2>4
<1>8. results' \in Seq(Builder) /\ ToSet(results') = ToSet(results) \cup (ToSet(closed) \cup {unit})
  <2>1. results \in Seq(Builder)
    BY DEF PageRead
  <2> DEFINE emitted == closed \o <<unit>>
  <2>2. results' = results \o emitted /\ emitted \in Seq(Builder)
    BY <1>6, <1>7
  <2>3. ToSet(emitted) = ToSet(closed) \cup {unit}
    BY <1>7
  <2> HIDE DEF emitted
  <2>4. results \o emitted \in Seq(Builder) /\ ToSet(results \o emitted) = ToSet(results) \cup ToSet(emitted)
    BY <2>1, <2>2, ToSetConcat
  <2> QED BY <2>2, <2>3, <2>4
<1>9. Settled(ToSet(closed) \cup {unit})
  BY <1>5 DEF Closes, Settled
<1>10. page' \in Nat /\ section' \in Nat
  BY <1>6 DEF PageRead
<1>11. \A u \in ToSet(closed) \cup {unit} : Emitted(u) \/ Fresh(u)
  BY <1>4, <1>5 DEF Closes
<1>12. PageRead' /\ Anthology!ReadOn
  BY <1>6, <1>8, <1>9, <1>10, <1>11, ReadStep
<1> QED BY <1>6, <1>12

\* bcp_daily_office.
LEMMA OfficeKeep ==
    ASSUME PageRead, OfficeNext
    PROVE  PageRead' /\ Anthology!ReadOn /\ UNCHANGED book
<1>1. Closes(OfficeEmit(current))
  BY OfficeCloses
<1>2. CASE PageMarker
  BY <1>2, PageMarkerIs
<1>3. ASSUME NEW kinds, Skip(kinds) PROVE PageRead' /\ Anthology!ReadOn /\ UNCHANGED book
  BY <1>3, SkipIs
<1>4. ASSUME NEW k, Reads(k), NEW unit, NEW s, Begin(unit, OfficeEmit(current), s),
             unit \in Builder, unit.head = at, unit.text = <<>>
      PROVE  PageRead' /\ Anthology!ReadOn /\ UNCHANGED book
  <2>1. at \in InHand
    BY <1>4, ReadsIs
  <2>2. Fresh(unit)
    BY <1>4, <2>1, FreshIs
  <2> QED BY <1>1, <1>4, <2>2, UnitBegins
<1>5. NewUnit \in Builder /\ NewUnit.head = at /\ NewUnit.text = <<>> /\ "body" \in Part
      /\ "rubric" \in Part
  BY NewUnitIs DEF Part
<1>6. CASE OfficeTitle
  <2>1. PICK k \in {"h1", "h2"} :
            \/ TitleOpens(k) /\ Reads(k) /\ Begin(NewUnit, OfficeEmit(current), "in_unit")
            \/ ~TitleOpens(k) /\ Skip({k})
    BY <1>6 DEF OfficeTitle
  <2> QED BY <2>1, <1>3, <1>4, <1>5
<1>7. CASE OfficeHeading
  <2>1. PICK k \in {"strong", "blank_strong"} :
            Reads(k) /\ Begin([NewUnit EXCEPT !.named = (k = "strong")], OfficeEmit(current), "in_unit")
    BY <1>7 DEF OfficeHeading
  <2> DEFINE unit == [NewUnit EXCEPT !.named = (k = "strong")]
  <2>2. unit \in Builder /\ unit.head = at /\ unit.text = <<>>
    BY NewUnitIs DEF Builder
  <2> HIDE DEF unit
  <2>3. Begin(unit, OfficeEmit(current), "in_unit")
    BY <2>1 DEF unit
  <2> QED BY <2>1, <2>2, <2>3, <1>4
<1>8. CASE OfficeTable
  <2>1. CASE Reads("table_head") /\ Begin(With(NewUnit, "body", at), OfficeEmit(current), "in_unit")
    <3>1. at \in InHand /\ at \in Nat
      BY <2>1, ReadsIs
    <3>2. Fresh(With(NewUnit, "body", at))
      BY <3>1, <1>5, FreshIs
    <3> QED BY <1>1, <2>1, <3>2, UnitBegins
  <2>2. CASE Reads("table") /\ Add("body", state)
    BY <2>2, <1>5, TextIsAdded
  <2> QED BY <1>8, <2>1, <2>2 DEF OfficeTable
<1>9. CASE OfficeRubric
  BY <1>9, <1>5, TextIsAdded DEF OfficeRubric
<1>10. CASE SeasonalSentence
  <2>1. Reads("season") /\ Begin(NoUnit, OfficeEmit(current) \o <<SeasonUnit(at)>>, "idle")
    BY <1>10 DEF SeasonalSentence
  <2>2. ReadsOn /\ at \in InHand
    BY <2>1, ReadsIs
  <2> QED BY <2>1, <2>2, SeasonIs
<1>11. CASE LoneSeason
  <2> DEFINE k == SentenceBelow(at)
             far == Max({at, k})
  <2>1. /\ at <= Len(html) /\ at' = far + 1 /\ UNCHANGED html
        /\ Begin(NoUnit, OfficeEmit(current) \o <<SeasonUnit(k)>>, "idle")
    BY <1>11 DEF LoneSeason
  <2>2. at \in Nat /\ at >= 1 /\ Len(html) \in Nat
    BY AppendIs DEF PageRead
  <2>3. k = 0 \/ k \in at + 1 .. Len(html)
    BY <2>2, FirstBelowIs DEF SentenceBelow, PageRead
  <2> HIDE DEF k
  <2>4. far \in {at, k} /\ at <= far /\ k <= far
    <3>1. {at, k} \in SUBSET (1 .. Len(html)) \/ k = 0
      BY <2>1, <2>2, <2>3
    <3>2. CASE k = 0
      <4>1. \A y \in {at, k} : at >= y
        BY <2>2, <3>2
      <4>2. far \in {at, k} /\ \A y \in {at, k} : far >= y
        BY <4>1 DEF Max
      <4> QED BY <2>2, <3>2, <4>2
    <3>3. CASE {at, k} \in SUBSET (1 .. Len(html))
      BY <2>2, <3>3, MaxIsThere
    <3> QED BY <3>1, <3>2, <3>3
  <2> HIDE DEF far
  <2>5. far \in Nat /\ far <= Len(html)
    BY <2>1, <2>2, <2>3, <2>4
  <2>6. ReadsOn
    BY <2>1, <2>2, <2>4, <2>5 DEF ReadsOn, PageRead
  <2>7. InHand = at .. far
    BY <2>1, <2>5 DEF InHand
  <2>8. at \in InHand /\ (k = 0 \/ k \in InHand)
    BY <2>2, <2>3, <2>4, <2>5, <2>7
  <2> QED BY <2>1, <2>6, <2>8, SeasonIs
<1>12. CASE CollectHeading
  BY <1>12, <1>4, <1>5 DEF CollectHeading
<1>13. CASE OfficeParagraph
  <2>1. PICK k, s : Reads(k) /\ Add("body", s)
    BY <1>13 DEF OfficeParagraph
  <2> QED BY <2>1, <1>5, TextIsAdded
<1>14. CASE OfficeEnds
  BY <1>1, <1>14, PageIsRead DEF OfficeEnds
<1> QED BY <1>2, <1>3, <1>6, <1>7, <1>8, <1>9, <1>10, <1>11, <1>12, <1>13, <1>14 DEF OfficeNext

-----------------------------------------------------------------------------
(* The proper liturgies.                                                    *)

\* bcp_proper_liturgies: every text is a unit at once.
ProperInv == current = NoUnit /\ pending \in Seq(Nat)

LEMMA UnitIsShelved ==
    ASSUME PageRead, ReadsOn, current = NoUnit, UNCHANGED current, NEW unit, Fresh(unit),
           results' = Append(results, unit), page' \in Nat, section' \in Nat
    PROVE  PageRead' /\ Anthology!ReadOn
<1>1. unit \in Builder /\ results \in Seq(Builder) /\ <<unit>> \in Seq(Builder)
  BY DEF Fresh, PageRead
<1>2. results' = results \o <<unit>>
  BY <1>1
<1>3. results' \in Seq(Builder) /\ ToSet(results') = ToSet(results) \cup {unit}
  <2>1. ToSet(<<unit>>) = {unit}
    BY ToSetOne
  <2>2. results \o <<unit>> \in Seq(Builder) /\ ToSet(results \o <<unit>>) = ToSet(results) \cup ToSet(<<unit>>)
    BY <1>1, ToSetConcat
  <2> QED BY <1>2, <2>1, <2>2
<1>4. Settled({unit}) /\ current' = NoUnit
  BY DEF Settled
<1> QED BY <1>3, <1>4, ReadStep

LEMMA ProperKeep ==
    ASSUME PageRead, ProperInv, ProperNext
    PROVE  PageRead' /\ Anthology!ReadOn /\ ProperInv' /\ UNCHANGED book
<1>1. ASSUME NEW k, Reads(k), UNCHANGED <<current, results, book>>, page' \in Nat, section' \in Nat
      PROVE  PageRead' /\ Anthology!ReadOn /\ UNCHANGED <<book, current>>
  BY <1>1, ReadsIs, GoOnStep DEF ProperInv
<1>2. ASSUME NEW k, Reads(k), NEW part \in Part, EmitUnit(part), UNCHANGED <<current, book, page>>,
             section' \in Nat
      PROVE  PageRead' /\ Anthology!ReadOn /\ UNCHANGED <<book, current>>
  <2> DEFINE unit == [NewUnit EXCEPT !.section = section']
  <2>1. unit \in Builder /\ unit.head = at /\ unit.text = <<>>
    BY <1>2, NewUnitIs DEF Builder
  <2>2. ReadsOn /\ at \in InHand /\ at \in Nat
    BY <1>2, ReadsIs
  <2>3. results' = Append(results, With(unit, part, at))
    BY <1>2 DEF EmitUnit
  <2> HIDE DEF unit
  <2>4. Fresh(With(unit, part, at))
    BY <2>1, <2>2, FreshIs
  <2>5. page' \in Nat
    BY <1>2 DEF PageRead
  <2> QED BY <1>2, <2>2, <2>3, <2>4, <2>5, UnitIsShelved DEF ProperInv
<1>3. at \in Nat /\ page \in Nat /\ section \in Nat
  BY DEF PageRead
<1>4. CASE ProperPage
  BY <1>1, <1>3, <1>4 DEF ProperPage, ProperInv
<1>5. CASE Skip({"skip"})
  BY <1>5, SkipIs DEF ProperInv
<1>6. CASE ProperHeading
  <2>1. PICK k \in {"h1", "h2", "h2_id", "strong"} :
            /\ Reads(k)
            /\ section' = IF k = "h1" THEN 0 ELSE at
            /\ IF k \in {"h2_id", "strong"} THEN EmitUnit("rubric") ELSE UNCHANGED results
            /\ UNCHANGED <<book, state, current, page, pending>>
    BY <1>6 DEF ProperHeading
  <2>2. section' \in Nat /\ page' \in Nat /\ "rubric" \in Part
    BY <2>1, <1>3 DEF Part
  <2>3. ProperInv'
    BY <2>1 DEF ProperInv
  <2>4. CASE EmitUnit("rubric")
    BY <2>1, <2>2, <2>3, <2>4, <1>2
  <2>5. CASE UNCHANGED results
    BY <2>1, <2>2, <2>3, <2>5, <1>1
  <2> QED BY <2>1, <2>4, <2>5
<1>7. CASE ProperText
  <2>1. PICK k \in {"rubric", "optional", "speakers", "table", "text"} :
            /\ Reads(k)
            /\ UNCHANGED <<book, state, current, page, section, pending>>
            /\ EmitUnit(CASE k = "rubric" -> "rubric" [] k = "speakers" -> "speaker-line"
                          [] OTHER -> "prayer-body")
    BY <1>7 DEF ProperText
  <2>2. PICK part \in Part : EmitUnit(part)
    BY <2>1 DEF Part
  <2>3. section' \in Nat
    BY <2>1, <1>3
  <2>4. ProperInv'
    BY <2>1 DEF ProperInv
  <2> QED BY <2>1, <2>2, <2>3, <2>4, <1>2
<1>8. CASE EmbeddedPsalm
  <2>1. PICK k \in {"psalm", "verses"} :
            /\ Reads(k)
            /\ UNCHANGED <<book, state, current, page, section>>
            /\ pending' = IF k = "psalm" THEN <<at>> ELSE pending
            /\ results' = Append(results,
                   With(With(NewUnit, "number", PsalmNumber'), "psalm-verse", at))
    BY <1>8 DEF EmbeddedPsalm
  <2> DEFINE number == PsalmNumber'
             unit == With(NewUnit, "number", number)
             verses == With(unit, "psalm-verse", at)
  <2>2. pending' \in Seq(Nat)
    BY <2>1, <1>3 DEF ProperInv
  <2>3. number \in Nat
    <3>1. \A q \in Seq(Nat) : q # <<>> => q[1] \in Nat
      OBVIOUS
    <3>2. number = IF pending' = <<>> THEN 0 ELSE pending'[1]
      BY DEF PsalmNumber
    <3> QED BY <2>2, <3>1, <3>2
  <2>4. ReadsOn /\ at \in InHand
    BY <2>1, ReadsIs
  <2> HIDE DEF number
  <2>5. NewUnit \in Builder /\ NewUnit.head = at /\ Counted(NewUnit) = {}
        /\ "number" \in Part /\ "psalm-verse" \in Part /\ "number" \in Uncounted
    BY NewUnitIs DEF Part, Uncounted
  <2>6. unit \in Builder /\ unit.head = at /\ Counted(unit) = {}
    BY <2>3, <2>5, WithIs
  <2> HIDE DEF unit
  <2>7. verses \in Builder /\ verses.head = at /\ Counted(verses) \subseteq {<<"psalm-verse", at>>}
    BY <1>3, <2>5, <2>6, WithIs
  <2>8. results' = Append(results, verses)
    BY <2>1 DEF unit, number
  <2> HIDE DEF verses
  <2>9. Fresh(verses)
    BY <2>4, <2>7 DEF Fresh
  <2>10. page' \in Nat /\ section' \in Nat /\ UNCHANGED current /\ current = NoUnit
    BY <2>1, <1>3 DEF ProperInv
  <2>11. PageRead' /\ Anthology!ReadOn
    BY <2>4, <2>8, <2>9, <2>10, UnitIsShelved
  <2> QED BY <2>1, <2>2, <2>10, <2>11 DEF ProperInv
<1>9. CASE ProperEnds
  <2>1. results = results \o <<>> /\ Closes(<<>>)
    <3>1. results \in Seq(Builder)
      BY DEF PageRead
    <3> QED BY <3>1, ClosesWithIt DEF ProperInv
  <2>2. PageEnds(results \o <<>>)
    BY <1>9, <2>1 DEF ProperEnds
  <2> QED BY <2>1, <2>2, PageIsRead DEF ProperInv
<1> QED BY <1>4, <1>5, <1>6, <1>7, <1>8, <1>9 DEF ProperNext

\* The rank of a position among those of S: every number up to their count is one.
Rank(i, S) == Cardinality({j \in S : j <= i})

LEMMA RanksAre ==
    ASSUME NEW m \in Nat, NEW S \in SUBSET (1 .. m)
    PROVE  /\ Cardinality(S) \in Nat
           /\ \A i \in S : Rank(i, S) \in 1 .. Cardinality(S)
           /\ \A i, k \in S : Rank(i, S) = Rank(k, S) => i = k
           /\ \A n \in 1 .. Cardinality(S) : \E i \in S : Rank(i, S) = n
<1> DEFINE below(i) == {j \in S : j <= i}
           rank == [i \in S |-> Cardinality(below(i))]
           N == Cardinality(S)
<1>1. IsFiniteSet(S) /\ N \in Nat
  <2>1. IsFiniteSet(1 .. m)
    BY FS_Interval
  <2> QED BY <2>1, FS_Subset, FS_CardinalityType
<1>2. ASSUME NEW i \in S
      PROVE  IsFiniteSet(below(i)) /\ Cardinality(below(i)) \in 1 .. N
  <2>1. below(i) \in SUBSET S /\ i \in below(i)
    <3>1. i <= i
      OBVIOUS
    <3> QED BY <3>1
  <2> HIDE DEF below, N
  <2>2. IsFiniteSet(below(i)) /\ Cardinality(below(i)) <= Cardinality(S) /\ Cardinality(below(i)) \in Nat
    BY <1>1, <2>1, FS_Subset, FS_CardinalityType
  <2>3. Cardinality(below(i)) # 0
    BY <2>1, <2>2, FS_EmptySet
  <2> QED BY <1>1, <2>2, <2>3 DEF N
<1>3. ASSUME NEW i \in S, NEW k \in S, i < k
      PROVE  Cardinality(below(i)) # Cardinality(below(k))
  <2>1. below(i) \in SUBSET below(k) /\ k \in below(k) /\ k \notin below(i)
    <3>1. \A j \in S : j <= i => j <= k
      BY <1>3
    <3>2. ~(k <= i) /\ k <= k
      BY <1>3
    <3> QED BY <3>1, <3>2
  <2>2. IsFiniteSet(below(k))
    BY <1>2
  <2> HIDE DEF below
  <2>3. below(i) # below(k)
    BY <2>1
  <2> QED BY <2>1, <2>2, <2>3, FS_Subset
<1>4. rank \in [S -> 1 .. N]
  BY <1>2
<1>5. \A i, k \in S : rank[i] = rank[k] => i = k
  <2>1. SUFFICES ASSUME NEW i \in S, NEW k \in S, i # k PROVE rank[i] # rank[k]
    OBVIOUS
  <2>2. i < k \/ k < i
    BY <2>1
  <2> QED BY <2>2, <1>3
<1>6. IsFiniteSet(1 .. N) /\ Cardinality(1 .. N) = N
  <2>1. \A x \in Nat : ~(1 > x) => x - 1 + 1 = x
    OBVIOUS
  <2>2. IsFiniteSet(1 .. N) /\ Cardinality(1 .. N) = IF 1 > N THEN 0 ELSE N - 1 + 1
    <3> HIDE DEF N
    <3> QED BY <1>1, FS_Interval
  <2>3. 1 > N => N = 0
    BY <1>1
  <2> HIDE DEF N
  <2> QED BY <1>1, <2>1, <2>2, <2>3
<1>7. rank \in Surjection(S, 1 .. N)
  <2> HIDE DEF rank
  <2>1. rank \in Injection(S, 1 .. N)
    BY <1>4, <1>5 DEF Injection, IsInjective
  <2> QED BY <2>1, <1>6, FS_Injection DEF N
<1>8. \A i \in S : rank[i] = Rank(i, S)
  BY DEF Rank
<1>9. \A n \in 1 .. N : \E i \in S : rank[i] = n
  <2> HIDE DEF rank
  <2> QED BY <1>7 DEF Surjection
<1>10. \A i \in S : rank[i] \in 1 .. N
  <2> HIDE DEF rank
  <2> QED BY <1>4
<1> HIDE DEF rank
<1> QED BY <1>1, <1>5, <1>8, <1>9, <1>10

LEMMA SelectedIs ==
    ASSUME NEW T, NEW seq \in Seq(T), NEW S \in SUBSET (DOMAIN seq)
    PROVE  /\ Selected(seq, S) \in Seq(T)
           /\ ToSet(Selected(seq, S)) = {seq[i] : i \in S}
<1> DEFINE place(n) == CHOOSE i \in S : Rank(i, S) = n
           N == Cardinality(S)
<1>1. S \in SUBSET (1 .. Len(seq)) /\ Len(seq) \in Nat /\ \A i \in S : seq[i] \in T
  OBVIOUS
<1>2. Selected(seq, S) = [n \in 1 .. N |-> seq[place(n)]]
  BY DEF Selected, Rank
<1>3. /\ N \in Nat /\ \A i \in S : Rank(i, S) \in 1 .. N
      /\ \A i, k \in S : Rank(i, S) = Rank(k, S) => i = k
      /\ \A n \in 1 .. N : \E i \in S : Rank(i, S) = n
  BY <1>1, RanksAre
<1> HIDE DEF N
<1>4. ASSUME NEW n \in 1 .. N PROVE place(n) \in S /\ Rank(place(n), S) = n
  BY <1>3
<1>5. ASSUME NEW i \in S PROVE place(Rank(i, S)) = i
  <2> DEFINE n == Rank(i, S)
  <2>1. n \in 1 .. N
    BY <1>3
  <2> HIDE DEF n, place
  <2>2. place(n) \in S /\ Rank(place(n), S) = n
    BY <2>1, <1>4
  <2> QED BY <2>2, <1>3 DEF n
<1> HIDE DEF place
<1>6. Selected(seq, S) \in Seq(T)
  BY <1>1, <1>2, <1>3, <1>4
<1>7. ToSet(Selected(seq, S)) = {seq[place(n)] : n \in 1 .. N}
  BY <1>2 DEF ToSet
<1>8. {seq[place(n)] : n \in 1 .. N} = {seq[i] : i \in S}
  BY <1>3, <1>4, <1>5
<1> QED BY <1>6, <1>7, <1>8

-----------------------------------------------------------------------------
(* The psalter.                                                             *)

\* bcp_psalter.
HeadsPsalm(unit) == unit.head \in 1 .. at - 1 /\ html[unit.head] \in {"psalm_1", "psalm_2"}

PsalterInv ==
    /\ Counted(current) = {} \/ HasPart(current, {"verse"})
    /\ pending \in Seq({"psday", "subheading"} \X Nat)
    /\ current # NoUnit => HeadsPsalm(current)
    /\ \A unit \in ToSet(results) : HeadsPsalm(unit)

LEMMA HeadsStill ==
    ASSUME PageRead, ReadsOn
    PROVE  \A unit : HeadsPsalm(unit) =>
               unit.head \in 1 .. at' - 1 /\ html'[unit.head] \in {"psalm_1", "psalm_2"}
<1>1. SUFFICES ASSUME NEW unit, HeadsPsalm(unit)
               PROVE  unit.head \in 1 .. at' - 1 /\ html'[unit.head] \in {"psalm_1", "psalm_2"}
  OBVIOUS
<1>2. unit.head \in 1 .. at - 1 /\ at \in Nat /\ Len(html) \in Nat /\ at <= Len(html) + 1
  BY <1>1, AppendIs DEF HeadsPsalm, PageRead
<1>3. at' \in Nat /\ at <= at'
  BY DEF ReadsOn
<1>4. \A x, y, h \in Nat : h \in 1 .. x - 1 /\ x <= y => h \in 1 .. y - 1
  OBVIOUS
<1>5. unit.head \in 1 .. at' - 1
  BY <1>2, <1>3, <1>4
<1>6. unit.head \in 1 .. Len(html)
  BY <1>2
<1>7. html'[unit.head] = html[unit.head]
  BY <1>6 DEF ReadsOn
<1> QED BY <1>1, <1>5, <1>7 DEF HeadsPsalm

LEMMA PsalmCloses ==
    ASSUME PageRead, PsalterInv
    PROVE  /\ Closes(PsalmEmit(current))
           /\ PsalmEmit(current) \in {<<>>, <<current>>}
           /\ PsalmEmit(current) = <<current>> => current # NoUnit
<1>1. ~HasPart(NoUnit, {"verse"})
  BY NewUnitIs, NoText
<1>2. PsalmEmit(current) = <<>> => PsalmEmit(current) # <<current>>
  OBVIOUS
<1> QED BY <1>1, <1>2, ClosesWithIt DEF PsalmEmit, PsalterInv

\* A subheading that waited is put down before the next verse.
LEMMA FlushedIs ==
    ASSUME PageRead, PsalterInv, current # NoUnit
    PROVE  /\ Flushed \in Builder /\ Flushed.head = current.head /\ Flushed.named = current.named
           /\ Counted(Flushed) = Counted(current)
           /\ HasPart(Flushed, {"verse"}) <=> HasPart(current, {"verse"})
<1> DEFINE s == current.text
           t == pending
           both == s \o t
<1>1. s \in Seq(Piece) /\ t \in Seq({"psday", "subheading"} \X Nat) /\ current \in Builder
  BY DEF PageRead, Builder, PsalterInv
<1>2. {"psday", "subheading"} \X Nat \subseteq Piece
  BY DEF Piece, Part
<1>3. t \in Seq(Piece)
  BY <1>1, <1>2
<1>4. both \in Seq(Piece) /\ ToSet(both) = ToSet(s) \cup ToSet(t)
  <2> HIDE DEF s, t
  <2> QED BY <1>1, <1>3, ToSetConcat
<1>5. Flushed \in Builder /\ Flushed.head = current.head /\ Flushed.named = current.named
      /\ Flushed.text = both
  <2> HIDE DEF both
  <2>1. Flushed = [current EXCEPT !.text = both]
    BY DEF Flushed, both
  <2> QED BY <2>1, <1>1, <1>4 DEF Builder
<1>6. \A p \in ToSet(t) : p[1] \in {"psday", "subheading"}
  BY <1>1 DEF ToSet
<1>7. \A unit : unit.text \in Seq(Piece) =>
         /\ Counted(unit) = {p \in ToSet(unit.text) : p[1] \notin Uncounted}
         /\ HasPart(unit, {"verse"}) <=> \E p \in ToSet(unit.text) : p[1] = "verse"
  BY DEF Counted, HasPart, ToSet
<1> HIDE DEF both, t
<1>8. Counted(Flushed) = {p \in ToSet(both) : p[1] \notin Uncounted}
      /\ Counted(current) = {p \in ToSet(s) : p[1] \notin Uncounted}
  BY <1>1, <1>4, <1>5, <1>7
<1>9. (HasPart(Flushed, {"verse"}) <=> \E p \in ToSet(both) : p[1] = "verse")
      /\ (HasPart(current, {"verse"}) <=> \E p \in ToSet(s) : p[1] = "verse")
  BY <1>1, <1>4, <1>5, <1>7
<1> HIDE DEF s
<1>10. Counted(Flushed) = Counted(current)
  BY <1>4, <1>6, <1>8 DEF Uncounted
<1>11. HasPart(Flushed, {"verse"}) <=> HasPart(current, {"verse"})
  BY <1>4, <1>6, <1>9
<1> QED BY <1>5, <1>10, <1>11

\* A day takes the place of the day before it or is added.
LEMMA WithDayIs ==
    ASSUME PageRead, NEW k \in Nat
    PROVE  /\ WithDay(current, k) \in Builder
           /\ WithDay(current, k).head = current.head /\ WithDay(current, k).named = current.named
           /\ Counted(WithDay(current, k)) = Counted(current)
           /\ HasPart(WithDay(current, k), {"verse"}) <=> HasPart(current, {"verse"})
<1> DEFINE old == {i \in BeforeNextVerse(current) : current.text[i][1] = "psday"}
           m == Min(old)
           day == <<"psday", k>>
           text == [current.text EXCEPT ![m] = day]
           unit == [current EXCEPT !.text = text]
<1>1. current \in Builder /\ current.text \in Seq(Piece) /\ day \in Piece /\ "psday" \in Part
      /\ "psday" \in Uncounted /\ "psday" # "verse"
  BY DEF PageRead, Builder, Piece, Part, Uncounted
<1>2. CASE old = {}
  <2>1. WithDay(current, k) = With(current, "psday", k)
    BY <1>2 DEF WithDay
  <2> DEFINE more == With(current, "psday", k)
  <2>2. /\ more \in Builder /\ more.head = current.head /\ more.named = current.named
        /\ Counted(more) = Counted(current) \cup (IF "psday" \in Uncounted THEN {} ELSE {<<"psday", k>>})
        /\ HasPart(more, {"verse"}) <=> HasPart(current, {"verse"}) \/ "psday" \in {"verse"}
    BY <1>1, WithIs
  <2> HIDE DEF more
  <2>3. Counted(more) = Counted(current) /\ (HasPart(more, {"verse"}) <=> HasPart(current, {"verse"}))
    BY <1>1, <2>2
  <2> QED BY <2>1, <2>2, <2>3 DEF more
<1>3. CASE old # {}
  <2>1. WithDay(current, k) = unit
    BY <1>3 DEF WithDay
  <2>2. old \in SUBSET (DOMAIN current.text) /\ \A i \in old : current.text[i][1] = "psday"
    BY DEF BeforeNextVerse
  <2> HIDE DEF old, day
  <2>3. DOMAIN current.text = 1 .. Len(current.text) /\ Len(current.text) \in Nat
    BY <1>1
  <2>4. old \in SUBSET Nat
    BY <2>2, <2>3
  <2>5. m \in DOMAIN current.text /\ current.text[m][1] = "psday"
    BY <1>3, <2>2, <2>4, MinIsThere
  <2> HIDE DEF m
  <2>6. text \in Seq(Piece) /\ DOMAIN text = DOMAIN current.text /\ text[m] = day
        /\ \A i \in DOMAIN current.text : i # m => text[i] = current.text[i]
    BY <1>1, <2>5
  <2> HIDE DEF text
  <2>7. unit \in Builder /\ unit.head = current.head /\ unit.named = current.named /\ unit.text = text
    BY <1>1, <2>6 DEF Builder
  <2> HIDE DEF unit
  <2>8. day[1] = "psday"
    BY DEF day
  <2>9. \A i \in DOMAIN text : text[i][1] = current.text[i][1]
    BY <2>5, <2>6, <2>8
  <2>10. \A i \in DOMAIN text : text[i][1] \notin Uncounted => text[i] = current.text[i]
    BY <1>1, <2>6, <2>8
  <2>11. Counted(unit) = Counted(current)
    BY <2>6, <2>7, <2>9, <2>10 DEF Counted
  <2>12. HasPart(unit, {"verse"}) <=> HasPart(current, {"verse"})
    BY <2>6, <2>7, <2>9 DEF HasPart
  <2>13. unit \in Builder /\ unit.head = current.head /\ unit.named = current.named
    BY <2>7
  <2> QED BY <2>1, <2>11, <2>12, <2>13
<1> QED BY <1>2, <1>3

\* The unit being built goes on as unit.
LEMMA PsalmGoesOn ==
    ASSUME PageRead, PsalterInv, ReadsOn, NEW unit \in Builder, current # NoUnit,
           current' = unit, unit.head = current.head, unit.named = current.named,
           Counted(current) \subseteq Counted(unit),
           \A p \in Counted(unit) \ Counted(current) : p[2] \in InHand,
           Counted(unit) = {} \/ HasPart(unit, {"verse"}),
           UNCHANGED <<page, section, results>>, pending' \in Seq({"psday", "subheading"} \X Nat)
    PROVE  PageRead' /\ Anthology!ReadOn /\ PsalterInv'
<1>1. Grown(current')
  BY DEF Grown
<1>2. page' \in Nat /\ section' \in Nat
  BY DEF PageRead
<1>3. PageRead' /\ Anthology!ReadOn
  BY <1>1, <1>2, GoOnStep
<1>4. HeadsPsalm(unit) /\ \A u \in ToSet(results) : HeadsPsalm(u)
  BY DEF PsalterInv, HeadsPsalm
<1>5. HeadsPsalm(current)' /\ \A u \in ToSet(results') : HeadsPsalm(u)'
  BY <1>4, HeadsStill DEF HeadsPsalm
<1> QED BY <1>3, <1>5 DEF PsalterInv

\* Nothing happens to the unit, or there is none.
LEMMA PsalmRests ==
    ASSUME PageRead, PsalterInv, ReadsOn, UNCHANGED <<current, page, section, results>>,
           pending' \in Seq({"psday", "subheading"} \X Nat)
    PROVE  PageRead' /\ Anthology!ReadOn /\ PsalterInv'
<1>1. current = NoUnit \/ Grown(current')
  BY SameIs DEF PageRead
<1>2. page' \in Nat /\ section' \in Nat
  BY DEF PageRead
<1>3. PageRead' /\ Anthology!ReadOn
  BY <1>1, <1>2, GoOnStep
<1>4. (current' # NoUnit => HeadsPsalm(current)') /\ \A u \in ToSet(results') : HeadsPsalm(u)'
  BY HeadsStill DEF HeadsPsalm, PsalterInv
<1> QED BY <1>3, <1>4 DEF PsalterInv

LEMMA PsalterKeep ==
    ASSUME PageRead, PsalterInv, PsalterNext
    PROVE  PageRead' /\ Anthology!ReadOn /\ PsalterInv' /\ UNCHANGED book
<1>1. at \in Nat /\ current \in Builder
  BY DEF PageRead
<1>2. ASSUME NEW n \in Nat, NEW part \in {"psday", "subheading"}
      PROVE  <<<<part, n>>>> \in Seq({"psday", "subheading"} \X Nat)
  BY <1>2
<1>3. CASE Skip({"skip"})
  <2>1. PageRead' /\ Anthology!ReadOn /\ UNCHANGED <<book, state, current, pending, results>> /\ ReadsOn
    BY <1>3, SkipIs, ReadsIs DEF Skip
  <2>2. (current' # NoUnit => HeadsPsalm(current)') /\ \A u \in ToSet(results') : HeadsPsalm(u)'
    BY <2>1, HeadsStill DEF HeadsPsalm, PsalterInv
  <2> QED BY <2>1, <2>2 DEF PsalterInv
<1>4. CASE PsalmStart
  <2>1. PICK k \in {"psalm_1", "psalm_2"} :
            /\ Reads(k)
            /\ results' = results \o PsalmEmit(current)
            /\ current' = IF current = NoUnit THEN [NewUnit EXCEPT !.text = pending] ELSE NewUnit
            /\ pending' = <<>>
            /\ UNCHANGED <<book, state, page, section>>
    BY <1>4 DEF PsalmStart
  <2>2. ReadsOn /\ InHand = {at} /\ at' = at + 1
    BY <2>1, ReadsIs
  <2>3. current' \in Builder /\ current'.head = at /\ Counted(current') = {}
    <3>1. CASE current' = NewUnit
      BY <3>1, NewUnitIs
    <3>2. CASE current' = [NewUnit EXCEPT !.text = pending]
      <4>1. pending \in Seq({"psday", "subheading"} \X Nat)
        BY DEF PsalterInv
      <4>2. pending \in Seq(Piece) /\ \A i \in DOMAIN pending : pending[i][1] \in Uncounted
        BY <4>1 DEF Piece, Part, Uncounted
      <4>3. current' \in Builder /\ current'.head = at /\ current'.text = pending
        BY <3>2, <4>2, NewUnitIs DEF Builder
      <4> QED BY <4>2, <4>3 DEF Counted
    <3> QED BY <2>1, <3>1, <3>2
  <2>4. Fresh(current') /\ page' \in Nat /\ section' \in Nat
    BY <2>1, <2>2, <2>3 DEF Fresh, PageRead
  <2>5. PageRead' /\ Anthology!ReadOn
    BY <2>1, <2>2, <2>4, PsalmCloses, BeginStep
  <2>6. HeadsPsalm(current)'
    <3>1. at <= Len(html') /\ html'[at] = k
      <4>1. CASE at <= Len(html) /\ html[at] = k /\ UNCHANGED html
        BY <4>1
      <4>2. CASE at > Len(html) /\ html' = Append(html, k)
        <5>1. PICK S : html \in Seq(S)
          BY DEF PageRead, IsSequence
        <5>2. at = Len(html) + 1
          BY <4>2, <5>1 DEF PageRead
        <5> QED BY <4>2, <5>1, <5>2
      <4> QED BY <2>1, <4>1, <4>2 DEF Reads
    <3>2. at \in 1 .. at' - 1
      BY <2>2 DEF PageRead
    <3> QED BY <2>3, <3>1, <3>2 DEF HeadsPsalm
  <2>7. \A u \in ToSet(results') : HeadsPsalm(u)'
    <3>1. results \in Seq(Builder) /\ PsalmEmit(current) \in Seq(Builder)
      BY PsalmCloses DEF PageRead, Closes
    <3>2. ToSet(results') = ToSet(results) \cup ToSet(PsalmEmit(current))
      BY <2>1, <3>1, ToSetConcat
    <3>3. \A u \in ToSet(PsalmEmit(current)) : u = current /\ current # NoUnit
      BY PsalmCloses, ToSetOne
    <3>4. \A u \in ToSet(results') : HeadsPsalm(u)
      BY <3>2, <3>3 DEF PsalterInv
    <3> QED BY <2>2, <3>4, HeadsStill DEF HeadsPsalm
  <2>8. pending' \in Seq({"psday", "subheading"} \X Nat)
    BY <2>1
  <2> QED BY <2>1, <2>3, <2>5, <2>6, <2>7, <2>8 DEF PsalterInv
<1>5. CASE Psday
  <2>1. /\ Reads("psday")
        /\ \/ current = NoUnit /\ pending' = <<<<"psday", at>>>> /\ UNCHANGED current
           \/ current # NoUnit /\ current' = WithDay(current, at) /\ UNCHANGED pending
        /\ UNCHANGED <<book, state, page, section, results>>
    BY <1>5 DEF Psday
  <2>2. ReadsOn
    BY <2>1, ReadsIs
  <2>3. pending' \in Seq({"psday", "subheading"} \X Nat)
    BY <2>1, <1>1, <1>2 DEF PsalterInv
  <2>4. CASE current = NoUnit
    BY <2>1, <2>2, <2>3, <2>4, PsalmRests
  <2>5. CASE current # NoUnit
    <3> DEFINE unit == WithDay(current, at)
    <3>1. /\ unit \in Builder /\ unit.head = current.head /\ unit.named = current.named
          /\ Counted(unit) = Counted(current) /\ (HasPart(unit, {"verse"}) <=> HasPart(current, {"verse"}))
      BY <1>1, WithDayIs
    <3>2. current' = unit
      BY <2>1, <2>5
    <3> HIDE DEF unit
    <3>3. Counted(unit) = {} \/ HasPart(unit, {"verse"})
      BY <3>1 DEF PsalterInv
    <3> QED BY <2>1, <2>2, <2>3, <2>5, <3>1, <3>2, <3>3, PsalmGoesOn
  <2> QED BY <2>4, <2>5
<1>6. CASE Subheading
  <2>1. /\ Reads("subheading")
        /\ \/ current = NoUnit /\ UNCHANGED <<current, pending>>
           \/ current # NoUnit /\ current' = Flushed /\ pending' = <<<<"subheading", at>>>>
        /\ UNCHANGED <<book, state, page, section, results>>
    BY <1>6 DEF Subheading
  <2>2. ReadsOn
    BY <2>1, ReadsIs
  <2>3. pending' \in Seq({"psday", "subheading"} \X Nat)
    BY <2>1, <1>1, <1>2 DEF PsalterInv
  <2>4. CASE current = NoUnit
    BY <2>1, <2>2, <2>3, <2>4, PsalmRests
  <2>5. CASE current # NoUnit
    <3>1. /\ Flushed \in Builder /\ Flushed.head = current.head /\ Flushed.named = current.named
          /\ Counted(Flushed) = Counted(current)
          /\ (HasPart(Flushed, {"verse"}) <=> HasPart(current, {"verse"}))
      BY <2>5, FlushedIs
    <3>2. current' = Flushed
      BY <2>1, <2>5
    <3>3. Counted(Flushed) = {} \/ HasPart(Flushed, {"verse"})
      BY <3>1 DEF PsalterInv
    <3> QED BY <2>1, <2>2, <2>3, <2>5, <3>1, <3>2, <3>3, PsalmGoesOn
  <2> QED BY <2>4, <2>5
<1>7. CASE Verse
  <2>1. PICK k \in {"verse", "blank_verse"} :
        /\ Reads(k)
        /\ \/ current = NoUnit /\ UNCHANGED <<current, pending>>
           \/ /\ current # NoUnit /\ pending' = <<>>
              /\ current' = IF k = "verse" THEN With(Flushed, "verse", at) ELSE Flushed
        /\ UNCHANGED <<book, state, page, section, results>>
    BY <1>7 DEF Verse
  <2>2. ReadsOn /\ InHand = {at}
    BY <2>1, ReadsIs
  <2>3. pending' \in Seq({"psday", "subheading"} \X Nat)
    <3>1. <<>> \in Seq({"psday", "subheading"} \X Nat)
      OBVIOUS
    <3>2. pending' = pending \/ pending' = <<>>
      BY <2>1
    <3>3. pending \in Seq({"psday", "subheading"} \X Nat)
      BY DEF PsalterInv
    <3> QED BY <3>1, <3>2, <3>3
  <2>4. CASE current = NoUnit
    BY <2>1, <2>2, <2>3, <2>4, PsalmRests
  <2>5. CASE current # NoUnit
    <3>1. /\ Flushed \in Builder /\ Flushed.head = current.head /\ Flushed.named = current.named
          /\ Counted(Flushed) = Counted(current)
          /\ (HasPart(Flushed, {"verse"}) <=> HasPart(current, {"verse"}))
      BY <2>5, FlushedIs
    <3>2. CASE k # "verse"
      <4>1. current' = Flushed
        BY <2>1, <2>5, <3>2
      <4>2. Counted(Flushed) = {} \/ HasPart(Flushed, {"verse"})
        BY <3>1 DEF PsalterInv
      <4> QED BY <2>1, <2>2, <2>3, <2>5, <3>1, <4>1, <4>2, PsalmGoesOn
    <3>3. CASE k = "verse"
      <4> DEFINE more == With(Flushed, "verse", at)
      <4>1. current' = more
        BY <2>1, <2>5, <3>3
      <4>2. "verse" \in Part /\ "verse" \notin Uncounted
        BY DEF Part, Uncounted
      <4>3. /\ more \in Builder /\ more.head = Flushed.head /\ more.named = Flushed.named
            /\ Counted(more) = Counted(Flushed) \cup {<<"verse", at>>} /\ HasPart(more, {"verse"})
        BY <1>1, <3>1, <4>2, WithIs
      <4>4. <<"verse", at>>[2] = at
        OBVIOUS
      <4> HIDE DEF more
      <4>5. \A p \in Counted(more) \ Counted(current) : p[2] \in InHand
        BY <2>2, <3>1, <4>3, <4>4
      <4>6. /\ more.head = current.head /\ more.named = current.named
            /\ Counted(current) \subseteq Counted(more) /\ HasPart(more, {"verse"})
        BY <3>1, <4>3
      <4> QED BY <2>1, <2>2, <2>3, <2>5, <4>1, <4>3, <4>5, <4>6, PsalmGoesOn
    <3> QED BY <3>2, <3>3
  <2> QED BY <2>4, <2>5
<1>8. CASE PsalterEnds
  <2> DEFINE units == results \o PsalmEmit(current)
             one == {i \in DOMAIN units : html[units[i].head] = "psalm_1"}
             two == {i \in DOMAIN units : html[units[i].head] = "psalm_2"}
             sorted == Selected(units, one) \o Selected(units, two)
  <2>1. results' = sorted /\ UNCHANGED <<book, html, at, page, section, pending>> /\ current' = NoUnit
    BY <1>8 DEF PsalterEnds, PageEnds, Numbered
  <2>2. results \in Seq(Builder) /\ PsalmEmit(current) \in Seq(Builder)
    BY PsalmCloses DEF PageRead, Closes
  <2>3. units \in Seq(Builder) /\ ToSet(units) = ToSet(results) \cup ToSet(PsalmEmit(current))
    BY <2>2, ToSetConcat
  <2>4. \A u \in ToSet(PsalmEmit(current)) : u = current /\ current # NoUnit
    BY PsalmCloses, ToSetOne
  <2>5. \A u \in ToSet(units) : HeadsPsalm(u)
    BY <2>3, <2>4 DEF PsalterInv
  <2> HIDE DEF units
  <2>6. one \in SUBSET (DOMAIN units) /\ two \in SUBSET (DOMAIN units)
    OBVIOUS
  <2>7. \A i \in DOMAIN units : i \in one \/ i \in two
    BY <2>5 DEF HeadsPsalm, ToSet
  <2> HIDE DEF one, two
  <2>8. /\ Selected(units, one) \in Seq(Builder) /\ Selected(units, two) \in Seq(Builder)
        /\ ToSet(Selected(units, one)) = {units[i] : i \in one}
        /\ ToSet(Selected(units, two)) = {units[i] : i \in two}
    BY <2>3, <2>6, SelectedIs
  <2>9. sorted \in Seq(Builder) /\ ToSet(sorted) = {units[i] : i \in one} \cup {units[i] : i \in two}
    BY <2>8, ToSetConcat
  <2> HIDE DEF sorted
  <2>10. ToSet(sorted) = ToSet(units)
    BY <2>6, <2>7, <2>9 DEF ToSet
  <2>11. ReadsOn /\ page' \in Nat /\ section' \in Nat
    BY <2>1 DEF ReadsOn, PageRead
  <2>12. PageRead' /\ Anthology!ReadOn
    BY <2>1, <2>3, <2>9, <2>10, <2>11, PsalmCloses, ReadStep DEF Closes
  <2>13. \A u \in ToSet(results') : HeadsPsalm(u)'
    BY <2>1, <2>5, <2>10 DEF HeadsPsalm
  <2>14. Counted(current') = {} /\ pending' \in Seq({"psday", "subheading"} \X Nat)
    BY <2>1, NewUnitIs DEF PsalterInv
  <2> QED BY <2>1, <2>12, <2>13, <2>14 DEF PsalterInv
<1> QED
  <2>1. UNCHANGED book
    BY DEF PsalterNext, Skip, PsalmStart, Psday, Subheading, Verse, PsalterEnds, PageEnds
  <2> QED BY <1>3, <1>4, <1>5, <1>6, <1>7, <1>8, <2>1 DEF PsalterNext

-----------------------------------------------------------------------------
(* The lives of the saints.                                                 *)

Collecting == {"in_name", "after_name", "rite_i", "after_rite_i", "rite_ii", "after_rite_ii", "lessons"}

\* lff_2024: what is no life comes with a name, and the states after the name of a
\* collect page have one.
LivesInv ==
    /\ Counted(current) = {} \/ HasPart(current, {"name"})
    /\ current # NoUnit =>
         /\ state \in {"bio", "before_name"} \cup Collecting
         /\ state \in Collecting => HasPart(current, {"name"})

LEMMA EntryIs ==
    ASSUME PageRead, current # NoUnit PROVE Emitted(EntryText(current))
<1> DEFINE s == current.text
           kept == {i \in DOMAIN s : ~(s[i][1] = "lessons" /\ IsDanglingOr(current, i))}
           text == Selected(s, kept)
           entry == [current EXCEPT !.text = text]
<1>1. EntryText(current) = entry
  BY DEF EntryText
<1>2. current \in Builder /\ s \in Seq(Piece) /\ kept \in SUBSET (DOMAIN s)
  BY DEF PageRead, Builder
<1>3. ASSUME NEW i \in DOMAIN s, i \notin kept PROVE html[s[i][2]] = "or"
  <2>1. s[i][1] = "lessons" /\ IsDanglingOr(current, i)
    BY <1>3
  <2>2. i \in i .. Len(s)
    BY <1>2, <1>3
  <2> QED BY <2>1, <2>2 DEF IsDanglingOr
<1> HIDE DEF kept, s
<1>4. text \in Seq(Piece) /\ ToSet(text) = {s[i] : i \in kept}
  BY <1>2, SelectedIs
<1> HIDE DEF text
<1>5. entry \in Builder /\ entry.head = current.head /\ entry.named = current.named /\ entry.text = text
  BY <1>2, <1>4 DEF Builder
<1> HIDE DEF entry
<1>6. \A unit : Counted(unit) = {p \in {unit.text[i] : i \in DOMAIN unit.text} : p[1] \notin Uncounted}
  BY DEF Counted
<1>7. Counted(entry) = {p \in {s[i] : i \in kept} : p[1] \notin Uncounted}
  <2>1. ToSet(text) = {text[i] : i \in DOMAIN text}
    BY <1>4 DEF ToSet
  <2> QED BY <1>4, <1>5, <1>6, <2>1
<1>8. Counted(current) = {p \in {s[i] : i \in DOMAIN s} : p[1] \notin Uncounted}
  BY <1>6 DEF s
<1>9. Counted(entry) \subseteq Counted(current)
  BY <1>2, <1>7, <1>8
<1>10. \A p \in Counted(current) \ Counted(entry) : html[p[2]] = "or"
  BY <1>3, <1>7, <1>8
<1> QED BY <1>1, <1>5, <1>9, <1>10 DEF Emitted

LEMMA FeastCloses ==
    ASSUME PageRead, LivesInv PROVE Closes(FeastEmit(current))
<1>1. CASE current = NoUnit \/ ~HasPart(current, {"name"})
  <2>1. FeastEmit(current) = <<>> /\ Counted(current) = {}
    BY <1>1, NewUnitIs DEF FeastEmit, LivesInv
  <2> QED BY <2>1, ClosesWithIt
<1>2. CASE current # NoUnit /\ HasPart(current, {"name"})
  <2>1. FeastEmit(current) = <<EntryText(current)>>
    BY <1>2 DEF FeastEmit
  <2>2. Emitted(EntryText(current)) /\ EntryText(current) \in Builder
    BY <1>2, EntryIs DEF Emitted
  <2> QED BY <2>1, <2>2, ToSetOne DEF Closes, Settled
<1> QED BY <1>1, <1>2

\* From state s the machine may go on to state t with a piece for part p.
Leads(s, p, t) ==
    /\ p \in Part \cup {""}
    /\ s = "bio" => t = "bio" /\ p \in {"bio", ""}
    /\ s = "before_name" => (p = "name" /\ t = "in_name") \/ (p = "" /\ t = "before_name")
    /\ s \in Collecting => t \in Collecting

LEMMA MoveIs ==
    ASSUME NEW s \in {"before_name"} \cup Collecting, NEW k
    PROVE  \E p, t : CollectSpan(s, k) = Move(p, t) /\ Leads(s, p, t)
<1> USE DEF Collecting
<1>1. ASSUME NEW lost
      PROVE  \E p \in {"", "rite_i", "rite_ii"}, t \in {"rite_i", "rite_ii", lost} :
                 RiteStarts(k, lost) = Move(p, t)
  <2>1. CASE k \in {"I", "I_text"}
    <3>1. CASE k = "I"
      <4>1. RiteStarts(k, lost) = Move("", "rite_i")
        BY <3>1 DEF RiteStarts, RiteII
      <4> QED BY <4>1
    <3>2. CASE k = "I_text"
      <4>1. RiteStarts(k, lost) = Move("rite_i", "rite_i")
        BY <3>2 DEF RiteStarts, RiteII
      <4> QED BY <4>1
    <3> QED BY <2>1, <3>1, <3>2
  <2>2. CASE k \in RiteII
    <3>1. RiteStarts(k, lost) = Move("rite_ii", "rite_ii") \/ RiteStarts(k, lost) = Move("", "rite_ii")
      BY <2>2 DEF RiteStarts, RiteII
    <3> QED BY <3>1
  <2>3. CASE k \notin {"I", "I_text"} \cup RiteII
    BY <2>3 DEF RiteStarts
  <2> QED BY <2>1, <2>2, <2>3
<1>2. CASE s = "before_name"
  <2>1. \/ CollectSpan(s, k) = Move("name", "in_name")
        \/ CollectSpan(s, k) = Move("", "before_name")
    BY <1>2 DEF CollectSpan
  <2>2. CASE CollectSpan(s, k) = Move("name", "in_name")
    BY <1>2, <2>2 DEF Leads, Part
  <2>3. CASE CollectSpan(s, k) = Move("", "before_name")
    BY <1>2, <2>3 DEF Leads, Part
  <2> QED BY <2>1, <2>2, <2>3
<1>3. CASE s = "in_name"
  <2>1. \/ CollectSpan(s, k) = Move("name", "in_name")
        \/ CollectSpan(s, k) = Move("subtitle", "after_name")
        \/ CollectSpan(s, k) = RiteStarts(k, "in_name")
        \/ CollectSpan(s, k) = Move("", "after_name")
    BY <1>3 DEF CollectSpan
  <2>2. CASE CollectSpan(s, k) = Move("name", "in_name")
    BY <1>3, <2>2 DEF Leads, Part
  <2>3. CASE CollectSpan(s, k) = Move("subtitle", "after_name")
    BY <1>3, <2>3 DEF Leads, Part
  <2>4. CASE CollectSpan(s, k) = RiteStarts(k, "in_name")
    BY <1>1, <1>3, <2>4 DEF Leads, Part
  <2>5. CASE CollectSpan(s, k) = Move("", "after_name")
    BY <1>3, <2>5 DEF Leads, Part
  <2> QED BY <2>1, <2>2, <2>3, <2>4, <2>5
<1>4. CASE s = "after_name"
  <2>1. CollectSpan(s, k) = RiteStarts(k, "after_name")
    BY <1>4 DEF CollectSpan
  <2> QED BY <1>1, <1>4, <2>1 DEF Leads, Part
<1>5. CASE s = "rite_i"
  <2>1. \/ CollectSpan(s, k) = Move("rite_i", "after_rite_i")
        \/ CollectSpan(s, k) = RiteStarts(k, "rite_i")
        \/ CollectSpan(s, k) = Move("rite_i", "rite_i")
        \/ CollectSpan(s, k) = Move("", "rite_i")
    BY <1>5 DEF CollectSpan
  <2>2. CASE CollectSpan(s, k) = Move("rite_i", "after_rite_i")
    BY <1>5, <2>2 DEF Leads, Part
  <2>3. CASE CollectSpan(s, k) = RiteStarts(k, "rite_i")
    BY <1>1, <1>5, <2>3 DEF Leads, Part
  <2>4. CASE CollectSpan(s, k) = Move("rite_i", "rite_i")
    BY <1>5, <2>4 DEF Leads, Part
  <2>5. CASE CollectSpan(s, k) = Move("", "rite_i")
    BY <1>5, <2>5 DEF Leads, Part
  <2> QED BY <2>1, <2>2, <2>3, <2>4, <2>5
<1>6. CASE s = "after_rite_i"
  <2>1. \/ CollectSpan(s, k) = RiteStarts(k, "after_rite_i")
        \/ CollectSpan(s, k) = Move("", "after_rite_i")
    BY <1>6 DEF CollectSpan
  <2>2. CASE CollectSpan(s, k) = RiteStarts(k, "after_rite_i")
    BY <1>1, <1>6, <2>2 DEF Leads, Part
  <2>3. CASE CollectSpan(s, k) = Move("", "after_rite_i")
    BY <1>6, <2>3 DEF Leads, Part
  <2> QED BY <2>1, <2>2, <2>3
<1>7. CASE s = "rite_ii"
  <2>1. \/ CollectSpan(s, k) = Move("rite_ii", "after_rite_ii")
        \/ CollectSpan(s, k) = Move("rite_ii", "rite_ii")
        \/ CollectSpan(s, k) = Move("", "lessons")
        \/ CollectSpan(s, k) = Move("", "rite_ii")
    BY <1>7 DEF CollectSpan
  <2>2. CASE CollectSpan(s, k) = Move("rite_ii", "after_rite_ii")
    BY <1>7, <2>2 DEF Leads, Part
  <2>3. CASE CollectSpan(s, k) = Move("rite_ii", "rite_ii")
    BY <1>7, <2>3 DEF Leads, Part
  <2>4. CASE CollectSpan(s, k) = Move("", "lessons")
    BY <1>7, <2>4 DEF Leads, Part
  <2>5. CASE CollectSpan(s, k) = Move("", "rite_ii")
    BY <1>7, <2>5 DEF Leads, Part
  <2> QED BY <2>1, <2>2, <2>3, <2>4, <2>5
<1>8. CASE s = "after_rite_ii"
  <2>1. \/ CollectSpan(s, k) = Move("", "lessons")
        \/ CollectSpan(s, k) = Move("", "after_rite_ii")
    BY <1>8 DEF CollectSpan
  <2>2. CASE CollectSpan(s, k) = Move("", "lessons")
    BY <1>8, <2>2 DEF Leads, Part
  <2>3. CASE CollectSpan(s, k) = Move("", "after_rite_ii")
    BY <1>8, <2>3 DEF Leads, Part
  <2> QED BY <2>1, <2>2, <2>3
<1>9. CASE s = "lessons"
  <2>1. \/ CollectSpan(s, k) = Move("preface", "lessons")
        \/ CollectSpan(s, k) = Move("lessons", "lessons")
        \/ CollectSpan(s, k) = Move("", "lessons")
    BY <1>9 DEF CollectSpan
  <2>2. CASE CollectSpan(s, k) = Move("preface", "lessons")
    BY <1>9, <2>2 DEF Leads, Part
  <2>3. CASE CollectSpan(s, k) = Move("lessons", "lessons")
    BY <1>9, <2>3 DEF Leads, Part
  <2>4. CASE CollectSpan(s, k) = Move("", "lessons")
    BY <1>9, <2>4 DEF Leads, Part
  <2> QED BY <2>1, <2>2, <2>3, <2>4
<1> QED BY <1>2, <1>3, <1>4, <1>5, <1>6, <1>7, <1>8, <1>9

LEMMA LivesKeep ==
    ASSUME PageRead, LivesInv, FeastsNext
    PROVE  PageRead' /\ Anthology!ReadOn /\ LivesInv' /\ UNCHANGED book
<1>1. at \in Nat /\ current \in Builder /\ page \in Nat /\ section \in Nat
  BY DEF PageRead
<1>2. CASE FeastPage
  <2>1. PICK k \in FeastPages :
            /\ PageIsOver /\ Reads(k) /\ page' = at
            /\ state' = IF k = "bio_page" THEN "bio" ELSE "before_name"
            /\ IF state = "bio"
                 THEN UNCHANGED <<current, results>>
                 ELSE /\ results' = results \o FeastEmit(current)
                      /\ current' = [NewUnit EXCEPT !.page = at]
            /\ UNCHANGED <<book, section, pending>>
    BY <1>2 DEF FeastPage
  <2>2. ReadsOn /\ InHand = {at} /\ page' \in Nat /\ section' \in Nat /\ state' \in {"bio", "before_name"}
    BY <1>1, <2>1, ReadsIs
  <2>3. CASE state = "bio"
    <3>1. UNCHANGED <<current, results>>
      BY <2>1, <2>3
    <3>2. current = NoUnit \/ Grown(current')
      BY <1>1, <3>1, SameIs
    <3>3. PageRead' /\ Anthology!ReadOn
      BY <2>2, <3>1, <3>2, GoOnStep
    <3> QED BY <2>1, <2>2, <3>1, <3>3 DEF LivesInv, Collecting
  <2>4. CASE state # "bio"
    <3> DEFINE unit == [NewUnit EXCEPT !.page = at]
    <3>1. unit \in Builder /\ unit.head = at /\ unit.text = <<>>
      BY <1>1, NewUnitIs DEF Builder
    <3>2. current' = unit /\ results' = results \o FeastEmit(current)
      BY <2>1, <2>4
    <3> HIDE DEF unit
    <3>3. Fresh(unit) /\ Counted(unit) = {}
      BY <2>2, <3>1, FreshIs
    <3>4. PageRead' /\ Anthology!ReadOn
      BY <2>2, <3>2, <3>3, FeastCloses, BeginStep
    <3>5. Counted(current') = {}
      BY <3>2, <3>3
    <3> QED BY <2>1, <2>2, <3>4, <3>5 DEF LivesInv, Collecting
  <2> QED BY <2>3, <2>4
<1>3. CASE FeastSpan
  <2>1. PICK k \in Spans :
            /\ current # NoUnit /\ Reads(k)
            /\ section' = IF k = "date" /\ FirstDateOfPage THEN at ELSE section
            /\ LET move == IF state = "bio" THEN BioSpan(state, k) ELSE CollectSpan(state, k)
                   dated == IF section' # section THEN Dated(current) ELSE current
               IN  /\ state' = move.state
                   /\ current' = IF move.part = "" THEN dated ELSE With(dated, move.part, at)
            /\ UNCHANGED <<book, page, pending, results>>
    BY <1>3 DEF FeastSpan
  <2>2. ReadsOn /\ InHand = {at} /\ page' \in Nat /\ section' \in Nat
    BY <1>1, <2>1, ReadsIs
  <2>3. state \in {"bio", "before_name"} \cup Collecting
    BY <2>1 DEF LivesInv
  <2>4. PICK part, to :
            /\ (IF state = "bio" THEN BioSpan(state, k) ELSE CollectSpan(state, k)) = Move(part, to)
            /\ Leads(state, part, to)
    <3>1. CASE state = "bio"
      <4>1. BioSpan(state, k) = Move("bio", "bio") \/ BioSpan(state, k) = Move("", "bio")
        BY <3>1 DEF BioSpan
      <4>2. Leads("bio", "bio", "bio") /\ Leads("bio", "", "bio")
        BY DEF Leads, Part, Collecting
      <4> QED BY <3>1, <4>1, <4>2
    <3>2. CASE state # "bio"
      BY <2>3, <3>2, MoveIs
    <3> QED BY <3>1, <3>2
  <2>5. PICK dated : dated = IF section' # section THEN Dated(current) ELSE current
    OBVIOUS
  <2>6. state' = to /\ current' = IF part = "" THEN dated ELSE With(dated, part, at)
    <3>1. Move(part, to).state = to /\ Move(part, to).part = part
      BY DEF Move
    <3> QED BY <2>1, <2>4, <2>5, <3>1
  <2>7. /\ dated \in Builder /\ dated.head = current.head /\ dated.named = current.named
        /\ dated.text = current.text
    <3>1. dated = current \/ dated = [current EXCEPT !.section = section']
      BY <2>5 DEF Dated
    <3> QED BY <1>1, <2>2, <3>1 DEF Builder
  <2>8. Counted(dated) = Counted(current) /\ \A parts : HasPart(dated, parts) <=> HasPart(current, parts)
    BY <2>7, SameText
  <2>9. /\ part \in Part \cup {""}
        /\ state = "bio" => state' = "bio" /\ part \in {"bio", ""}
        /\ state = "before_name" => \/ part = "name" /\ state' \in Collecting
                                    \/ part = "" /\ state' = "before_name"
        /\ state \in Collecting => state' \in Collecting
    BY <2>4, <2>6 DEF Leads, Collecting
  <2>10. state' \in {"bio", "before_name"} \cup Collecting
    BY <2>3, <2>9
  <2>11. CASE part = ""
    <3>1. current' = dated
      BY <2>6, <2>11
    <3>2. Grown(current')
      BY <2>1, <2>7, <2>8, <3>1, SameIs
    <3>3. PageRead' /\ Anthology!ReadOn
      BY <2>1, <2>2, <3>2, GoOnStep
    <3>4. Counted(current') = {} \/ HasPart(current', {"name"})
      BY <2>8, <3>1 DEF LivesInv
    <3>5. state' \in Collecting => HasPart(current', {"name"})
      BY <2>1, <2>6, <2>8, <2>3, <2>9, <2>11, <3>1 DEF LivesInv
    <3> QED BY <2>1, <2>10, <3>3, <3>4, <3>5 DEF LivesInv
  <2>12. CASE part # ""
    <3>1. current' = With(dated, part, at) /\ part \in Part
      BY <2>6, <2>9, <2>12
    <3>2. /\ current' \in Builder /\ current'.head = dated.head /\ current'.named = dated.named
          /\ Counted(current') = Counted(dated) \cup
               (IF part \in Uncounted THEN {} ELSE {<<part, at>>})
          /\ \A parts : HasPart(current', parts) <=> HasPart(dated, parts) \/ part \in parts
      BY <1>1, <2>7, <3>1, WithIs
    <3>3. <<part, at>>[2] = at
      OBVIOUS
    <3>4. \A p \in Counted(current') \ Counted(current) : p[2] \in InHand
      BY <2>2, <2>8, <3>2, <3>3
    <3>5. Grown(current')
      BY <2>1, <2>7, <2>8, <3>2, <3>4 DEF Grown
    <3>6. PageRead' /\ Anthology!ReadOn
      BY <2>1, <2>2, <3>5, GoOnStep
    <3>7. HasPart(current', {"name"}) <=> HasPart(current, {"name"}) \/ part = "name"
      BY <2>8, <3>2
    <3>8. Counted(current') = {} \/ HasPart(current', {"name"})
      <4>1. CASE HasPart(current, {"name"}) \/ part = "name"
        BY <3>7, <4>1
      <4>2. CASE ~HasPart(current, {"name"}) /\ part # "name"
        <5>1. state = "bio" /\ part = "bio" /\ Counted(current) = {}
          BY <2>1, <2>3, <2>9, <2>12, <4>2 DEF LivesInv
        <5> QED BY <5>1, <2>8, <3>2 DEF Uncounted
      <4> QED BY <4>1, <4>2
    <3>9. state' \in Collecting => HasPart(current', {"name"})
      BY <2>1, <2>6, <2>3, <2>9, <3>7 DEF LivesInv
    <3> QED BY <2>1, <2>10, <3>6, <3>8, <3>9 DEF LivesInv
  <2> QED BY <2>11, <2>12
<1>4. CASE FeastsEnd
  <2>1. PageRead' /\ Anthology!ReadOn /\ UNCHANGED book /\ state' = "done" /\ current' = NoUnit
    BY <1>4, FeastCloses, PageIsRead DEF FeastsEnd
  <2> QED BY <2>1, NewUnitIs DEF LivesInv
<1> QED BY <1>2, <1>3, <1>4 DEF FeastsNext

-----------------------------------------------------------------------------
(* All six parsers.                                                         *)

BookInv ==
    /\ PageRead
    /\ book = "collects" => CollectsInv
    /\ book = "psalter" => PsalterInv
    /\ book = "proper_liturgies" => ProperInv
    /\ book = "prayers" => PrayersInv
    /\ book = "lff_2024" => LivesInv

LEMMA BookInitially == BookInit => BookInv /\ Anthology!AnthologyInit
<1> SUFFICES ASSUME BookInit PROVE BookInv /\ Anthology!AnthologyInit
  OBVIOUS
<1>1. html \in Seq(ToSet(html)) /\ at = 1 /\ current = NoUnit /\ page = 0 /\ section = 0
      /\ pending = <<>> /\ results = <<>>
  BY BooksAssumption DEF BookInit
<1>2. IsSequence(html) /\ Len(html) \in Nat
  BY <1>1 DEF IsSequence
<1>3. /\ NoUnit \in Builder /\ Counted(NoUnit) = {}
      /\ <<>> \in Seq(Builder) /\ <<>> \in Seq(Nat) /\ <<>> \in Seq({"psday", "subheading"} \X Nat)
  <2>1. NoUnit.text = <<>> /\ NoUnit \in Builder
    BY DEF NoUnit, Builder
  <2> QED BY <2>1, NoText
<1>4. ToSet(<<>>) = {}
  BY ToSetOne
<1>5. PageRead
  BY <1>1, <1>2, <1>3, <1>4 DEF PageRead, InRange
<1>6. BookInv
  BY <1>1, <1>3, <1>4, <1>5 DEF BookInv, CollectsInv, PsalterInv, ProperInv, PrayersInv, LivesInv
<1>7. Anthology!AnthologyInit
  <2>1. Shelved(current) = [head |-> 0, text |-> {}]
    BY <1>1 DEF Shelved, NoUnit
  <2>2. {Shelved(unit) : unit \in ToSet(results)} = {}
    BY <1>1, <1>4
  <2>3. at - 1 = 0
    BY <1>1
  <2> QED BY <2>1, <2>2, <2>3 DEF Anthology!AnthologyInit
<1> QED BY <1>6, <1>7

LEMMA ParserStep ==
    BookInv /\ [ParserNext]_bookVars =>
        BookInv' /\ [Anthology!ReadOn]_<<at - 1, Shelved(current), {Shelved(unit) : unit \in ToSet(results)}>>
<1>1. ASSUME BookInv, ParserNext PROVE BookInv' /\ Anthology!ReadOn
  <2>1. PageRead
    BY <1>1 DEF BookInv
  <2>2. CASE book \in Offices /\ OfficeNext
    <3>1. PageRead' /\ Anthology!ReadOn /\ UNCHANGED book
      BY <2>1, <2>2, OfficeKeep
    <3> QED BY <2>2, <3>1 DEF BookInv, Offices
  <2>3. CASE book = "collects" /\ CollectsNext
    <3>1. PageRead' /\ Anthology!ReadOn /\ CollectsInv' /\ UNCHANGED book
      BY <1>1, <2>1, <2>3, CollectsKeep DEF BookInv
    <3> QED BY <2>3, <3>1 DEF BookInv
  <2>4. CASE book = "psalter" /\ PsalterNext
    <3>1. PageRead' /\ Anthology!ReadOn /\ PsalterInv' /\ UNCHANGED book
      BY <1>1, <2>1, <2>4, PsalterKeep DEF BookInv
    <3> QED BY <2>4, <3>1 DEF BookInv
  <2>5. CASE book = "proper_liturgies" /\ ProperNext
    <3>1. PageRead' /\ Anthology!ReadOn /\ ProperInv' /\ UNCHANGED book
      BY <1>1, <2>1, <2>5, ProperKeep DEF BookInv
    <3> QED BY <2>5, <3>1 DEF BookInv
  <2>6. CASE book = "prayers" /\ PrayersNext
    <3>1. PageRead' /\ Anthology!ReadOn /\ PrayersInv' /\ UNCHANGED book
      BY <1>1, <2>1, <2>6, PrayersKeep DEF BookInv
    <3> QED BY <2>6, <3>1 DEF BookInv
  <2>7. CASE book = "lff_2024" /\ FeastsNext
    <3>1. PageRead' /\ Anthology!ReadOn /\ LivesInv' /\ UNCHANGED book
      BY <1>1, <2>1, <2>7, LivesKeep DEF BookInv
    <3> QED BY <2>7, <3>1 DEF BookInv
  <2> QED BY <1>1, <2>2, <2>3, <2>4, <2>5, <2>6, <2>7 DEF ParserNext
<1>2. ASSUME BookInv, UNCHANGED bookVars
      PROVE  BookInv' /\ UNCHANGED <<at - 1, Shelved(current), {Shelved(unit) : unit \in ToSet(results)}>>
  <2>1. UNCHANGED <<book, html, at, state, current, page, section, pending, results>>
    BY <1>2 DEF bookVars
  <2>2. BookInv'
    BY <1>2, <2>1 DEF BookInv, PageRead, InRange, CollectsInv, PsalterInv, HeadsPsalm, ProperInv,
                      PrayersInv, LivesInv
  <2>3. UNCHANGED <<at - 1, Shelved(current), {Shelved(unit) : unit \in ToSet(results)}>>
    BY <2>1 DEF Shelved, OwnText
  <2> QED BY <2>2, <2>3
<1> QED BY <1>1, <1>2

\* ImplementsAnthology, for every page of every book: whatever a parser reads later
\* leaves the units it has finished as they are, it adds to the unit at hand nothing
\* but what it reads, and throws away none that holds a text.
THEOREM ParsersKeepPromise == ParserSpec => ImplementsAnthology
BY BookInitially, ParserStep, PTL DEF ParserSpec, ImplementsAnthology, Anthology!AnthologySpec
=============================================================================
