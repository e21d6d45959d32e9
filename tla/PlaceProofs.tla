---------------------------- MODULE PlaceProofs ----------------------------
(***************************************************************************)
(* Every text in its place and none lost, for pages of any length: the     *)
(* six parsers of LiturgicalParsers, one after the other.                  *)
(*                                                                         *)
(* The properties look back over the page from a piece of text to its      *)
(* heading, marker, label or date; the parsers only know what they keep in *)
(* current, page, section, pending and state. The invariant of each parser *)
(* (CollectsPlaced, PrayersPlaced, PsalterPlaced, ProperPlaced,            *)
(* OfficePlaced, LivesPlaced) says what these variables tell of the        *)
(* elements before at. A step reads one element or, in the office, a       *)
(* season with its sentence; what is read before it stays as it is, so     *)
(* that all there is to show is where the new element goes.                *)
(***************************************************************************)
EXTENDS ParserProofs

-----------------------------------------------------------------------------
(* The last of a set of elements up to one of them, and what a unit is made of. *)

\* The last member of S up to k, or 0.
LatestIn(S, k) == LET seen == {j \in 1 .. k : j \in S} IN IF seen = {} THEN 0 ELSE Max(seen)

\* What LatestIn is: a member of S, if not 0, and none up to k is later.
LEMMA LatestIs ==
    ASSUME NEW S, NEW k \in Nat
    PROVE  /\ LatestIn(S, k) \in 0 .. k
           /\ LatestIn(S, k) # 0 => LatestIn(S, k) \in S
           /\ \A j \in 1 .. k : j \in S => LatestIn(S, k) # 0 /\ j <= LatestIn(S, k)
<1> DEFINE seen == {j \in 1 .. k : j \in S}
<1>1. LatestIn(S, k) = IF seen = {} THEN 0 ELSE Max(seen)
  BY DEF LatestIn
<1>2. seen \in SUBSET (1 .. k) /\ \A j \in 1 .. k : j \in S <=> j \in seen
  OBVIOUS
<1> HIDE DEF seen
<1>3. seen # {} => Max(seen) \in seen /\ \A y \in seen : y <= Max(seen)
  BY <1>2, MaxIsThere
<1>4. CASE seen = {}
  BY <1>1, <1>2, <1>4
<1>5. CASE seen # {}
  <2>1. LatestIn(S, k) = Max(seen) /\ Max(seen) \in seen /\ \A y \in seen : y <= Max(seen)
    BY <1>1, <1>3, <1>5
  <2>2. Max(seen) \in 1 .. k /\ Max(seen) \in S
    BY <1>2, <2>1
  <2> QED BY <1>2, <2>1, <2>2
<1> QED BY <1>4, <1>5

\* It depends on the elements up to k only.
LEMMA LatestSame ==
    ASSUME NEW S, NEW R, NEW k, \A j \in 1 .. k : j \in S <=> j \in R
    PROVE  LatestIn(S, k) = LatestIn(R, k)
<1>1. {j \in 1 .. k : j \in S} = {j \in 1 .. k : j \in R}
  OBVIOUS
<1> QED BY <1>1 DEF LatestIn

\* Whatever is like that is LatestIn.
LEMMA LatestUnique ==
    ASSUME NEW S, NEW k \in Nat, NEW x \in 0 .. k, x # 0 => x \in S,
           \A j \in 1 .. k : j \in S => j <= x
    PROVE  LatestIn(S, k) = x
<1>1. /\ LatestIn(S, k) \in 0 .. k
      /\ LatestIn(S, k) # 0 => LatestIn(S, k) \in S
      /\ \A j \in 1 .. k : j \in S => LatestIn(S, k) # 0 /\ j <= LatestIn(S, k)
  BY LatestIs
<1>2. LatestIn(S, k) # 0 => LatestIn(S, k) <= x
  BY <1>1
<1>3. x # 0 => x <= LatestIn(S, k)
  BY <1>1
<1> QED BY <1>1, <1>2, <1>3

\* At an element of S it is that element.
LEMMA LatestHere ==
    ASSUME NEW S, NEW k \in Nat \ {0}, k \in S
    PROVE  LatestIn(S, k) = k
BY LatestUnique

\* It stays what it is past elements that are not in S.
LEMMA LatestOn ==
    ASSUME NEW S, NEW n \in Nat, NEW k \in Nat, n <= k, \A j \in n + 1 .. k : j \notin S
    PROVE  LatestIn(S, k) = LatestIn(S, n)
<1>1. /\ LatestIn(S, n) \in 0 .. n
      /\ LatestIn(S, n) # 0 => LatestIn(S, n) \in S
      /\ \A j \in 1 .. n : j \in S => j <= LatestIn(S, n)
  BY LatestIs
<1>2. \A j \in 1 .. k : j \in S => j \in 1 .. n
  OBVIOUS
<1>3. LatestIn(S, n) \in 0 .. k
  BY <1>1
<1> DEFINE x == LatestIn(S, n)
<1> HIDE DEF x
<1>4. LatestIn(S, k) = x
  <2>1. x \in 0 .. k /\ (x # 0 => x \in S) /\ \A j \in 1 .. k : j \in S => j <= x
    BY <1>1, <1>2, <1>3 DEF x
  <2> QED BY <2>1, LatestUnique
<1> QED BY <1>4 DEF x

-----------------------------------------------------------------------------
\* What a unit consists of, and its text: all but the day and the number.
Pieces(unit) == {unit.text[i] : i \in DOMAIN unit.text}
Unplaced == {"psday", "number"}
Texts(unit) == {p[2] : p \in {q \in Pieces(unit) : q[1] \notin Unplaced}}

\* HasPart and Texts, by pieces.
LEMMA PartsArePieces ==
    ASSUME NEW unit
    PROVE  /\ \A parts : HasPart(unit, parts) <=> \E p \in Pieces(unit) : p[1] \in parts
           /\ \A k : k \in Texts(unit) <=> \E p \in Pieces(unit) : p[1] \notin Unplaced /\ p[2] = k
BY DEF HasPart, Pieces, Texts

\* A piece is added.
LEMMA PiecesWith ==
    ASSUME NEW unit \in Builder, NEW part \in Part, NEW k \in Nat
    PROVE  /\ Pieces(With(unit, part, k)) = Pieces(unit) \cup {<<part, k>>}
           /\ With(unit, part, k).page = unit.page /\ With(unit, part, k).section = unit.section
           /\ Texts(With(unit, part, k)) = Texts(unit) \cup (IF part \in Unplaced THEN {} ELSE {k})
<1> DEFINE more == With(unit, part, k)
           n == Len(unit.text)
<1>1. more = [unit EXCEPT !.text = Append(unit.text, <<part, k>>)]
  BY DEF With
<1>2. unit.text \in Seq(Piece) /\ <<part, k>> \in Piece
  BY DEF Builder, Piece
<1>3. Append(unit.text, <<part, k>>) \in Seq(Piece)
  BY <1>2
<1>4. /\ more.page = unit.page /\ more.section = unit.section
      /\ more.text = Append(unit.text, <<part, k>>)
  BY <1>1, <1>3 DEF Builder
<1>5. /\ n \in Nat /\ DOMAIN unit.text = 1 .. n /\ DOMAIN more.text = 1 .. n + 1
      /\ more.text[n + 1] = <<part, k>> /\ \A i \in 1 .. n : more.text[i] = unit.text[i]
  BY <1>4, <1>2
<1>6. 1 .. n + 1 = (1 .. n) \cup {n + 1}
  BY <1>5
<1> HIDE DEF more, n
<1>7. Pieces(more) = Pieces(unit) \cup {<<part, k>>}
  BY <1>5, <1>6 DEF Pieces
<1>8. <<part, k>>[1] = part /\ <<part, k>>[2] = k
  OBVIOUS
<1>9. Texts(more) = Texts(unit) \cup (IF part \in Unplaced THEN {} ELSE {k})
  BY <1>7, <1>8 DEF Texts
<1> QED BY <1>4, <1>7, <1>9 DEF more

\* A unit without text has no pieces.
LEMMA NoPieces ==
    ASSUME NEW unit, unit.text = <<>>
    PROVE  Pieces(unit) = {} /\ Texts(unit) = {} /\ \A parts : ~HasPart(unit, parts)
BY DEF Pieces, Texts, HasPart

-----------------------------------------------------------------------------
(* What stands under a heading is kept under it.                            *)

\* A unit that has nothing but what stands under its heading, when 1 .. n is read
\* and S are the headings.
Under(n, S, unit) ==
    /\ ~HasPart(unit, {"number"}) /\ unit.head \in 1 .. n
    /\ \A k \in Texts(unit) : k \in 1 .. n /\ LatestIn(S, k) = unit.head

\* The texts T under the heading at hand are in the unit at hand, those under the
\* headings W in a unit emitted.
Kept(n, S, T, W, unit, units) ==
    /\ \A u \in units : Under(n, S, u)
    /\ unit # NoUnit => /\ Under(n, S, unit) /\ unit.head = LatestIn(S, n)
                        /\ \A k \in T : LatestIn(S, k) = unit.head => k \in Texts(unit)
    /\ \A k \in T : LatestIn(S, k) \notin {0, unit.head} /\ LatestIn(S, k) \in W =>
          \E u \in units : u.head = LatestIn(S, k) /\ k \in Texts(u)

\* What stands under its heading does so whatever is read next.
LEMMA UnderStill ==
    ASSUME NEW n \in Nat, NEW m \in Nat, n <= m, NEW S, NEW R,
           \A j \in 1 .. n : j \in S <=> j \in R, NEW unit, Under(n, S, unit)
    PROVE  Under(m, R, unit)
<1>1. \A k \in 1 .. n : LatestIn(R, k) = LatestIn(S, k)
  <2>1. SUFFICES ASSUME NEW k \in 1 .. n PROVE LatestIn(R, k) = LatestIn(S, k)
    OBVIOUS
  <2>2. \A j \in 1 .. k : j \in S <=> j \in R
    OBVIOUS
  <2> QED BY <2>2, LatestSame
<1>2. \A k \in 1 .. n : k \in 1 .. m
  OBVIOUS
<1> QED BY <1>1, <1>2 DEF Under

\* One more element, no heading: the unit at hand takes it, or there is none.
LEMMA KeptOn ==
    ASSUME NEW n \in Nat, NEW S \in SUBSET (1 .. n), NEW T \in SUBSET (1 .. n), NEW W,
           NEW unit, NEW unit2, NEW units, Kept(n, S, T, W, unit, units),
           NEW T2, \A k \in T2 : k \in T \/ k = n + 1,
           NEW W2, \A h \in W2 : h \in W \/ h \in {0, unit.head},
           \/ /\ unit = NoUnit /\ unit2 = NoUnit
              /\ n + 1 \in T2 => LatestIn(S, n) = 0
           \/ /\ unit # NoUnit /\ unit2 # NoUnit /\ unit2.head = unit.head
              /\ ~HasPart(unit2, {"number"})
              /\ \A k \in Texts(unit) : k \in Texts(unit2)
              /\ \A k \in Texts(unit2) :
                    k \in Texts(unit) \/ k = n + 1 \/ (k \in 1 .. n /\ LatestIn(S, k) = unit.head)
              /\ n + 1 \in T2 => n + 1 \in Texts(unit2)
    PROVE  Kept(n + 1, S, T2, W2, unit2, units)
<1>1. n + 1 \in Nat /\ n <= n + 1 /\ \A j \in n + 1 .. n + 1 : j \notin S
  OBVIOUS
<1>2. LatestIn(S, n + 1) = LatestIn(S, n)
  BY <1>1, LatestOn
<1>3. unit2.head = unit.head
  OBVIOUS
<1>4. \A u : Under(n, S, u) => Under(n + 1, S, u)
  BY <1>1, UnderStill
<1>5. NoUnit.head = 0
  BY DEF NoUnit
<1>6. unit # NoUnit => unit.head = LatestIn(S, n) /\ Under(n, S, unit)
  BY DEF Kept
<1>7. \A k \in T2 : k \in T \/ k = n + 1
  OBVIOUS
<1>8. unit2 # NoUnit => Under(n + 1, S, unit2)
  <2>1. SUFFICES ASSUME unit2 # NoUnit PROVE Under(n + 1, S, unit2)
    OBVIOUS
  <2>2. unit # NoUnit /\ unit.head \in 1 .. n /\ \A k \in Texts(unit) : k \in 1 .. n /\ LatestIn(S, k) = unit.head
    BY <2>1, <1>6 DEF Under
  <2>3. \A k \in 1 .. n : k \in 1 .. n + 1
    OBVIOUS
  <2>4. n + 1 \in 1 .. n + 1
    OBVIOUS
  <2> QED BY <2>1, <2>2, <2>3, <2>4, <1>2, <1>3, <1>6 DEF Under
<1>9. unit2 # NoUnit => \A k \in T2 : LatestIn(S, k) = unit2.head => k \in Texts(unit2)
  BY <1>3, <1>7 DEF Kept
<1>10. ASSUME NEW k \in T2, LatestIn(S, k) \notin {0, unit2.head}, LatestIn(S, k) \in W2
       PROVE  \E u \in units : u.head = LatestIn(S, k) /\ k \in Texts(u)
  <2>1. k # n + 1
    BY <1>2, <1>3, <1>5, <1>6, <1>10
  <2> QED BY <2>1, <1>3, <1>7, <1>10 DEF Kept
<1> QED BY <1>4, <1>2, <1>3, <1>6, <1>8, <1>9, <1>10 DEF Kept

\* A heading, and what belongs to it: the unit at hand is closed, units E are emitted.
LEMMA KeptBegins ==
    ASSUME NEW n \in Nat, NEW m \in Nat, n + 1 <= m, NEW S \in SUBSET (1 .. n),
           NEW T \in SUBSET (1 .. n), NEW W,
           NEW unit, NEW unit2, NEW units, Kept(n, S, T, W, unit, units),
           NEW T2, \A k \in T2 : k \in T \/ k \in n + 1 .. m,
           NEW W2, \A h \in W2 : h \in W \/ h \in {0, unit.head, n + 1},
           NEW E,
           \A u \in E : /\ ~HasPart(u, {"number"})
                        /\ \/ /\ unit # NoUnit /\ u.head = unit.head
                              /\ \A k \in Texts(u) : k \in Texts(unit)
                           \/ u.head = n + 1 /\ \A k \in Texts(u) : k \in n + 1 .. m,
           unit2 # NoUnit => /\ ~HasPart(unit2, {"number"}) /\ unit2.head = n + 1
                             /\ \A k \in Texts(unit2) : k \in n + 1 .. m,
           unit # NoUnit /\ unit.head \in W2 =>
               \E u \in E : u.head = unit.head /\ \A k \in T : k \in Texts(unit) => k \in Texts(u),
           \A k \in T2 : k \in n + 1 .. m =>
               IF unit2 = NoUnit THEN \E u \in E : u.head = n + 1 /\ k \in Texts(u)
                                 ELSE k \in Texts(unit2)
    PROVE  Kept(m, S \cup {n + 1}, T2, W2, unit2, units \cup E)
<1> DEFINE R == S \cup {n + 1}
<1>1. \A j \in 1 .. n : j \in S <=> j \in R
  OBVIOUS
<1>2. n <= m /\ n + 1 \in Nat /\ \A j \in n + 2 .. m : j \notin R
  OBVIOUS
<1>3. \A k \in n + 1 .. m : k \in Nat /\ n + 1 <= k /\ k \in 1 .. m /\ k \notin 1 .. n
  OBVIOUS
<1>4. \A k \in n + 1 .. m : LatestIn(R, k) = n + 1
  <2>1. LatestIn(R, n + 1) = n + 1
    BY <1>2, LatestHere
  <2>2. SUFFICES ASSUME NEW k \in n + 1 .. m PROVE LatestIn(R, k) = LatestIn(R, n + 1)
    BY <2>1
  <2>3. \A j \in (n + 1) + 1 .. k : j \notin R
    OBVIOUS
  <2> HIDE DEF R
  <2> QED BY <1>2, <1>3, <2>3, LatestOn
<1>5. \A k \in 1 .. n : LatestIn(R, k) = LatestIn(S, k)
  <2>1. SUFFICES ASSUME NEW k \in 1 .. n PROVE LatestIn(R, k) = LatestIn(S, k)
    OBVIOUS
  <2>2. \A j \in 1 .. k : j \in S <=> j \in R
    OBVIOUS
  <2> QED BY <2>2, LatestSame
<1> HIDE DEF R
<1>6. \A u : Under(n, S, u) => Under(m, R, u)
  BY <1>1, <1>2, UnderStill
<1>7. NoUnit.head = 0 /\ n + 1 # 0
  BY DEF NoUnit
<1>8. unit # NoUnit => unit.head = LatestIn(S, n) /\ Under(n, S, unit) /\ unit.head \in 1 .. n
  BY DEF Kept, Under
<1>9. ASSUME NEW u, ~HasPart(u, {"number"}), u.head = n + 1, \A k \in Texts(u) : k \in n + 1 .. m
      PROVE  Under(m, R, u)
  BY <1>9, <1>2, <1>3, <1>4 DEF Under
<1>10. ASSUME NEW u, ~HasPart(u, {"number"}), unit # NoUnit, u.head = unit.head,
              \A k \in Texts(u) : k \in Texts(unit)
       PROVE  Under(m, R, u)
  <2>1. Under(n, S, u)
    BY <1>8, <1>10 DEF Under
  <2> QED BY <2>1, <1>6
<1>11. \A u \in units \cup E : Under(m, R, u)
  <2>1. \A u \in units : Under(m, R, u)
    BY <1>6 DEF Kept
  <2>2. \A u \in E : Under(m, R, u)
    BY <1>9, <1>10
  <2> QED BY <2>1, <2>2
<1>12. \A k \in T : k \in 1 .. n
  OBVIOUS
<1>13. \A k \in T2 : (k \in T /\ k \in 1 .. n) \/ k \in n + 1 .. m
  OBVIOUS
<1>14. m \in n + 1 .. m
  OBVIOUS
<1>15. unit2 # NoUnit => /\ Under(m, R, unit2) /\ unit2.head = LatestIn(R, m)
                         /\ \A k \in T2 : LatestIn(R, k) = unit2.head => k \in Texts(unit2)
  <2>1. SUFFICES ASSUME unit2 # NoUnit
                 PROVE  /\ Under(m, R, unit2) /\ unit2.head = LatestIn(R, m)
                        /\ \A k \in T2 : LatestIn(R, k) = unit2.head => k \in Texts(unit2)
    OBVIOUS
  <2>2. Under(m, R, unit2) /\ unit2.head = n + 1
    BY <2>1, <1>9
  <2>3. unit2.head = LatestIn(R, m)
    BY <2>2, <1>4, <1>14
  <2>4. ASSUME NEW k \in T2, LatestIn(R, k) = unit2.head PROVE k \in Texts(unit2)
    <3>1. k \in 1 .. n => LatestIn(R, k) \in 0 .. n
      BY <1>5, LatestIs
    <3>2. k \in n + 1 .. m
      BY <2>2, <2>4, <3>1, <1>13
    <3> QED BY <2>1, <3>2
  <2> QED BY <2>2, <2>3, <2>4
<1>16. ASSUME NEW k \in T2, LatestIn(R, k) \notin {0, unit2.head}, LatestIn(R, k) \in W2
       PROVE  \E u \in units \cup E : u.head = LatestIn(R, k) /\ k \in Texts(u)
  <2>1. CASE k \in n + 1 .. m
    <3>1. LatestIn(R, k) = n + 1
      BY <2>1, <1>4
    <3>2. unit2 = NoUnit
      BY <3>1, <1>16
    <3>3. \E u \in E : u.head = n + 1 /\ k \in Texts(u)
      BY <2>1, <3>2
    <3> QED BY <3>1, <3>3
  <2>2. CASE k \in T /\ k \in 1 .. n
    <3>1. LatestIn(R, k) = LatestIn(S, k) /\ LatestIn(S, k) \in 0 .. n /\ n + 1 \notin 0 .. n
      BY <2>2, <1>5, LatestIs
    <3>2. CASE unit # NoUnit /\ LatestIn(S, k) = unit.head
      <4>1. k \in Texts(unit)
        BY <2>2, <3>2 DEF Kept
      <4>2. PICK u \in E : u.head = unit.head /\ \A j \in T : j \in Texts(unit) => j \in Texts(u)
        BY <3>1, <3>2, <1>16
      <4> QED BY <2>2, <3>1, <3>2, <4>1, <4>2
    <3>3. CASE ~(unit # NoUnit /\ LatestIn(S, k) = unit.head)
      <4>1. LatestIn(S, k) \notin {0, unit.head}
        BY <1>16, <1>7, <3>1, <3>3
      <4>2. LatestIn(S, k) \in W
        BY <1>16, <3>1, <4>1
      <4> QED BY <2>2, <3>1, <4>1, <4>2 DEF Kept
    <3> QED BY <3>2, <3>3
  <2> QED BY <2>1, <2>2, <1>13
<1> QED BY <1>11, <1>15, <1>16 DEF Kept, R

\* The end: the unit at hand is closed.
LEMMA KeptAtEnd ==
    ASSUME NEW n \in Nat, NEW S, NEW T, NEW W,
           NEW unit, NEW units, Kept(n, S, T, W, unit, units), NEW E,
           \A u \in E : /\ ~HasPart(u, {"number"}) /\ unit # NoUnit /\ u.head = unit.head
                        /\ \A k \in Texts(u) : k \in Texts(unit),
           unit # NoUnit /\ unit.head \in W =>
               \E u \in E : u.head = unit.head /\ \A k \in T : k \in Texts(unit) => k \in Texts(u)
    PROVE  Kept(n, S, T, W, NoUnit, units \cup E)
<1>1. NoUnit.head = 0
  BY DEF NoUnit
<1>2. \A u \in units \cup E : Under(n, S, u)
  BY DEF Kept, Under
<1>3. ASSUME NEW k \in T, LatestIn(S, k) # 0, LatestIn(S, k) \in W
      PROVE  \E u \in units \cup E : u.head = LatestIn(S, k) /\ k \in Texts(u)
  <2>1. CASE unit # NoUnit /\ LatestIn(S, k) = unit.head
    BY <1>3, <2>1 DEF Kept
  <2>2. CASE ~(unit # NoUnit /\ LatestIn(S, k) = unit.head)
    <3>1. LatestIn(S, k) # unit.head
      BY <1>1, <1>3, <2>2
    <3> QED BY <1>3, <3>1 DEF Kept
  <2> QED BY <2>1, <2>2
<1> QED BY <1>1, <1>2, <1>3 DEF Kept

-----------------------------------------------------------------------------
(* The pages.                                                               *)

\* The page of the unit under heading h, when M are the page markers read, S the headings
\* and A those of the units that are closed at once.
PageOf(S, M, A, h) ==
    IF LatestIn(M, h) # 0 THEN LatestIn(M, h)
    ELSE IF h \in A THEN 0
    ELSE LET seen == {j \in M : j > h /\ LatestIn(S, j) = h}
         IN  IF seen = {} THEN 0 ELSE Min(seen)

Paged(n, S, M, A, pg, unit, units) ==
    /\ pg = LatestIn(M, n)
    /\ \A u \in units : /\ u.head \in 1 .. n /\ u.page = PageOf(S, M, A, u.head)
                        /\ u.head \in A \/ u.head # LatestIn(S, n)
    /\ unit # NoUnit => /\ unit.head \in 1 .. n /\ unit.head = LatestIn(S, n) /\ unit.head \notin A
                        /\ unit.page = PageOf(S, M, A, unit.head)

\* The page of a unit is settled once a marker was read before it, or another heading.
LEMMA PageStill ==
    ASSUME NEW n \in Nat, NEW M \in SUBSET (1 .. n), NEW S, NEW R, NEW A, NEW B,
           \A j \in 1 .. n : (j \in S <=> j \in R) /\ (j \in A <=> j \in B), NEW h \in 1 .. n
    PROVE  PageOf(R, M, B, h) = PageOf(S, M, A, h)
<1>1. \A k \in 1 .. n : LatestIn(R, k) = LatestIn(S, k)
  <2>1. SUFFICES ASSUME NEW k \in 1 .. n PROVE LatestIn(R, k) = LatestIn(S, k)
    OBVIOUS
  <2>2. \A j \in 1 .. k : j \in S <=> j \in R
    OBVIOUS
  <2> QED BY <2>2, LatestSame
<1>2. {j \in M : j > h /\ LatestIn(R, j) = h} = {j \in M : j > h /\ LatestIn(S, j) = h}
  BY <1>1
<1> QED BY <1>2 DEF PageOf

\* A marker does not change the page of a unit that is closed.
LEMMA PageStays ==
    ASSUME NEW n \in Nat, NEW M \in SUBSET (1 .. n), NEW S \in SUBSET (1 .. n), NEW A,
           NEW N, N = M \cup {n + 1}, NEW h \in 1 .. n, h \in A \/ h # LatestIn(S, n)
    PROVE  PageOf(S, N, A, h) = PageOf(S, M, A, h)
<1>1. \A j \in 1 .. h : j \in M <=> j \in N
  OBVIOUS
<1>2. LatestIn(N, h) = LatestIn(M, h)
  BY <1>1, LatestSame
<1>3. LatestIn(S, n + 1) = LatestIn(S, n)
  <2>1. n + 1 \in Nat /\ n <= n + 1 /\ \A j \in n + 1 .. n + 1 : j \notin S
    OBVIOUS
  <2> QED BY <2>1, LatestOn
<1>4. h \notin A => {j \in N : j > h /\ LatestIn(S, j) = h} = {j \in M : j > h /\ LatestIn(S, j) = h}
  BY <1>3
<1> QED BY <1>2, <1>4 DEF PageOf

\* It gives the unit at hand its page, if it had none.
LEMMA PageGiven ==
    ASSUME NEW n \in Nat, NEW M \in SUBSET (1 .. n), NEW S \in SUBSET (1 .. n), NEW A,
           NEW N, N = M \cup {n + 1}, NEW h \in 1 .. n, h \notin A, h = LatestIn(S, n)
    PROVE  PageOf(S, N, A, h) = IF PageOf(S, M, A, h) = 0 THEN n + 1 ELSE PageOf(S, M, A, h)
<1> DEFINE old == {j \in M : j > h /\ LatestIn(S, j) = h}
           new == {j \in N : j > h /\ LatestIn(S, j) = h}
<1>1. \A j \in 1 .. h : j \in M <=> j \in N
  OBVIOUS
<1>2. LatestIn(N, h) = LatestIn(M, h)
  BY <1>1, LatestSame
<1>3. LatestIn(S, n + 1) = LatestIn(S, n)
  <2>1. n + 1 \in Nat /\ n <= n + 1 /\ \A j \in n + 1 .. n + 1 : j \notin S
    OBVIOUS
  <2> QED BY <2>1, LatestOn
<1>4. new = old \cup {n + 1} /\ \A j \in old : j \in 1 .. n
  <2>1. \A j \in old : j \in 1 .. n
    OBVIOUS
  <2>2. n + 1 > h /\ LatestIn(S, n + 1) = h
    BY <1>3
  <2>3. \A j : j \in new <=> j \in old \/ j = n + 1
    BY <2>2
  <2> QED BY <2>1, <2>3
<1>5. old \in SUBSET Nat /\ new \in SUBSET Nat /\ n + 1 \in new
  <2> HIDE DEF old, new
  <2>1. \A j \in 1 .. n : j \in Nat
    OBVIOUS
  <2>2. n + 1 \in Nat
    OBVIOUS
  <2> QED BY <1>4, <2>1, <2>2
<1>6. /\ PageOf(S, M, A, h) = IF LatestIn(M, h) # 0 THEN LatestIn(M, h)
                              ELSE IF old = {} THEN 0 ELSE Min(old)
      /\ PageOf(S, N, A, h) = IF LatestIn(N, h) # 0 THEN LatestIn(N, h)
                              ELSE IF new = {} THEN 0 ELSE Min(new)
  <2>1. /\ PageOf(S, M, A, h) = IF LatestIn(M, h) # 0 THEN LatestIn(M, h)
                                ELSE IF h \in A THEN 0 ELSE IF old = {} THEN 0 ELSE Min(old)
        /\ PageOf(S, N, A, h) = IF LatestIn(N, h) # 0 THEN LatestIn(N, h)
                                ELSE IF h \in A THEN 0 ELSE IF new = {} THEN 0 ELSE Min(new)
    BY Zenon DEF PageOf
  <2> HIDE DEF old, new
  <2> QED BY <2>1
<1> HIDE DEF old, new
<1>7. old # {} => Min(old) \in old /\ \A y \in old : Min(old) <= y
  BY <1>5, MinIsThere
<1>8. Min(new) \in new /\ \A y \in new : Min(new) <= y
  BY <1>5, MinIsThere
<1>9. old = {} => Min(new) = n + 1
  BY <1>4, <1>8
<1>10. old # {} => Min(new) = Min(old) /\ Min(old) # 0
  <2>1. SUFFICES ASSUME old # {} PROVE Min(new) = Min(old) /\ Min(old) # 0
    OBVIOUS
  <2>2. Min(old) \in 1 .. n /\ Min(old) \in new
    BY <2>1, <1>4, <1>7
  <2>3. Min(new) <= Min(old) /\ Min(new) \in Nat
    BY <2>2, <1>5, <1>8
  <2>4. Min(new) # n + 1
    BY <2>2, <2>3
  <2>5. Min(new) \in old
    BY <2>4, <1>4, <1>8
  <2> QED BY <2>1, <2>2, <2>3, <2>5, <1>7
<1> QED BY <1>2, <1>5, <1>6, <1>9, <1>10

\* A marker is read, and the unit at hand without a page takes it.
LEMMA PagedMarker ==
    ASSUME NEW n \in Nat, NEW M \in SUBSET (1 .. n), NEW S \in SUBSET (1 .. n), NEW A,
           NEW pg, NEW unit, NEW unit2, NEW units, Paged(n, S, M, A, pg, unit, units),
           unit = NoUnit => unit2 = NoUnit,
           unit # NoUnit => /\ unit2.head = unit.head
                            /\ unit2.page = IF unit.page = 0 THEN n + 1 ELSE unit.page
    PROVE  Paged(n + 1, S, M \cup {n + 1}, A, n + 1, unit2, units)
<1> DEFINE N == M \cup {n + 1}
<1>1. n + 1 \in Nat \ {0} /\ n + 1 \in N /\ n <= n + 1 /\ \A j \in n + 1 .. n + 1 : j \notin S
  OBVIOUS
<1>2. LatestIn(S, n + 1) = LatestIn(S, n)
  BY <1>1, LatestOn
<1>3. \A h \in 1 .. n : h \in 1 .. n + 1
  OBVIOUS
<1>4. \A u \in units : PageOf(S, N, A, u.head) = PageOf(S, M, A, u.head)
  <2>1. ASSUME NEW h \in 1 .. n, h \in A \/ h # LatestIn(S, n)
        PROVE  PageOf(S, N, A, h) = PageOf(S, M, A, h)
    <3>1. N = M \cup {n + 1}
      OBVIOUS
    <3> HIDE DEF N
    <3> QED BY <2>1, <3>1, PageStays
  <2>2. \A u \in units : u.head \in 1 .. n /\ (u.head \in A \/ u.head # LatestIn(S, n))
    BY DEF Paged
  <2> HIDE DEF N
  <2> QED BY <2>1, <2>2
<1>5. unit # NoUnit => PageOf(S, N, A, unit.head) = IF unit.page = 0 THEN n + 1 ELSE unit.page
  <2>1. ASSUME NEW h \in 1 .. n, h \notin A, h = LatestIn(S, n)
        PROVE  PageOf(S, N, A, h) = IF PageOf(S, M, A, h) = 0 THEN n + 1 ELSE PageOf(S, M, A, h)
    <3>1. N = M \cup {n + 1}
      OBVIOUS
    <3> HIDE DEF N
    <3> QED BY <2>1, <3>1, PageGiven
  <2>2. unit # NoUnit => /\ unit.head \in 1 .. n /\ unit.head = LatestIn(S, n) /\ unit.head \notin A
                         /\ unit.page = PageOf(S, M, A, unit.head)
    BY DEF Paged
  <2> HIDE DEF N
  <2> QED BY <2>1, <2>2
<1>6. LatestIn(N, n + 1) = n + 1
  BY <1>1, LatestHere
<1> HIDE DEF N
<1> QED BY <1>2, <1>3, <1>4, <1>5, <1>6 DEF Paged, N

\* Anything else is read, but no heading.
LEMMA PagedOn ==
    ASSUME NEW n \in Nat, NEW M \in SUBSET (1 .. n), NEW S \in SUBSET (1 .. n), NEW A,
           NEW pg, NEW unit, NEW unit2, NEW units, Paged(n, S, M, A, pg, unit, units),
           unit = NoUnit => unit2 = NoUnit,
           unit # NoUnit => unit2.head = unit.head /\ unit2.page = unit.page
    PROVE  Paged(n + 1, S, M, A, pg, unit2, units)
<1>1. n + 1 \in Nat /\ n <= n + 1 /\ \A j \in n + 1 .. n + 1 : j \notin S /\ j \notin M
  OBVIOUS
<1>2. LatestIn(S, n + 1) = LatestIn(S, n) /\ LatestIn(M, n + 1) = LatestIn(M, n)
  BY <1>1, LatestOn
<1>3. \A h \in 1 .. n : h \in 1 .. n + 1
  OBVIOUS
<1> QED BY <1>2, <1>3 DEF Paged

\* A unit begins, the one before it is emitted.
LEMMA PagedBegins ==
    ASSUME NEW n \in Nat, NEW m \in Nat, n + 1 <= m, NEW M \in SUBSET (1 .. n),
           NEW S \in SUBSET (1 .. n), NEW A, NEW B, \A j \in 1 .. n : j \in A <=> j \in B,
           NEW pg, NEW unit, NEW unit2, NEW units, Paged(n, S, M, A, pg, unit, units), NEW E,
           \A u \in E : \/ unit # NoUnit /\ u.head = unit.head /\ u.page = unit.page
                        \/ u.head = n + 1 /\ n + 1 \in B /\ u.page = pg,
           unit2 # NoUnit => unit2.head = n + 1 /\ n + 1 \notin B /\ unit2.page = pg
    PROVE  Paged(m, S \cup {n + 1}, M, B, pg, unit2, units \cup E)
<1> DEFINE R == S \cup {n + 1}
<1>1. n <= m /\ n + 1 \in Nat \ {0} /\ n + 1 \in R /\ \A j \in n + 1 .. m : j \notin M
  OBVIOUS
<1>2. LatestIn(M, m) = LatestIn(M, n)
  BY <1>1, LatestOn
<1>3. LatestIn(R, m) = n + 1
  <2>1. \A j \in (n + 1) + 1 .. m : j \notin R
    OBVIOUS
  <2>2. LatestIn(R, n + 1) = n + 1
    BY <1>1, LatestHere
  <2> HIDE DEF R
  <2> QED BY <2>1, <2>2, <1>1, LatestOn
<1>4. \A h \in 1 .. n : PageOf(R, M, B, h) = PageOf(S, M, A, h)
  <2>1. \A j \in 1 .. n : (j \in S <=> j \in R) /\ (j \in A <=> j \in B)
    OBVIOUS
  <2>2. ASSUME NEW h \in 1 .. n PROVE PageOf(R, M, B, h) = PageOf(S, M, A, h)
    <3> HIDE DEF R
    <3> QED BY <2>1, PageStill
  <2> QED BY <2>2
<1>5. PageOf(R, M, B, n + 1) = pg
  <2>1. \A j \in n + 1 .. n + 1 : j \notin M
    OBVIOUS
  <2>2. LatestIn(M, n + 1) = LatestIn(M, n)
    BY <2>1, LatestOn
  <2>3. {j \in M : j > n + 1 /\ LatestIn(R, j) = n + 1} = {}
    <3>1. \A j \in 1 .. n : ~(j > n + 1)
      OBVIOUS
    <3> HIDE DEF R
    <3> QED BY <3>1
  <2> HIDE DEF R
  <2> QED BY <2>2, <2>3 DEF PageOf, Paged
<1>6. \A h \in 1 .. n : h \in 1 .. m /\ h # n + 1
  OBVIOUS
<1>7. n + 1 \in 1 .. m
  OBVIOUS
<1> HIDE DEF R
<1>8. \A u \in E : u.head = n + 1 /\ n + 1 \in B /\ u.page = pg
          => u.head \in 1 .. m /\ u.page = PageOf(R, M, B, u.head) /\ u.head \in B
  BY <1>5, <1>7
<1>9. unit # NoUnit => unit.head \in 1 .. n /\ unit.page = PageOf(S, M, A, unit.head)
  BY DEF Paged
<1>10. \A u \in units : u.head \in 1 .. n /\ u.page = PageOf(S, M, A, u.head)
  BY DEF Paged
<1>11. \A u \in units \cup E : /\ u.head \in 1 .. m /\ u.page = PageOf(R, M, B, u.head)
                               /\ u.head \in B \/ u.head # LatestIn(R, m)
  BY <1>3, <1>4, <1>6, <1>8, <1>9, <1>10
<1>12. unit2 # NoUnit => /\ unit2.head \in 1 .. m /\ unit2.head = LatestIn(R, m) /\ unit2.head \notin B
                         /\ unit2.page = PageOf(R, M, B, unit2.head)
  BY <1>3, <1>5, <1>7
<1>13. pg = LatestIn(M, m)
  BY <1>2 DEF Paged
<1> QED BY <1>11, <1>12, <1>13 DEF Paged, R

\* The page ends.
LEMMA PagedAtEnd ==
    ASSUME NEW n, NEW S, NEW M, NEW A, NEW pg, NEW unit, NEW units,
           Paged(n, S, M, A, pg, unit, units), NEW E,
           \A u \in E : unit # NoUnit /\ u.head = unit.head /\ u.page = unit.page
    PROVE  \A u \in units \cup E : u.head \in 1 .. n /\ u.page = PageOf(S, M, A, u.head)
BY DEF Paged

-----------------------------------------------------------------------------
(* What is read.                                                            *)

\* The elements read that are of some kinds.
Of(kinds) == {k \in 1 .. at - 1 : html[k] \in kinds}

\* An element is read.
LEMMA OfStep ==
    ASSUME PageRead, NEW k, Reads(k)
    PROVE  /\ at - 1 \in Nat /\ at = (at - 1) + 1 /\ at' - 1 = at /\ state # "done"
           /\ \A i \in 1 .. at - 1 : html'[i] = html[i]
           /\ html'[at] = k
           /\ \A kinds : Of(kinds) \in SUBSET (1 .. at - 1)
           /\ \A kinds : k \in kinds => Of(kinds)' = Of(kinds) \cup {at}
           /\ \A kinds : k \notin kinds => Of(kinds)' = Of(kinds)
<1>1. /\ at \in Nat /\ at >= 1 /\ at' = at + 1 /\ Len(html) \in Nat /\ at <= Len(html) + 1
      /\ IsSequence(html) /\ state # "done"
  BY AppendIs DEF Reads, PageRead
<1>2. \A i \in 1 .. at - 1 : i \in 1 .. Len(html)
  BY <1>1
<1>3. \A i \in 1 .. Len(html) : html'[i] = html[i]
  BY <1>1, ReadsIs DEF ReadsOn
<1>4. html'[at] = k
  <2>1. CASE at <= Len(html) /\ html[at] = k /\ UNCHANGED html
    BY <2>1
  <2>2. CASE at > Len(html) /\ html' = Append(html, k)
    <3>1. at = Len(html) + 1
      BY <1>1, <2>2
    <3>2. PICK S : html \in Seq(S)
      BY <1>1 DEF IsSequence
    <3>3. html \in Seq(S \cup {k})
      BY <3>2
    <3>4. Append(html, k)[Len(html) + 1] = k
      BY <3>3
    <3> QED BY <2>2, <3>1, <3>4
  <2> QED BY <2>1, <2>2 DEF Reads
<1>5. at' - 1 = at /\ at - 1 \in Nat /\ at = (at - 1) + 1
  BY <1>1
<1>6. 1 .. at = (1 .. at - 1) \cup {at} /\ at \notin 1 .. at - 1
  BY <1>1
<1>7. \A kinds : Of(kinds)' = {i \in 1 .. at : html'[i] \in kinds}
  BY <1>5 DEF Of
<1>8. \A i \in 1 .. at - 1 : html'[i] = html[i]
  BY <1>2, <1>3
<1>9. ASSUME NEW kinds, k \in kinds PROVE Of(kinds)' = Of(kinds) \cup {at}
  BY <1>4, <1>6, <1>7, <1>8, <1>9 DEF Of
<1>10. ASSUME NEW kinds, k \notin kinds PROVE Of(kinds)' = Of(kinds)
  BY <1>4, <1>6, <1>7, <1>8, <1>10 DEF Of
<1>11. \A kinds : Of(kinds) \in SUBSET (1 .. at - 1)
  BY DEF Of
<1> QED BY <1>1, <1>4, <1>5, <1>8, <1>9, <1>10, <1>11

\* None is.
LEMMA OfStays ==
    ASSUME UNCHANGED <<html, at>> PROVE \A kinds : Of(kinds)' = Of(kinds)
BY DEF Of

\* What the unit at hand holds after text went to it.
LEMMA TextGoesTo ==
    ASSUME PageRead, NEW part \in Part, NEW s, Add(part, s)
    PROVE  /\ UNCHANGED <<book, page, section, pending, results>> /\ state' = s
           /\ current = NoUnit => current' = NoUnit
           /\ current # NoUnit =>
                /\ current' # NoUnit /\ current'.head = current.head /\ current'.named = current.named
                /\ current'.page = current.page /\ current'.section = current.section
                /\ Texts(current') = Texts(current) \cup (IF part \in Unplaced THEN {} ELSE {at})
                /\ \A parts : HasPart(current', parts) <=> HasPart(current, parts) \/ part \in parts
<1>1. /\ UNCHANGED <<book, page, section, pending, results>> /\ state' = s
      /\ current = NoUnit => current' = NoUnit
  BY DEF Add
<1>2. at \in Nat /\ current \in Builder /\ (current = NoUnit \/ current.head \in 1 .. at - 1)
  BY DEF PageRead
<1>3. current # NoUnit => current' = With(current, part, at)
  BY DEF Add
<1>4. ASSUME current # NoUnit
      PROVE  /\ current'.head = current.head /\ current'.named = current.named
             /\ current'.page = current.page /\ current'.section = current.section
             /\ Texts(current') = Texts(current) \cup (IF part \in Unplaced THEN {} ELSE {at})
             /\ \A parts : HasPart(current', parts) <=> HasPart(current, parts) \/ part \in parts
  BY <1>2, <1>3, <1>4, WithIs, PiecesWith
<1>5. NoUnit.head = 0
  BY DEF NoUnit
<1>6. current # NoUnit => current' # NoUnit
  <2>1. current # NoUnit => current.head # 0
    BY <1>2
  <2> QED BY <1>4, <1>5, <2>1
<1> QED BY <1>1, <1>4, <1>6

\* The unit at hand after a page marker.
LEMMA MarkerGoesTo ==
    ASSUME PageRead, PageMarker
    PROVE  /\ Reads("marker") /\ page' = at /\ UNCHANGED <<book, state, section, pending, results>>
           /\ current = NoUnit => current' = NoUnit
           /\ current # NoUnit =>
                /\ current' # NoUnit /\ current'.head = current.head /\ current'.named = current.named
                /\ current'.page = (IF current.page = 0 THEN at ELSE current.page)
                /\ current'.section = current.section /\ current'.text = current.text
                /\ Texts(current') = Texts(current)
                /\ \A parts : HasPart(current', parts) <=> HasPart(current, parts)
<1>1. at \in Nat /\ current \in Builder /\ (current = NoUnit \/ current.head \in 1 .. at - 1)
  BY DEF PageRead
<1>2. current' = IF current # NoUnit /\ current.page = 0
                   THEN [current EXCEPT !.page = at] ELSE current
  BY DEF PageMarker
<1>3. ASSUME current # NoUnit
      PROVE  /\ current'.head = current.head /\ current'.named = current.named
             /\ current'.page = (IF current.page = 0 THEN at ELSE current.page)
             /\ current'.section = current.section /\ current'.text = current.text
  <2>1. CASE current.page = 0
    <3>1. current' = [current EXCEPT !.page = at]
      BY <1>2, <1>3, <2>1
    <3> QED BY <3>1, <1>1, <2>1 DEF Builder
  <2>2. CASE current.page # 0
    BY <1>2, <2>2
  <2> QED BY <2>1, <2>2
<1>4. NoUnit.head = 0
  BY DEF NoUnit
<1>5. current # NoUnit => current' # NoUnit
  <2>1. current # NoUnit => current.head # 0
    BY <1>1
  <2> QED BY <1>3, <1>4, <2>1
<1>6. current # NoUnit => /\ Texts(current') = Texts(current)
                          /\ \A parts : HasPart(current', parts) <=> HasPart(current, parts)
  BY <1>3 DEF Texts, Pieces, HasPart
<1>7. current = NoUnit => current' = NoUnit
  BY <1>2
<1>8. Reads("marker") /\ page' = at /\ UNCHANGED <<book, state, section, pending, results>>
  BY DEF PageMarker
<1> QED BY <1>3, <1>5, <1>6, <1>7, <1>8

-----------------------------------------------------------------------------
(* A book that tells headings and texts by their kind.                      *)

\* The headings under which the elements B stand.
HeadsOf(S, B) == {LatestIn(S, j) : j \in B}

\* An element that is no heading adds none but the heading at hand.
LEMMA HeadsOn ==
    ASSUME NEW n \in Nat, NEW S \in SUBSET (1 .. n), NEW B, NEW B2, \A k \in B2 : k \in B \/ k = n + 1,
           NEW h \in HeadsOf(S, B2), h \notin HeadsOf(S, B)
    PROVE  h = LatestIn(S, n) /\ n + 1 \in B2
<1>1. PICK j \in B2 : h = LatestIn(S, j)
  BY DEF HeadsOf
<1>2. j = n + 1
  BY <1>1 DEF HeadsOf
<1>3. n + 1 \in Nat /\ n <= n + 1 /\ \A i \in n + 1 .. n + 1 : i \notin S
  OBVIOUS
<1>4. LatestIn(S, n + 1) = LatestIn(S, n)
  BY <1>3, LatestOn
<1> QED BY <1>1, <1>2, <1>4

\* The pages of the units, when the page is read or not yet.
PagesRight(S, M, A) ==
    IF state = "done"
      THEN /\ current = NoUnit
           /\ \A u \in ToSet(results) : u.head \in 1 .. at - 1 /\ u.page = PageOf(S, M, A, u.head)
      ELSE Paged(at - 1, S, M, A, page, current, ToSet(results))

-----------------------------------------------------------------------------
Bodies == {"text", "amen", "preface", "section_beside", "verse"}

\* Headings of the kinds H, those of the kinds Z without a name, texts of the kinds X,
\* and the part without which a unit is thrown away.
KeepsPlace(H, Z, X, part) ==
    /\ Kept(at - 1, Of(H), Of(X), HeadsOf(Of(H), Of(Bodies)) \ Of(Z), current, ToSet(results))
    /\ PagesRight(Of(H), Of({"marker"}), {})
    /\ state # "done" /\ current = NoUnit => LatestIn(Of(H), at - 1) = 0
    /\ current # NoUnit =>
         /\ current.named <=> current.head \notin Of(Z)
         /\ current.head \in HeadsOf(Of(H), Of(Bodies)) => HasPart(current, {part})

Apart(H, Z, X) ==
    /\ Z \subseteq H
    /\ \A k \in H : k \notin X /\ k \notin Bodies /\ k # "marker"

\* An element is read that is no heading: the unit at hand takes it if it is a text.
LEMMA PlaceGoesOn ==
    ASSUME NEW H, NEW Z, NEW X, NEW part, Apart(H, Z, X), PageRead, KeepsPlace(H, Z, X, part),
           NEW k, Reads(k), k \notin H, state' # "done", UNCHANGED results,
           current = NoUnit => current' = NoUnit,
           current # NoUnit =>
              /\ current' # NoUnit /\ current'.head = current.head /\ current'.named = current.named
              /\ ~HasPart(current', {"number"})
              /\ \A j \in Texts(current) : j \in Texts(current')
              /\ \A j \in Texts(current') :
                    \/ j \in Texts(current) \/ j = at
                    \/ j \in 1 .. at - 1 /\ LatestIn(Of(H), j) = current.head
              /\ k \in X => at \in Texts(current')
              /\ HasPart(current, {part}) => HasPart(current', {part})
              /\ k \in Bodies => HasPart(current', {part}),
           page' = (IF k = "marker" THEN at ELSE page),
           current # NoUnit =>
              current'.page = (IF k = "marker" /\ current.page = 0 THEN at ELSE current.page)
    PROVE  KeepsPlace(H, Z, X, part)'
<1> DEFINE n == at - 1
           S == Of(H)
           T == Of(X)
           B == Of(Bodies)
           M == Of({"marker"})
           blank == Of(Z)
           units == ToSet(results)
           S2 == S'
           T2 == T'
           B2 == B'
           M2 == M'
           blank2 == blank'
           units2 == units'
<1>1. /\ n \in Nat /\ S \in SUBSET (1 .. n) /\ T \in SUBSET (1 .. n) /\ B \in SUBSET (1 .. n)
      /\ M \in SUBSET (1 .. n) /\ blank \in SUBSET (1 .. n)
  BY DEF PageRead, Of
<1>2. /\ Kept(n, S, T, HeadsOf(S, B) \ blank, current, units)
      /\ state # "done" => Paged(n, S, M, {}, page, current, units)
      /\ state # "done" /\ current = NoUnit => LatestIn(S, n) = 0
      /\ current # NoUnit => /\ current.named <=> current.head \notin blank
                             /\ current.head \in HeadsOf(S, B) => HasPart(current, {part})
  BY DEF KeepsPlace, PagesRight
<1>3. ASSUME at' - 1 = n + 1, state' # "done",
             Kept(n + 1, S2, T2, HeadsOf(S2, B2) \ blank2, current', units2),
             Paged(n + 1, S2, M2, {}, page', current', units2),
             current' = NoUnit => LatestIn(S2, n + 1) = 0,
             current' # NoUnit => /\ current'.named <=> current'.head \notin blank2
                                  /\ current'.head \in HeadsOf(S2, B2) => HasPart(current', {part})
      PROVE  KeepsPlace(H, Z, X, part)'
  <2> HIDE DEF n
  <2> QED BY <1>3 DEF KeepsPlace, PagesRight
<1>4. /\ at = n + 1 /\ at' - 1 = n + 1 /\ state # "done"
      /\ S2 = S /\ blank2 = blank
      /\ T2 = IF k \in X THEN T \cup {n + 1} ELSE T
      /\ B2 = IF k \in Bodies THEN B \cup {n + 1} ELSE B
      /\ M2 = IF k = "marker" THEN M \cup {n + 1} ELSE M
  BY OfStep DEF Apart
<1>5. current # NoUnit => \A j \in Texts(current') :
          \/ j \in Texts(current) \/ j = at \/ (j \in 1 .. n /\ LatestIn(S, j) = current.head)
  OBVIOUS
<1>6. units2 = units
  OBVIOUS
<1> HIDE DEF n, S, T, B, M, blank, units, S2, T2, B2, M2, blank2, units2
<1>7. \A h \in HeadsOf(S, B2) : h \in HeadsOf(S, B) \/ (h = LatestIn(S, n) /\ n + 1 \in B2)
  <2>1. \A j \in B2 : j \in B \/ j = n + 1
    BY <1>4
  <2> QED BY <1>1, <2>1, HeadsOn
<1>8. n + 1 \in B2 => k \in Bodies
  <2>1. n + 1 \notin B
    BY <1>1
  <2> QED BY <1>4, <2>1
<1>9. n + 1 \in T2 => k \in X
  <2>1. n + 1 \notin T
    BY <1>1
  <2> QED BY <1>4, <2>1
<1>10. LatestIn(S, n + 1) = LatestIn(S, n)
  <2>1. n + 1 \in Nat /\ n <= n + 1 /\ \A j \in n + 1 .. n + 1 : j \notin S
    BY <1>1
  <2> QED BY <1>1, <2>1, LatestOn
<1>11. current # NoUnit => current.head = LatestIn(S, n)
  BY <1>2 DEF Kept
<1>12. Kept(n + 1, S, T2, HeadsOf(S, B2) \ blank, current', units)
  <2>1. \A j \in T2 : j \in T \/ j = n + 1
    BY <1>4
  <2>2. \A h \in HeadsOf(S, B2) \ blank : h \in HeadsOf(S, B) \ blank \/ h \in {0, current.head}
    BY <1>4, <1>7, <1>11, <1>2
  <2>3. \/ /\ current = NoUnit /\ current' = NoUnit
           /\ n + 1 \in T2 => LatestIn(S, n) = 0
        \/ /\ current # NoUnit /\ current' # NoUnit /\ current'.head = current.head
           /\ ~HasPart(current', {"number"})
           /\ \A j \in Texts(current) : j \in Texts(current')
           /\ \A j \in Texts(current') :
                 \/ j \in Texts(current) \/ j = n + 1 \/ (j \in 1 .. n /\ LatestIn(S, j) = current.head)
           /\ n + 1 \in T2 => n + 1 \in Texts(current')
    BY <1>2, <1>4, <1>5, <1>9
  <2> QED BY <1>1, <1>2, <2>1, <2>2, <2>3, KeptOn
<1>13. Paged(n + 1, S, M2, {}, page', current', units)
  <2>1. Paged(n, S, M, {}, page, current, units)
    BY <1>2, <1>4
  <2>2. CASE k = "marker"
    <3>1. M2 = M \cup {n + 1} /\ page' = n + 1
      BY <1>4, <2>2
    <3>2. /\ current = NoUnit => current' = NoUnit
          /\ current # NoUnit => /\ current'.head = current.head
                                 /\ current'.page = IF current.page = 0 THEN n + 1 ELSE current.page
      BY <1>4, <2>2
    <3>3. Paged(n + 1, S, M \cup {n + 1}, {}, n + 1, current', units)
      BY <1>1, <2>1, <3>2, PagedMarker
    <3> QED BY <3>1, <3>3
  <2>3. CASE k # "marker"
    <3>1. M2 = M /\ page' = page
      BY <1>4, <2>3
    <3>2. /\ current = NoUnit => current' = NoUnit
          /\ current # NoUnit => current'.head = current.head /\ current'.page = current.page
      BY <1>4, <2>3
    <3>3. Paged(n + 1, S, M, {}, page, current', units)
      BY <1>1, <2>1, <3>2, PagedOn
    <3> QED BY <3>1, <3>3
  <2> QED BY <2>2, <2>3
<1>14. current' = NoUnit => LatestIn(S, n + 1) = 0
  BY <1>2, <1>4, <1>10
<1>15. current' # NoUnit => /\ current'.named <=> current'.head \notin blank
                            /\ current'.head \in HeadsOf(S, B2) => HasPart(current', {part})
  BY <1>2, <1>7, <1>8
<1> QED BY <1>3, <1>4, <1>6, <1>12, <1>13, <1>14, <1>15

\* A heading: the unit at hand is closed, and emitted if it has its part.
LEMMA PlaceBegins ==
    ASSUME NEW H, NEW Z, NEW X, NEW part, Apart(H, Z, X), PageRead, KeepsPlace(H, Z, X, part),
           NEW k, Reads(k), k \in H, state' # "done", NEW E, ToSet(results') = ToSet(results) \cup E,
           \A u \in E : u = current /\ current # NoUnit,
           current # NoUnit /\ current.named /\ HasPart(current, {part}) => current \in E,
           current' # NoUnit, current'.head = at, current'.named <=> k \notin Z,
           current'.page = page, page' = page, Texts(current') = {}, ~HasPart(current', {"number"})
    PROVE  KeepsPlace(H, Z, X, part)'
<1> DEFINE n == at - 1
           S == Of(H)
           T == Of(X)
           B == Of(Bodies)
           M == Of({"marker"})
           blank == Of(Z)
           units == ToSet(results)
           S2 == S'
           T2 == T'
           B2 == B'
           M2 == M'
           blank2 == blank'
           units2 == units'
<1>1. /\ n \in Nat /\ S \in SUBSET (1 .. n) /\ T \in SUBSET (1 .. n) /\ B \in SUBSET (1 .. n)
      /\ M \in SUBSET (1 .. n) /\ blank \in SUBSET (1 .. n)
  BY DEF PageRead, Of
<1>2. /\ Kept(n, S, T, HeadsOf(S, B) \ blank, current, units)
      /\ state # "done" => Paged(n, S, M, {}, page, current, units)
      /\ current # NoUnit => /\ current.named <=> current.head \notin blank
                             /\ current.head \in HeadsOf(S, B) => HasPart(current, {part})
  BY DEF KeepsPlace, PagesRight
<1>3. ASSUME at' - 1 = n + 1, state' # "done",
             Kept(n + 1, S2, T2, HeadsOf(S2, B2) \ blank2, current', units2),
             Paged(n + 1, S2, M2, {}, page', current', units2),
             current'.named <=> current'.head \notin blank2,
             current'.head \notin HeadsOf(S2, B2)
      PROVE  KeepsPlace(H, Z, X, part)'
  <2> HIDE DEF n
  <2> QED BY <1>3 DEF KeepsPlace, PagesRight
<1>4. /\ at = n + 1 /\ at' - 1 = n + 1 /\ state # "done"
      /\ S2 = S \cup {n + 1} /\ blank2 = IF k \in Z THEN blank \cup {n + 1} ELSE blank
      /\ T2 = T /\ B2 = B /\ M2 = M
  BY OfStep DEF Apart
<1> HIDE DEF n, S, T, B, M, blank, S2, T2, B2, M2, blank2
<1>5. units2 = units \cup E
  OBVIOUS
<1> HIDE DEF units, units2
<1>6. n + 1 \in Nat /\ n + 1 <= n + 1
  BY <1>1
<1>7. HeadsOf(S2, B2) = HeadsOf(S, B) /\ \A h \in HeadsOf(S, B) : h \in 0 .. n
  <2>1. \A j \in 1 .. n : j \in S <=> j \in S2
    BY <1>1, <1>4
  <2>2. HeadsOf(S2, B) = HeadsOf(S, B)
    <3>1. ASSUME NEW j \in B PROVE LatestIn(S2, j) = LatestIn(S, j)
      <4>1. \A i \in 1 .. j : i \in S2 <=> i \in S
        BY <1>1, <2>1
      <4> QED BY <4>1, LatestSame
    <3> QED BY <3>1 DEF HeadsOf
  <2>3. \A j \in B : LatestIn(S, j) \in 0 .. n
    <3>1. SUFFICES ASSUME NEW j \in B PROVE LatestIn(S, j) \in 0 .. n
      OBVIOUS
    <3>2. j \in Nat /\ j <= n
      BY <1>1
    <3>3. LatestIn(S, j) \in 0 .. j
      BY <3>2, LatestIs
    <3> QED BY <3>2, <3>3, <1>1
  <2> QED BY <1>4, <2>2, <2>3 DEF HeadsOf
<1>8. Kept(n + 1, S2, T2, HeadsOf(S2, B2) \ blank2, current', units2)
  <2> DEFINE W == HeadsOf(S, B) \ blank
             W2 == HeadsOf(S, B) \ blank2
  <2>1. \A j \in T : j \in T \/ j \in n + 1 .. n + 1
    OBVIOUS
  <2>2. \A h \in W2 : h \in W \/ h \in {0, current.head, n + 1}
    BY <1>4
  <2>3. \A u \in E : /\ ~HasPart(u, {"number"})
                     /\ \/ /\ current # NoUnit /\ u.head = current.head
                           /\ \A j \in Texts(u) : j \in Texts(current)
                        \/ u.head = n + 1 /\ \A j \in Texts(u) : j \in n + 1 .. n + 1
    BY <1>2 DEF Kept, Under
  <2>4. /\ ~HasPart(current', {"number"}) /\ current'.head = n + 1
        /\ \A j \in Texts(current') : j \in n + 1 .. n + 1
    BY <1>4
  <2>5. current # NoUnit /\ current.head \in W2 =>
            \E u \in E : u.head = current.head /\ \A j \in T : j \in Texts(current) => j \in Texts(u)
    BY <1>2, <1>4
  <2>6. \A j \in T : j \notin n + 1 .. n + 1
    BY <1>1
  <2> HIDE DEF W, W2
  <2>7. Kept(n, S, T, W, current, units)
    BY <1>2 DEF W
  <2>8. Kept(n + 1, S \cup {n + 1}, T, W2, current', units \cup E)
    BY <1>1, <1>6, <2>1, <2>2, <2>3, <2>4, <2>5, <2>6, <2>7, KeptBegins
  <2> QED BY <1>4, <1>5, <1>7, <2>8 DEF W2
<1>9. Paged(n + 1, S2, M2, {}, page', current', units2)
  <2>1. Paged(n, S, M, {}, page, current, units)
    BY <1>2, <1>4
  <2>2. \A u \in E : \/ current # NoUnit /\ u.head = current.head /\ u.page = current.page
                     \/ u.head = n + 1 /\ n + 1 \in {} /\ u.page = page
    OBVIOUS
  <2>3. current' # NoUnit => current'.head = n + 1 /\ n + 1 \notin {} /\ current'.page = page
    BY <1>4
  <2>4. \A j \in 1 .. n : j \in {} <=> j \in {}
    OBVIOUS
  <2>5. Paged(n + 1, S \cup {n + 1}, M, {}, page, current', units \cup E)
    BY <1>1, <1>6, <2>1, <2>2, <2>3, <2>4, PagedBegins
  <2> QED BY <1>4, <1>5, <2>5
<1>10. current'.named <=> current'.head \notin blank2
  BY <1>1, <1>4
<1>11. current'.head \notin HeadsOf(S2, B2)
  BY <1>1, <1>4, <1>7
<1> QED BY <1>3, <1>4, <1>8, <1>9, <1>10, <1>11

\* The page ends, and the unit at hand is emitted if it has a name and its part.
LEMMA PlaceEnds ==
    ASSUME NEW H, NEW Z, NEW X, NEW part, PageRead, KeepsPlace(H, Z, X, part),
           UNCHANGED <<html, at>>, state # "done", state' = "done", current' = NoUnit,
           NEW E, ToSet(results') = ToSet(results) \cup E,
           \A u \in E : u = current /\ current # NoUnit,
           current # NoUnit /\ current.named /\ HasPart(current, {part}) => current \in E
    PROVE  KeepsPlace(H, Z, X, part)'
<1> DEFINE n == at - 1
           S == Of(H)
           T == Of(X)
           B == Of(Bodies)
           M == Of({"marker"})
           blank == Of(Z)
           units == ToSet(results)
<1>1. n \in Nat
  BY DEF PageRead
<1>2. /\ Kept(n, S, T, HeadsOf(S, B) \ blank, current, units)
      /\ Paged(n, S, M, {}, page, current, units)
      /\ current # NoUnit => /\ current.named <=> current.head \notin blank
                             /\ current.head \in HeadsOf(S, B) => HasPart(current, {part})
  BY DEF KeepsPlace, PagesRight
<1>3. UNCHANGED <<n, S, T, B, M, blank>>
  BY OfStays
<1>4. ASSUME Kept(n, S, T, HeadsOf(S, B) \ blank, NoUnit, units'),
             \A u \in units' : u.head \in 1 .. n /\ u.page = PageOf(S, M, {}, u.head)
      PROVE  KeepsPlace(H, Z, X, part)'
  <2> HIDE DEF n
  <2>1. n' = at' - 1
    BY DEF n
  <2> QED BY <1>3, <1>4, <2>1 DEF KeepsPlace, PagesRight
<1> HIDE DEF n, S, T, B, M, blank
<1>5. units' = units \cup E
  OBVIOUS
<1> HIDE DEF units
<1>6. Kept(n, S, T, HeadsOf(S, B) \ blank, NoUnit, units \cup E)
  <2>1. \A u \in E : /\ ~HasPart(u, {"number"}) /\ current # NoUnit /\ u.head = current.head
                     /\ \A j \in Texts(u) : j \in Texts(current)
    BY <1>2 DEF Kept, Under
  <2>2. current # NoUnit /\ current.head \in HeadsOf(S, B) \ blank =>
            \E u \in E : u.head = current.head /\ \A j \in T : j \in Texts(current) => j \in Texts(u)
    BY <1>2
  <2> DEFINE W == HeadsOf(S, B) \ blank
  <2>3. Kept(n, S, T, W, current, units)
    BY <1>2
  <2> HIDE DEF W
  <2>4. current # NoUnit /\ current.head \in W =>
            \E u \in E : u.head = current.head /\ \A j \in T : j \in Texts(current) => j \in Texts(u)
    BY <2>2 DEF W
  <2>5. Kept(n, S, T, W, NoUnit, units \cup E)
    BY <1>1, <2>1, <2>3, <2>4, KeptAtEnd
  <2> QED BY <2>5 DEF W
<1>7. \A u \in units \cup E : u.head \in 1 .. n /\ u.page = PageOf(S, M, {}, u.head)
  <2>1. \A u \in E : current # NoUnit /\ u.head = current.head /\ u.page = current.page
    OBVIOUS
  <2> QED BY <1>2, <2>1, PagedAtEnd
<1> QED BY <1>4, <1>5, <1>6, <1>7

\* The unit at hand has no number and is the one of the last heading.
LEMMA AtHand ==
    ASSUME NEW H, NEW Z, NEW X, NEW part, KeepsPlace(H, Z, X, part), current # NoUnit
    PROVE  ~HasPart(current, {"number"}) /\ current.head = LatestIn(Of(H), at - 1)
BY DEF KeepsPlace, Kept, Under

\* An element that is passed over, with no body.
LEMMA PlacePasses ==
    ASSUME NEW H, NEW Z, NEW X, NEW part, Apart(H, Z, X), PageRead, KeepsPlace(H, Z, X, part),
           NEW k, Reads(k), k \notin H, k \notin X, k # "marker",
           k \in Bodies /\ current # NoUnit => HasPart(current, {part}),
           state' # "done", UNCHANGED <<current, page, results>>
    PROVE  KeepsPlace(H, Z, X, part)'
<1>1. current # NoUnit => ~HasPart(current, {"number"})
  BY AtHand
<1>2. current # NoUnit =>
              /\ current' # NoUnit /\ current'.head = current.head /\ current'.named = current.named
              /\ ~HasPart(current', {"number"})
              /\ \A j \in Texts(current) : j \in Texts(current')
              /\ \A j \in Texts(current') :
                    \/ j \in Texts(current) \/ j = at
                    \/ j \in 1 .. at - 1 /\ LatestIn(Of(H), j) = current.head
              /\ k \in X => at \in Texts(current')
              /\ HasPart(current, {part}) => HasPart(current', {part})
              /\ k \in Bodies => HasPart(current', {part})
  BY <1>1
<1>3. /\ page' = (IF k = "marker" THEN at ELSE page)
      /\ current # NoUnit =>
              current'.page = (IF k = "marker" /\ current.page = 0 THEN at ELSE current.page)
      /\ current = NoUnit => current' = NoUnit
  OBVIOUS
<1> QED BY <1>2, <1>3, PlaceGoesOn

\* A page marker.
LEMMA PlaceMarked ==
    ASSUME NEW H, NEW Z, NEW X, NEW part, Apart(H, Z, X), "marker" \notin H \cup X, PageRead,
           KeepsPlace(H, Z, X, part), PageMarker
    PROVE  KeepsPlace(H, Z, X, part)'
<1>1. current # NoUnit => ~HasPart(current, {"number"})
  BY AtHand
<1>2. /\ Reads("marker") /\ page' = at /\ UNCHANGED <<book, state, section, pending, results>>
      /\ current = NoUnit => current' = NoUnit
      /\ current # NoUnit =>
           /\ current' # NoUnit /\ current'.head = current.head /\ current'.named = current.named
           /\ current'.page = (IF current.page = 0 THEN at ELSE current.page)
           /\ Texts(current') = Texts(current)
           /\ \A parts : HasPart(current', parts) <=> HasPart(current, parts)
  BY MarkerGoesTo
<1> DEFINE k == "marker"
<1>3. k \notin H /\ k \notin X /\ k \notin Bodies /\ state' # "done" /\ Reads(k)
  BY <1>2, ReadsIs DEF Bodies
<1>4. current # NoUnit =>
              /\ current' # NoUnit /\ current'.head = current.head /\ current'.named = current.named
              /\ ~HasPart(current', {"number"})
              /\ \A j \in Texts(current) : j \in Texts(current')
              /\ \A j \in Texts(current') :
                    \/ j \in Texts(current) \/ j = at
                    \/ j \in 1 .. at - 1 /\ LatestIn(Of(H), j) = current.head
              /\ k \in X => at \in Texts(current')
              /\ HasPart(current, {part}) => HasPart(current', {part})
              /\ k \in Bodies => HasPart(current', {part})
  BY <1>1, <1>2, <1>3
<1>5. /\ page' = (IF k = "marker" THEN at ELSE page)
      /\ current # NoUnit =>
              current'.page = (IF k = "marker" /\ current.page = 0 THEN at ELSE current.page)
      /\ current = NoUnit => current' = NoUnit
  BY <1>2
<1> HIDE DEF k
<1> QED BY <1>2, <1>3, <1>4, <1>5, PlaceGoesOn

\* Text for the unit at hand.
LEMMA PlaceAdds ==
    ASSUME NEW H, NEW Z, NEW X, NEW part, Apart(H, Z, X), PageRead, KeepsPlace(H, Z, X, part),
           NEW k, Reads(k), k \notin H, k # "marker", NEW s, s # "done",
           NEW p \in Part \ Unplaced, Add(p, s),
           k \in Bodies /\ current # NoUnit => HasPart(current, {part}) \/ p = part
    PROVE  KeepsPlace(H, Z, X, part)'
<1>1. current # NoUnit => ~HasPart(current, {"number"})
  BY AtHand
<1>2. /\ UNCHANGED <<book, page, section, pending, results>> /\ state' = s
      /\ current = NoUnit => current' = NoUnit
      /\ current # NoUnit =>
           /\ current' # NoUnit /\ current'.head = current.head /\ current'.named = current.named
           /\ current'.page = current.page /\ current'.section = current.section
           /\ Texts(current') = Texts(current) \cup {at}
           /\ \A parts : HasPart(current', parts) <=> HasPart(current, parts) \/ p \in parts
  BY TextGoesTo
<1>3. current # NoUnit =>
              /\ current' # NoUnit /\ current'.head = current.head /\ current'.named = current.named
              /\ ~HasPart(current', {"number"})
              /\ \A j \in Texts(current) : j \in Texts(current')
              /\ \A j \in Texts(current') :
                    \/ j \in Texts(current) \/ j = at
                    \/ j \in 1 .. at - 1 /\ LatestIn(Of(H), j) = current.head
              /\ k \in X => at \in Texts(current')
              /\ HasPart(current, {part}) => HasPart(current', {part})
              /\ k \in Bodies => HasPart(current', {part})
  BY <1>1, <1>2 DEF Unplaced
<1>4. /\ page' = (IF k = "marker" THEN at ELSE page)
      /\ current # NoUnit =>
              current'.page = (IF k = "marker" /\ current.page = 0 THEN at ELSE current.page)
  BY <1>2
<1> QED BY <1>2, <1>3, <1>4, PlaceGoesOn

\* What is emitted of the unit at hand, when it has its part.
Emits(emitted, part) ==
    /\ emitted \in Seq(Builder)
    /\ \/ emitted = <<>> /\ ~(current # NoUnit /\ current.named /\ HasPart(current, {part}))
       \/ emitted = <<current>> /\ current # NoUnit

\* A new unit.
LEMMA PlaceNew ==
    ASSUME NEW H, NEW Z, NEW X, NEW part, Apart(H, Z, X), PageRead, KeepsPlace(H, Z, X, part),
           NEW k, Reads(k), k \in H, state' # "done", NEW emitted, Emits(emitted, part),
           results' = results \o emitted, page' = page,
           current' \in Builder, current'.head = at, current'.named <=> k \notin Z,
           current'.page = page, Texts(current') = {}, ~HasPart(current', {"number"})
    PROVE  KeepsPlace(H, Z, X, part)'
<1> DEFINE E == ToSet(emitted)
<1>1. ToSet(results') = ToSet(results) \cup E
  BY ToSetConcat DEF PageRead, Emits
<1>2. /\ \A u \in E : u = current /\ current # NoUnit
      /\ current # NoUnit /\ current.named /\ HasPart(current, {part}) => current \in E
  BY ToSetOne DEF Emits
<1>3. current' # NoUnit
  BY DEF NoUnit, PageRead
<1> HIDE DEF E
<1> QED BY <1>1, <1>2, <1>3, PlaceBegins

\* The end of a page in a book whose parser has no more to do there.
LEMMA PlaceCloses ==
    ASSUME NEW H, NEW Z, NEW X, NEW part, PageRead, KeepsPlace(H, Z, X, part),
           NEW emitted, Emits(emitted, part), PageEnds(results \o emitted)
    PROVE  KeepsPlace(H, Z, X, part)'
<1> DEFINE E == ToSet(emitted)
<1>1. /\ UNCHANGED <<html, at>> /\ state # "done" /\ state' = "done" /\ current' = NoUnit
      /\ results' = results \o emitted
  BY DEF PageEnds
<1>2. ToSet(results') = ToSet(results) \cup E
  BY <1>1, ToSetConcat DEF PageRead, Emits
<1>3. /\ \A u \in E : u = current /\ current # NoUnit
      /\ current # NoUnit /\ current.named /\ HasPart(current, {part}) => current \in E
  BY ToSetOne DEF Emits
<1> HIDE DEF E
<1> QED BY <1>1, <1>2, <1>3, PlaceEnds

-----------------------------------------------------------------------------
CollectHeadings == {"strong", "blank_strong"}
CollectTexts == {"text", "amen", "rubric"}
CollectsPlaced == KeepsPlace(CollectHeadings, {"blank_strong"}, CollectTexts, "body")

\* Every step of the parser of the collects keeps texts and pages in place.
LEMMA CollectsPlace ==
    ASSUME PageRead, CollectsInv, CollectsPlaced, CollectsNext PROVE CollectsPlaced'
<1> DEFINE H == CollectHeadings
           Z == {"blank_strong"}
           X == CollectTexts
           Placed == KeepsPlace(H, Z, X, "body")
<1>1. Apart(H, Z, X)
  BY DEF Apart, CollectHeadings, CollectTexts, Bodies
<1>2. Placed
  BY DEF CollectsPlaced
<1>3. H = {"strong", "blank_strong"} /\ X = {"text", "amen", "rubric"} /\ Z = {"blank_strong"}
  BY DEF CollectHeadings, CollectTexts
<1>4. Emits(CollectEmit(current), "body")
  <2>1. ~NoUnit.named
    BY DEF NoUnit
  <2> QED BY <2>1 DEF CollectEmit, PageRead, Emits
<1> HIDE DEF H, Z, X
<1>5. SUFFICES Placed'
  BY DEF CollectsPlaced, H, Z, X
<1> HIDE DEF Placed
<1>6. CASE PageMarker
  <2>1. "marker" \notin H \cup X
    BY <1>3
  <2> QED BY <1>1, <1>2, <1>6, <2>1, PlaceMarked DEF Placed
<1>7. ASSUME NEW k, Reads(k), NEW s, s # "done", NEW p \in Part \ Unplaced, Add(p, s),
             k \notin H, k # "marker", p = "body" \/ (current # NoUnit /\ k \in Bodies => HasPart(current, {"body"}))
      PROVE  Placed'
  BY <1>1, <1>2, <1>7, PlaceAdds DEF Placed
<1>8. "body" \in Part \ Unplaced /\ "rubric" \in Part \ Unplaced /\ "preface" \in Part \ Unplaced
  BY DEF Part, Unplaced
<1>9. ASSUME NEW k, Reads(k), k \notin H, k \notin X, k # "marker", state' = state,
             k \in Bodies /\ current # NoUnit => HasPart(current, {"body"}),
             UNCHANGED <<current, page, results>>
      PROVE  Placed'
  <2>1. state' # "done"
    BY <1>9, ReadsIs
  <2> QED BY <1>1, <1>2, <1>9, <2>1, PlacePasses DEF Placed
<1>10. CASE Skip({"skip"})
  <2>1. Reads("skip") /\ UNCHANGED <<book, state, current, page, section, pending, results>>
    BY <1>10 DEF Skip
  <2>2. "skip" \notin H /\ "skip" \notin X /\ "skip" # "marker" /\ "skip" \notin Bodies
    BY <1>3 DEF Bodies
  <2> DEFINE k == "skip"
  <2> HIDE DEF k
  <2>3. Reads(k) /\ k \notin H /\ k \notin X /\ k # "marker" /\ k \notin Bodies
    BY <2>1, <2>2 DEF k
  <2> QED BY <1>9, <2>1, <2>3
<1>11. CASE CollectHead
  <2>1. PICK k \in {"strong", "blank_strong"} :
            Reads(k) /\ Begin([NewUnit EXCEPT !.named = (k = "strong")], CollectEmit(current), "in_heading")
    BY <1>11 DEF CollectHead
  <2> DEFINE unit == [NewUnit EXCEPT !.named = (k = "strong")]
  <2>2. /\ unit \in Builder /\ unit.head = at /\ unit.named = (k = "strong") /\ unit.page = page
        /\ unit.text = <<>>
    BY NewUnitIs DEF Builder
  <2>3. current' = unit /\ results' = results \o CollectEmit(current) /\ state' = "in_heading" /\ page' = page
    BY <2>1 DEF Begin
  <2> HIDE DEF unit
  <2>4. Texts(unit) = {} /\ ~HasPart(unit, {"number"})
    BY <2>2, NoPieces
  <2>5. (k = "strong" <=> k \notin Z) /\ k \in H /\ state' # "done"
    BY <2>1, <2>3, <1>3
  <2> DEFINE emitted == CollectEmit(current)
  <2> HIDE DEF emitted
  <2>6. Emits(emitted, "body") /\ results' = results \o emitted
    BY <1>4, <2>3 DEF emitted
  <2>7. /\ current' \in Builder /\ current'.head = at
        /\ current'.named <=> k \notin Z
        /\ current'.page = page /\ Texts(current') = {} /\ ~HasPart(current', {"number"})
    BY <2>2, <2>3, <2>4, <2>5
  <2>8. Reads(k) /\ k \in H /\ state' # "done" /\ page' = page
    BY <2>1, <2>3, <2>5
  <2> QED BY <1>1, <1>2, <2>6, <2>7, <2>8, PlaceNew DEF Placed
<1>12. CASE CollectRubric
  <2> DEFINE k == "rubric"
  <2>1. Reads(k) /\ Add("rubric", state) /\ state # "done" /\ k \notin H /\ k # "marker" /\ k \notin Bodies
    BY <1>3, <1>12, ReadsIs DEF CollectRubric, Bodies
  <2> HIDE DEF k
  <2> QED BY <1>7, <1>8, <2>1
<1>13. CASE CollectParagraph
  <2>1. PICK k \in {"text", "amen", "preface"} :
            /\ Reads(k)
            /\ \/ state = "idle" /\ Add("body", state)
               \/ state # "idle" /\ BodyParagraph(k)
               \/ k = "preface" /\ Preface
    BY <1>13 DEF CollectParagraph
  <2>2. k \notin H /\ k # "marker" /\ state # "done"
    BY <1>3, <2>1, ReadsIs
  <2>3. CASE Add("body", state)
    BY <1>7, <1>8, <2>1, <2>2, <2>3
  <2>4. CASE BodyParagraph(k)
    <3> DEFINE s == IF k = "amen" THEN "after_amen" ELSE IF state = "in_heading" THEN "in_body" ELSE state
    <3>1. Add("body", s) /\ s # "done"
      BY <2>2, <2>4 DEF BodyParagraph
    <3> HIDE DEF s
    <3> QED BY <1>7, <1>8, <2>1, <2>2, <3>1
  <2>5. CASE Preface /\ k = "preface"
    <3>1. current # NoUnit => HasPart(current, {"body"})
      BY <2>5 DEF Preface, CollectsInv
    <3>2. CASE Add("preface", "after_amen")
      BY <1>7, <1>8, <2>1, <2>2, <3>1, <3>2
    <3>3. CASE UNCHANGED <<book, state, current, page, section, pending, results>>
      <4>1. k \notin X
        BY <2>5, <1>3
      <4> QED BY <1>9, <2>1, <2>2, <3>1, <3>3, <4>1
    <3> QED BY <2>5, <3>2, <3>3 DEF Preface
  <2> QED BY <2>1, <2>3, <2>4, <2>5
<1>14. CASE CollectsEnd
  <2> DEFINE emitted == CollectEmit(current)
  <2>1. PageEnds(results \o emitted)
    BY <1>14 DEF CollectsEnd
  <2> HIDE DEF emitted
  <2>2. Emits(emitted, "body")
    BY <1>4 DEF emitted
  <2> QED BY <1>2, <2>1, <2>2, PlaceCloses DEF Placed
<1> QED BY <1>6, <1>10, <1>11, <1>12, <1>13, <1>14 DEF CollectsNext

-----------------------------------------------------------------------------
(* The prayers, with their sections.                                        *)

Sections == {"section", "section_beside"}
PrayerHeadings == {"heading"}
PrayerTexts == {"text", "rubric"}

SectionsRight(S) ==
    /\ section = LatestIn(S, at - 1)
    /\ \A u \in ToSet(results) : u.section = LatestIn(S, u.head)
    /\ current # NoUnit => current.section = LatestIn(S, current.head)

PrayersPlaced ==
    /\ KeepsPlace(PrayerHeadings, {}, PrayerTexts, "body")
    /\ SectionsRight(Of(Sections))

\* The sections, when the units are the same, or a new one has the section read last.
LEMMA SectionStep ==
    ASSUME PageRead, NEW S \in SUBSET (1 .. at - 1), NEW S2, NEW k, Reads(k), SectionsRight(S),
           \A u \in ToSet(results) : u.head \in 1 .. at - 1,
           \/ S2 = S \cup {at} /\ section' = at
           \/ S2 = S /\ section' = section,
           \A u \in ToSet(results') : \/ u \in ToSet(results)
                                      \/ current # NoUnit /\ u.head = current.head /\ u.section = current.section,
           \/ current' = NoUnit
           \/ current # NoUnit /\ current'.head = current.head /\ current'.section = current.section
           \/ current'.head = at /\ current'.section = section /\ section' = section /\ S2 = S
    PROVE  /\ section' = LatestIn(S2, at' - 1)
           /\ \A u \in ToSet(results') : u.section = LatestIn(S2, u.head)
           /\ current' # NoUnit => current'.section = LatestIn(S2, current'.head)
<1> DEFINE n == at - 1
<1>1. n \in Nat /\ at = n + 1 /\ at' - 1 = n + 1
  BY OfStep
<1>2. /\ section = LatestIn(S, n)
      /\ \A u \in ToSet(results) : u.section = LatestIn(S, u.head) /\ u.head \in 1 .. n
      /\ current # NoUnit => current.section = LatestIn(S, current.head) /\ current.head \in 1 .. n
  BY DEF SectionsRight, PageRead
<1>3. S \in SUBSET (1 .. n)
  OBVIOUS
<1> HIDE DEF n
<1>4. ASSUME NEW h \in 1 .. n PROVE LatestIn(S2, h) = LatestIn(S, h)
  <2>1. \A j \in 1 .. h : j \in S2 <=> j \in S
    BY <1>1
  <2> QED BY <2>1, LatestSame
<1>5. S2 = S => LatestIn(S2, n + 1) = section
  <2>1. n + 1 \in Nat /\ n <= n + 1 /\ \A j \in n + 1 .. n + 1 : j \notin S
    BY <1>1, <1>3
  <2>2. LatestIn(S, n + 1) = LatestIn(S, n)
    BY <1>1, <2>1, LatestOn
  <2> QED BY <1>2, <2>2
<1>6. n + 1 \in S2 => LatestIn(S2, n + 1) = n + 1
  <2>1. n + 1 \in Nat \ {0}
    BY <1>1
  <2> QED BY <2>1, LatestHere
<1>7. section' = LatestIn(S2, n + 1)
  BY <1>1, <1>5, <1>6
<1>8. \A u \in ToSet(results') : u.section = LatestIn(S2, u.head)
  BY <1>2, <1>4
<1>9. current' # NoUnit => current'.section = LatestIn(S2, current'.head)
  <2>1. CASE current # NoUnit /\ current'.head = current.head /\ current'.section = current.section
    BY <1>2, <1>4, <2>1
  <2>2. CASE current'.head = at /\ current'.section = section /\ section' = section /\ S2 = S
    BY <1>1, <1>5, <2>2
  <2> QED BY <2>1, <2>2
<1> QED BY <1>1, <1>7, <1>8, <1>9

\* Every step of the parser of the prayers keeps texts, pages and sections in place.
LEMMA PrayersPlace ==
    ASSUME PageRead, PrayersPlaced, PrayersNext PROVE PrayersPlaced'
<1> DEFINE H == PrayerHeadings
           X == PrayerTexts
           Placed == KeepsPlace(H, {}, X, "body")
           S == Of(Sections)
<1>1. Apart(H, {}, X)
  BY DEF Apart, PrayerHeadings, PrayerTexts, Bodies
<1>2. Placed /\ SectionsRight(S)
  BY DEF PrayersPlaced
<1>3. H = {"heading"} /\ X = {"text", "rubric"}
  BY DEF PrayerHeadings, PrayerTexts
<1>4. Emits(PrayerEmit(current), "body")
  <2>1. ~HasPart(NoUnit, {"body"})
    BY NewUnitIs, NoText
  <2> QED BY <2>1 DEF PrayerEmit, PageRead, Emits
<1>5. S \in SUBSET (1 .. at - 1) /\ \A u \in ToSet(results) : u.head \in 1 .. at - 1
  BY <1>2 DEF KeepsPlace, Kept, Under, Of
<1>6. ToSet(<<>>) = {} /\ ToSet(<<current>>) = {current} /\ results \in Seq(Builder) /\ current \in Builder
  BY ToSetOne DEF PageRead
<1> HIDE DEF H, X, S
<1>7. SUFFICES Placed' /\ SectionsRight(S)'
  BY DEF PrayersPlaced, H, X, S
<1> HIDE DEF Placed
<1>8. ASSUME NEW k, Reads(k),
             \/ k \in Sections /\ section' = at
             \/ k \notin Sections /\ section' = section,
             \A u \in ToSet(results') : \/ u \in ToSet(results)
                                        \/ current # NoUnit /\ u.head = current.head /\ u.section = current.section,
             \/ current' = NoUnit
             \/ current # NoUnit /\ current'.head = current.head /\ current'.section = current.section
             \/ current'.head = at /\ current'.section = section /\ section' = section /\ k \notin Sections
      PROVE  SectionsRight(S)'
  <2> DEFINE S2 == S'
  <2>1. S2 = (IF k \in Sections THEN S \cup {at} ELSE S)
    BY <1>8, OfStep DEF S
  <2> HIDE DEF S2
  <2>2. \/ S2 = S \cup {at} /\ section' = at
        \/ S2 = S /\ section' = section
    BY <1>8, <2>1
  <2>3. \/ current' = NoUnit
        \/ current # NoUnit /\ current'.head = current.head /\ current'.section = current.section
        \/ current'.head = at /\ current'.section = section /\ section' = section /\ S2 = S
    BY <1>8, <2>1
  <2>4. /\ section' = LatestIn(S2, at' - 1)
        /\ \A u \in ToSet(results') : u.section = LatestIn(S2, u.head)
        /\ current' # NoUnit => current'.section = LatestIn(S2, current'.head)
    BY <1>2, <1>5, <1>8, <2>2, <2>3, SectionStep
  <2> QED BY <2>4 DEF SectionsRight, S2
<1>9. \A u \in ToSet(results) : u \in ToSet(results)
  OBVIOUS
<1>10. CASE PageMarker
  <2>1. "marker" \notin H \cup X /\ "marker" \notin Sections
    BY <1>3 DEF Sections
  <2>2. Placed'
    BY <1>1, <1>2, <1>10, <2>1, PlaceMarked DEF Placed
  <2>3. /\ Reads("marker") /\ UNCHANGED <<section, results>>
        /\ current = NoUnit => current' = NoUnit
        /\ current # NoUnit => current'.head = current.head /\ current'.section = current.section
    BY <1>10, MarkerGoesTo
  <2> DEFINE k == "marker"
  <2>4. k \notin Sections /\ Reads(k)
    BY <2>1, <2>3
  <2> HIDE DEF k
  <2>5. SectionsRight(S)'
    BY <1>8, <2>3, <2>4
  <2> QED BY <2>2, <2>5
<1>11. ASSUME NEW k, Reads(k), NEW p \in {"body", "rubric"}, k \notin H, k # "marker", state # "done",
              k \in Bodies => p = "body", Add(p, state), k \notin Sections
       PROVE  Placed' /\ SectionsRight(S)'
  <2>1. p \in Part \ Unplaced
    BY DEF Part, Unplaced
  <2>2. Placed'
    BY <1>1, <1>2, <1>11, <2>1, PlaceAdds DEF Placed
  <2>3. /\ UNCHANGED <<section, results>>
        /\ current = NoUnit => current' = NoUnit
        /\ current # NoUnit => current'.head = current.head /\ current'.section = current.section
    BY <1>11, <2>1, TextGoesTo
  <2>4. SectionsRight(S)'
    BY <1>8, <1>11, <2>3
  <2> QED BY <2>2, <2>4
<1>12. CASE Skip({"skip", "cross_ref"})
  <2>1. PICK k \in {"skip", "cross_ref"} : Reads(k)
    BY <1>12 DEF Skip
  <2>2. UNCHANGED <<book, state, current, page, section, pending, results>> /\ state' # "done"
    BY <1>12, <2>1, ReadsIs DEF Skip
  <2>3. k \notin H /\ k \notin X /\ k # "marker" /\ k \notin Bodies /\ k \notin Sections
    BY <1>3, <2>1 DEF Bodies, Sections
  <2>4. Placed'
    BY <1>1, <1>2, <2>1, <2>2, <2>3, PlacePasses DEF Placed
  <2>5. SectionsRight(S)'
    BY <1>8, <2>1, <2>2, <2>3
  <2> QED BY <2>4, <2>5
<1>13. CASE PrayerHeading
  <2> DEFINE k == "heading"
             emitted == PrayerEmit(current)
  <2>1. Reads(k) /\ Begin(NewUnit, emitted, state) /\ k \in H /\ k \notin {} /\ k \notin Sections
    BY <1>13, <1>3 DEF PrayerHeading, Sections
  <2>2. Emits(emitted, "body")
    BY <1>4
  <2> HIDE DEF k, emitted
  <2>3. /\ current' = NewUnit /\ results' = results \o emitted /\ state' = state /\ UNCHANGED <<page, section>>
        /\ state # "done"
    BY <2>1, ReadsIs DEF Begin
  <2>4. /\ NewUnit \in Builder /\ NewUnit.head = at /\ NewUnit.named /\ NewUnit.page = page
        /\ NewUnit.section = section /\ Texts(NewUnit) = {} /\ ~HasPart(NewUnit, {"number"})
    BY NewUnitIs, NoPieces
  <2>5. Placed'
    <3>1. current'.named <=> k \notin {}
      BY <2>3, <2>4
    <3>2. /\ current' \in Builder /\ current'.head = at
          /\ current'.page = page /\ Texts(current') = {} /\ ~HasPart(current', {"number"})
      BY <2>3, <2>4
    <3>3. state' # "done" /\ page' = page
      BY <2>3
    <3> QED BY <1>1, <1>2, <2>1, <2>2, <2>3, <3>1, <3>2, <3>3, PlaceNew DEF Placed
  <2>6. \A u \in ToSet(results') : u \in ToSet(results) \/ (u = current /\ current # NoUnit)
    BY <1>6, <2>2, <2>3, ToSetConcat DEF Emits
  <2>7. SectionsRight(S)'
    BY <1>8, <2>1, <2>3, <2>4, <2>6
  <2> QED BY <2>5, <2>7
<1>14. CASE SectionAnchor
  <2>1. PICK k \in {"section", "section_beside"} :
            /\ Reads(k) /\ section' = at
            /\ current' = IF k = "section_beside" /\ current # NoUnit
                            THEN With(current, "body", at) ELSE current
            /\ UNCHANGED <<book, state, page, pending, results>>
    BY <1>14 DEF SectionAnchor
  <2>2. /\ k \in Sections /\ k \notin H /\ k \notin X /\ k # "marker" /\ state # "done"
        /\ k \in Bodies <=> k = "section_beside"
    BY <1>3, <2>1, ReadsIs DEF Sections, Bodies
  <2>3. CASE k = "section_beside" /\ current # NoUnit
    <3>1. current' = With(current, "body", at)
      BY <2>1, <2>3
    <3>2. at \in Nat /\ "body" \in Part /\ "body" \notin Unplaced
      BY DEF PageRead, Part, Unplaced
    <3>3. /\ current'.head = current.head /\ current'.section = current.section /\ current'.page = current.page
          /\ current'.named = current.named
          /\ Texts(current') = Texts(current) \cup {at}
          /\ \A parts : HasPart(current', parts) <=> HasPart(current, parts) \/ "body" \in parts
      BY <1>6, <3>1, <3>2, WithIs, PiecesWith
    <3>4. current' # NoUnit
      BY <2>3, <3>3 DEF NoUnit, PageRead
    <3>5. ~HasPart(current, {"number"})
      BY <1>2, <2>3, AtHand DEF Placed
    <3>6. current # NoUnit =>
              /\ current' # NoUnit /\ current'.head = current.head /\ current'.named = current.named
              /\ ~HasPart(current', {"number"})
              /\ \A j \in Texts(current) : j \in Texts(current')
              /\ \A j \in Texts(current') :
                    \/ j \in Texts(current) \/ j = at
                    \/ j \in 1 .. at - 1 /\ LatestIn(Of(H), j) = current.head
              /\ k \in X => at \in Texts(current')
              /\ HasPart(current, {"body"}) => HasPart(current', {"body"})
              /\ k \in Bodies => HasPart(current', {"body"})
      BY <2>2, <3>3, <3>4, <3>5
    <3>7. /\ page' = (IF k = "marker" THEN at ELSE page)
          /\ current # NoUnit =>
                current'.page = (IF k = "marker" /\ current.page = 0 THEN at ELSE current.page)
          /\ current = NoUnit => current' = NoUnit
          /\ state' # "done" /\ UNCHANGED results
      BY <2>1, <2>2, <2>3, <3>3
    <3>8. Placed'
      BY <1>1, <1>2, <2>1, <2>2, <3>6, <3>7, PlaceGoesOn DEF Placed
    <3>9. SectionsRight(S)'
      BY <1>8, <2>1, <2>2, <2>3, <3>3
    <3> QED BY <3>8, <3>9
  <2>4. CASE ~(k = "section_beside" /\ current # NoUnit)
    <3>1. UNCHANGED <<current, page, results>> /\ state' # "done"
      BY <2>1, <2>2, <2>4
    <3>2. Placed'
      BY <1>1, <1>2, <2>1, <2>2, <2>4, <3>1, PlacePasses DEF Placed
    <3>3. SectionsRight(S)'
      BY <1>8, <2>1, <2>2, <3>1
    <3> QED BY <3>2, <3>3
  <2> QED BY <2>3, <2>4
<1>15. CASE PrayerText
  <2>1. PICK k \in {"text", "rubric"} :
            Reads(k) /\ Add(IF k = "text" THEN "body" ELSE "rubric", state)
    BY <1>15 DEF PrayerText
  <2> DEFINE p == IF k = "text" THEN "body" ELSE "rubric"
  <2>2. p \in {"body", "rubric"} /\ k \notin H /\ k # "marker" /\ k \notin Sections
        /\ (k \in Bodies => p = "body") /\ state # "done"
    BY <1>3, <2>1, ReadsIs DEF Sections, Bodies
  <2>3. Add(p, state)
    BY <2>1
  <2> HIDE DEF p
  <2> QED BY <1>11, <2>1, <2>2, <2>3
<1>16. CASE PrayersEnd
  <2> DEFINE emitted == PrayerEmit(current)
  <2>1. PageEnds(results \o emitted) /\ Emits(emitted, "body")
    BY <1>4, <1>16 DEF PrayersEnd
  <2> HIDE DEF emitted
  <2>2. Placed'
    BY <1>2, <2>1, PlaceCloses DEF Placed
  <2>3. UNCHANGED <<html, at, section>> /\ current' = NoUnit /\ results' = results \o emitted
    BY <2>1 DEF PageEnds
  <2>4. \A u \in ToSet(results') : u \in ToSet(results) \/ (u = current /\ current # NoUnit)
    BY <1>6, <2>1, <2>3, ToSetConcat DEF Emits
  <2>5. S' = S
    BY <2>3, OfStays DEF S
  <2>6. SectionsRight(S)'
    BY <1>2, <2>3, <2>4, <2>5 DEF SectionsRight
  <2> QED BY <2>2, <2>6
<1> QED BY <1>10, <1>12, <1>13, <1>14, <1>15, <1>16 DEF PrayersNext

-----------------------------------------------------------------------------
(* The psalter.                                                             *)

PsalmHeadings == {"psalm_1", "psalm_2"}

\* What waits before the first psalm is days, and within a psalm its subheadings.
Waiting ==
    IF current = NoUnit
      THEN \A p \in ToSet(pending) : p[1] = "psday"
      ELSE \A p \in ToSet(pending) : /\ p[1] = "subheading" /\ p[2] \in 1 .. at - 1
                                     /\ LatestIn(Of(PsalmHeadings), p[2]) = current.head

PsalterPlaced ==
    /\ KeepsPlace(PsalmHeadings, {}, {"verse"}, "verse")
    /\ state # "done" => Waiting

\* A psalm is flushed with what waits.
LEMMA FlushedGoesTo ==
    ASSUME PageRead, PsalterInv, current # NoUnit
    PROVE  /\ Flushed \in Builder /\ Flushed.head = current.head /\ Flushed.named = current.named
           /\ Flushed.page = current.page
           /\ Pieces(Flushed) = Pieces(current) \cup ToSet(pending)
<1> DEFINE s == current.text
           t == pending
           both == s \o t
<1>1. s \in Seq(Piece) /\ t \in Seq({"psday", "subheading"} \X Nat) /\ current \in Builder
  BY DEF PageRead, Builder, PsalterInv
<1>2. {"psday", "subheading"} \X Nat \subseteq Piece
  BY DEF Piece, Part
<1>3. t \in Seq(Piece)
  BY <1>1, <1>2
<1>4. both \in Seq(Piece) /\ ToSet(both) = ToSet(s) \cup ToSet(t)
  <2> HIDE DEF s, t
  <2> QED BY <1>1, <1>3, ToSetConcat
<1>5. Flushed.page = current.page /\ Flushed.text = both
  <2> HIDE DEF both
  <2>1. Flushed = [current EXCEPT !.text = both]
    BY DEF Flushed, both
  <2> QED BY <2>1, <1>1, <1>4 DEF Builder
<1>6. \A unit : Pieces(unit) = ToSet(unit.text)
  BY DEF Pieces, ToSet
<1> HIDE DEF both
<1> QED BY <1>4, <1>5, <1>6, FlushedIs

\* A psalm begins, with the days that wait for it.
LEMMA DayGoesTo ==
    ASSUME PageRead, NEW k \in Nat
    PROVE  /\ WithDay(current, k) \in Builder
           /\ WithDay(current, k).head = current.head /\ WithDay(current, k).named = current.named
           /\ WithDay(current, k).page = current.page
           /\ \A p : p[1] # "psday" => (p \in Pieces(WithDay(current, k)) <=> p \in Pieces(current))
<1> DEFINE old == {i \in BeforeNextVerse(current) : current.text[i][1] = "psday"}
           m == Min(old)
           day == <<"psday", k>>
           text == [current.text EXCEPT ![m] = day]
           unit == [current EXCEPT !.text = text]
<1>1. current \in Builder /\ current.text \in Seq(Piece) /\ day \in Piece /\ "psday" \in Part
      /\ day[1] = "psday"
  BY DEF PageRead, Builder, Piece, Part
<1>2. CASE old = {}
  <2>1. WithDay(current, k) = With(current, "psday", k)
    BY <1>2 DEF WithDay
  <2> DEFINE more == With(current, "psday", k)
  <2>2. /\ more \in Builder /\ more.head = current.head /\ more.named = current.named
        /\ more.page = current.page /\ Pieces(more) = Pieces(current) \cup {day}
    BY <1>1, WithIs, PiecesWith
  <2> HIDE DEF more, day
  <2> QED BY <2>1, <2>2, <1>1 DEF more
<1>3. CASE old # {}
  <2>1. WithDay(current, k) = unit
    BY <1>3 DEF WithDay
  <2>2. old \in SUBSET (DOMAIN current.text) /\ \A i \in old : current.text[i][1] = "psday"
    BY DEF BeforeNextVerse
  <2> HIDE DEF old, day
  <2>3. DOMAIN current.text = 1 .. Len(current.text) /\ Len(current.text) \in Nat
    BY <1>1
  <2>4. old \in SUBSET Nat
    BY <2>2, <2>3
  <2>5. m \in DOMAIN current.text /\ current.text[m][1] = "psday"
    BY <1>3, <2>2, <2>4, MinIsThere
  <2> HIDE DEF m
  <2>6. text \in Seq(Piece) /\ DOMAIN text = DOMAIN current.text /\ text[m] = day
        /\ \A i \in DOMAIN current.text : i # m => text[i] = current.text[i]
    BY <1>1, <2>5
  <2> HIDE DEF text
  <2>7. /\ unit \in Builder /\ unit.head = current.head /\ unit.named = current.named /\ unit.text = text
        /\ unit.page = current.page
    BY <1>1, <2>6 DEF Builder
  <2> HIDE DEF unit
  <2>8. ASSUME NEW p, p[1] # "psday" PROVE p \in Pieces(unit) <=> p \in Pieces(current)
    BY <1>1, <2>5, <2>6, <2>7, <2>8 DEF Pieces
  <2> QED BY <2>1, <2>7, <2>8
<1> QED BY <1>2, <1>3

PsalmRows == {"psday", "subheading", "verse", "blank_verse", "skip"}

\* The psalm at hand goes on with an element that begins none.
LEMMA PsalmPlaceGoesOn ==
    ASSUME PageRead, PsalterPlaced, NEW k \in PsalmRows, Reads(k),
           UNCHANGED <<state, page, results>>,
           current = NoUnit => UNCHANGED current,
           current # NoUnit =>
              /\ current'.head = current.head /\ current'.named = current.named
              /\ current'.page = current.page
              /\ \A p \in Pieces(current) : p[1] # "psday" => p \in Pieces(current')
              /\ \A p \in Pieces(current') :
                    p[1] = "psday" \/ p \in Pieces(current) \/ p \in ToSet(pending) \/ p = <<"verse", at>>
              /\ k = "verse" => <<"verse", at>> \in Pieces(current'),
           \A p \in ToSet(pending') :
              IF current = NoUnit THEN p[1] = "psday"
                                  ELSE p \in ToSet(pending) \/ p = <<"subheading", at>>
    PROVE  PsalterPlaced'
<1> DEFINE H == PsalmHeadings
           X == {"verse"}
           S == Of(H)
           Placed == KeepsPlace(H, {}, X, "verse")
           part == "verse"
<1>1. Apart(H, {}, X)
  BY DEF Apart, PsalmHeadings, Bodies
<1>2. Placed /\ state # "done" /\ Waiting
  BY ReadsIs DEF PsalterPlaced
<1>3. /\ k \notin H /\ k # "marker" /\ (k \in X <=> k = "verse") /\ (k \in Bodies <=> k = "verse")
      /\ part \notin {"psday", "number", "subheading"} /\ part = "verse"
  BY DEF PsalmHeadings, PsalmRows, Bodies
<1>4. /\ state' # "done" /\ UNCHANGED results
      /\ page' = (IF k = "marker" THEN at ELSE page)
      /\ current # NoUnit =>
            current'.page = (IF k = "marker" /\ current.page = 0 THEN at ELSE current.page)
  BY <1>2, <1>3
<1>5. current # NoUnit => ~HasPart(current, {"number"}) /\ current.head = LatestIn(S, at - 1)
  BY <1>2, AtHand
<1>6. current # NoUnit => current' # NoUnit
  BY DEF NoUnit, PageRead
<1>7. current # NoUnit => \A p \in ToSet(pending) :
         p[1] = "subheading" /\ p[2] \in 1 .. at - 1 /\ LatestIn(S, p[2]) = current.head
  BY <1>2 DEF Waiting
<1>8. S' = S /\ S \in SUBSET (1 .. at - 1) /\ at' - 1 = at /\ at - 1 \in Nat
      /\ at \in Nat
  BY <1>3, OfStep DEF PageRead
<1> HIDE DEF S, part
<1>9. ASSUME current # NoUnit
      PROVE  /\ ~HasPart(current', {"number"})
             /\ \A j \in Texts(current) : j \in Texts(current')
             /\ \A j \in Texts(current') :
                   \/ j \in Texts(current) \/ j = at
                   \/ j \in 1 .. at - 1 /\ LatestIn(S, j) = current.head
             /\ k = "verse" => at \in Texts(current')
             /\ HasPart(current, {part}) => HasPart(current', {part})
             /\ k = "verse" => HasPart(current', {part})
  <2> DEFINE verse == <<"verse", at>>
  <2>1. verse[1] = part /\ verse[2] = at /\ verse[1] \notin Unplaced /\ verse[1] # "number"
    BY <1>3 DEF Unplaced
  <2>2. /\ \A p \in Pieces(current) : p[1] # "psday" => p \in Pieces(current')
        /\ \A p \in Pieces(current') :
              p[1] = "psday" \/ p \in Pieces(current) \/ p \in ToSet(pending) \/ p = verse
        /\ k = "verse" => verse \in Pieces(current')
    BY <1>9
  <2> HIDE DEF verse
  <2>3. ~HasPart(current', {"number"})
    BY <1>5, <1>7, <1>9, <2>1, <2>2, PartsArePieces
  <2>4. \A j \in Texts(current) : j \in Texts(current')
    BY <2>2, PartsArePieces DEF Unplaced
  <2>5. \A j \in Texts(current') :
           \/ j \in Texts(current) \/ j = at
           \/ j \in 1 .. at - 1 /\ LatestIn(S, j) = current.head
    BY <1>7, <1>9, <2>1, <2>2, PartsArePieces DEF Unplaced
  <2>6. k = "verse" => at \in Texts(current') /\ HasPart(current', {part})
    BY <2>1, <2>2, PartsArePieces
  <2>7. HasPart(current, {part}) => HasPart(current', {part})
    BY <1>3, <2>2, PartsArePieces
  <2> QED BY <2>3, <2>4, <2>5, <2>6, <2>7
<1>10. current # NoUnit =>
              /\ current' # NoUnit /\ current'.head = current.head /\ current'.named = current.named
              /\ ~HasPart(current', {"number"})
              /\ \A j \in Texts(current) : j \in Texts(current')
              /\ \A j \in Texts(current') :
                    \/ j \in Texts(current) \/ j = at
                    \/ j \in 1 .. at - 1 /\ LatestIn(Of(H), j) = current.head
              /\ k \in X => at \in Texts(current')
              /\ HasPart(current, {part}) => HasPart(current', {part})
              /\ k \in Bodies => HasPart(current', {part})
  BY <1>3, <1>6, <1>9 DEF S
<1> HIDE DEF H, X
<1>11. Placed'
  BY <1>1, <1>2, <1>3, <1>4, <1>10, PlaceGoesOn DEF part
<1>12. Waiting'
  <2>1. CASE current = NoUnit
    BY <2>1 DEF Waiting
  <2>2. CASE current # NoUnit
    <3>1. SUFFICES ASSUME NEW p \in ToSet(pending')
                   PROVE  p[1] = "subheading" /\ p[2] \in 1 .. at /\ LatestIn(S, p[2]) = current.head
      BY <2>2, <1>6, <1>8 DEF Waiting, S, H
    <3>2. CASE p \in ToSet(pending)
      <4>1. \A x \in 1 .. at - 1 : x \in 1 .. at
        BY <1>8
      <4> QED BY <1>7, <2>2, <3>2, <4>1
    <3>3. CASE p = <<"subheading", at>>
      <4> DEFINE n == at - 1
      <4>1. n \in Nat /\ at \in Nat /\ n <= at /\ \A j \in n + 1 .. at : j \notin S
        BY <1>8
      <4>2. at \in 1 .. at
        BY <1>8
      <4> HIDE DEF n
      <4>3. LatestIn(S, at) = LatestIn(S, n)
        BY <4>1, LatestOn
      <4> QED BY <1>5, <2>2, <3>3, <4>2, <4>3 DEF n
    <3> QED BY <2>2, <3>1, <3>2, <3>3
  <2> QED BY <2>1, <2>2
<1> QED BY <1>11, <1>12 DEF PsalterPlaced, H, X

\* Sorting the psalms neither adds one nor loses one.
LEMMA PsalmsSorted ==
    ASSUME PageRead, PsalterInv, PsalterEnds
    PROVE  ToSet(results') = ToSet(results) \cup ToSet(PsalmEmit(current))
<1> DEFINE units == results \o PsalmEmit(current)
           one == {i \in DOMAIN units : html[units[i].head] = "psalm_1"}
           two == {i \in DOMAIN units : html[units[i].head] = "psalm_2"}
           sorted == Selected(units, one) \o Selected(units, two)
<1>1. results' = sorted
  BY DEF PsalterEnds, PageEnds, Numbered
<1>2. results \in Seq(Builder) /\ PsalmEmit(current) \in Seq(Builder)
  BY PsalmCloses DEF PageRead, Closes
<1>3. units \in Seq(Builder) /\ ToSet(units) = ToSet(results) \cup ToSet(PsalmEmit(current))
  BY <1>2, ToSetConcat
<1>4. \A u \in ToSet(PsalmEmit(current)) : u = current /\ current # NoUnit
  BY PsalmCloses, ToSetOne
<1>5. \A u \in ToSet(units) : HeadsPsalm(u)
  BY <1>3, <1>4 DEF PsalterInv
<1> HIDE DEF units
<1>6. one \in SUBSET (DOMAIN units) /\ two \in SUBSET (DOMAIN units)
  OBVIOUS
<1>7. \A i \in DOMAIN units : i \in one \/ i \in two
  BY <1>5 DEF HeadsPsalm, ToSet
<1> HIDE DEF one, two
<1>8. /\ Selected(units, one) \in Seq(Builder) /\ Selected(units, two) \in Seq(Builder)
      /\ ToSet(Selected(units, one)) = {units[i] : i \in one}
      /\ ToSet(Selected(units, two)) = {units[i] : i \in two}
  BY <1>3, <1>6, SelectedIs
<1>9. ToSet(sorted) = {units[i] : i \in one} \cup {units[i] : i \in two}
  BY <1>8, ToSetConcat
<1> HIDE DEF sorted
<1>10. ToSet(sorted) = ToSet(units)
  BY <1>6, <1>7, <1>9 DEF ToSet
<1> QED BY <1>1, <1>3, <1>10

\* Every step of the parser of the psalter keeps verses in place.
LEMMA PsalterPlace ==
    ASSUME PageRead, PsalterInv, PsalterPlaced, PsalterNext PROVE PsalterPlaced'
<1> DEFINE H == PsalmHeadings
           X == {"verse"}
           Placed == KeepsPlace(H, {}, X, "verse")
<1>1. Apart(H, {}, X)
  BY DEF Apart, PsalmHeadings, Bodies
<1>2. Placed
  BY DEF PsalterPlaced
<1>3. Emits(PsalmEmit(current), "verse")
  <2>1. ~HasPart(NoUnit, {"verse"})
    BY NewUnitIs, NoText
  <2> QED BY <2>1 DEF PsalmEmit, PageRead, Emits
<1>4. at \in Nat /\ current \in Builder /\ ToSet(<<>>) = {} /\ \A x : ToSet(<<x>>) = {x}
  BY ToSetOne DEF PageRead
<1>5. state # "done" => Waiting
  BY DEF PsalterPlaced
<1>6. CASE Skip({"skip"})
  <2>1. Reads("skip") /\ UNCHANGED <<book, state, current, page, section, pending, results>>
    BY <1>6 DEF Skip
  <2>2. \A p \in ToSet(pending') : IF current = NoUnit THEN p[1] = "psday"
                                   ELSE p \in ToSet(pending) \/ p = <<"subheading", at>>
    BY <1>5, <2>1, ReadsIs DEF Waiting
  <2> DEFINE k == "skip"
  <2>3. k \in PsalmRows /\ k # "verse" /\ Reads(k)
    BY <2>1 DEF PsalmRows
  <2> HIDE DEF k
  <2> QED BY <2>1, <2>2, <2>3, PsalmPlaceGoesOn
<1>7. CASE PsalmStart
  <2>1. PICK k \in {"psalm_1", "psalm_2"} :
            /\ Reads(k)
            /\ results' = results \o PsalmEmit(current)
            /\ current' = IF current = NoUnit THEN [NewUnit EXCEPT !.text = pending] ELSE NewUnit
            /\ pending' = <<>>
            /\ UNCHANGED <<book, state, page, section>>
    BY <1>7 DEF PsalmStart
  <2>2. state # "done" /\ state' # "done"
    BY <2>1, ReadsIs
  <2>3. /\ NewUnit \in Builder /\ NewUnit.head = at /\ NewUnit.named /\ NewUnit.page = page
        /\ NewUnit.text = <<>>
    BY NewUnitIs
  <2>4. /\ current' \in Builder /\ current'.head = at /\ current'.named /\ current'.page = page
        /\ Texts(current') = {} /\ ~HasPart(current', {"number"})
    <3>1. CASE current # NoUnit
      BY <2>1, <2>3, <3>1, NoPieces
    <3>2. CASE current = NoUnit
      <4>1. pending \in Seq({"psday", "subheading"} \X Nat)
        BY DEF PsalterInv
      <4>2. pending \in Seq(Piece)
        BY <4>1 DEF Piece, Part
      <4>3. current' = [NewUnit EXCEPT !.text = pending]
        BY <2>1, <3>2
      <4>4. /\ current' \in Builder /\ current'.head = at /\ current'.named /\ current'.page = page
            /\ current'.text = pending
        BY <2>3, <4>2, <4>3 DEF Builder
      <4>5. \A p \in Pieces(current') : p[1] = "psday"
        BY <1>5, <2>2, <3>2, <4>4 DEF Pieces, Waiting, ToSet
      <4>6. Texts(current') = {}
        BY <4>5 DEF Texts, Unplaced
      <4>7. ~HasPart(current', {"number"})
        BY <4>5, PartsArePieces
      <4> QED BY <4>4, <4>6, <4>7
    <3> QED BY <3>1, <3>2
  <2> DEFINE emitted == PsalmEmit(current)
  <2>5. Emits(emitted, "verse") /\ results' = results \o emitted
    BY <1>3, <2>1
  <2>6. k \in H /\ (current'.named <=> k \notin {}) /\ page' = page
    BY <2>1, <2>4 DEF PsalmHeadings
  <2> HIDE DEF emitted, H, X
  <2>7. Placed'
    BY <1>1, <1>2, <2>1, <2>2, <2>4, <2>5, <2>6, PlaceNew
  <2>8. Waiting'
    <3>1. pending' = <<>>
      BY <2>1
    <3> QED BY <1>4, <3>1 DEF Waiting
  <2> QED BY <2>7, <2>8 DEF PsalterPlaced, H, X
<1>8. CASE Psday
  <2>1. /\ Reads("psday")
        /\ \/ current = NoUnit /\ pending' = <<<<"psday", at>>>> /\ UNCHANGED current
           \/ current # NoUnit /\ current' = WithDay(current, at) /\ UNCHANGED pending
        /\ UNCHANGED <<book, state, page, section, results>>
    BY <1>8 DEF Psday
  <2>2. ASSUME NEW p \in ToSet(pending')
        PROVE  IF current = NoUnit THEN p[1] = "psday" ELSE p \in ToSet(pending) \/ p = <<"subheading", at>>
    <3>1. current = NoUnit => p = <<"psday", at>>
      BY <1>4, <2>1
    <3> QED BY <2>1, <3>1
  <2>3. current # NoUnit =>
              /\ current'.head = current.head /\ current'.named = current.named
              /\ current'.page = current.page
              /\ \A p \in Pieces(current) : p[1] # "psday" => p \in Pieces(current')
              /\ \A p \in Pieces(current') :
                    p[1] = "psday" \/ p \in Pieces(current) \/ p \in ToSet(pending) \/ p = <<"verse", at>>
    BY <1>4, <2>1, DayGoesTo
  <2> DEFINE k == "psday"
  <2>4. k \in PsalmRows /\ k # "verse" /\ Reads(k)
    BY <2>1 DEF PsalmRows
  <2> HIDE DEF k
  <2> QED BY <2>1, <2>2, <2>3, <2>4, PsalmPlaceGoesOn
<1>9. CASE Subheading
  <2>1. /\ Reads("subheading")
        /\ \/ current = NoUnit /\ UNCHANGED <<current, pending>>
           \/ current # NoUnit /\ current' = Flushed /\ pending' = <<<<"subheading", at>>>>
        /\ UNCHANGED <<book, state, page, section, results>>
    BY <1>9 DEF Subheading
  <2>2. ASSUME NEW p \in ToSet(pending')
        PROVE  IF current = NoUnit THEN p[1] = "psday" ELSE p \in ToSet(pending) \/ p = <<"subheading", at>>
    <3>1. current # NoUnit => p = <<"subheading", at>>
      BY <1>4, <2>1
    <3>2. current = NoUnit => p[1] = "psday"
      BY <1>5, <2>1, ReadsIs DEF Waiting
    <3> QED BY <3>1, <3>2
  <2>3. current # NoUnit =>
              /\ current'.head = current.head /\ current'.named = current.named
              /\ current'.page = current.page
              /\ \A p \in Pieces(current) : p[1] # "psday" => p \in Pieces(current')
              /\ \A p \in Pieces(current') :
                    p[1] = "psday" \/ p \in Pieces(current) \/ p \in ToSet(pending) \/ p = <<"verse", at>>
    BY <2>1, FlushedGoesTo
  <2> DEFINE k == "subheading"
  <2>4. k \in PsalmRows /\ k # "verse" /\ Reads(k)
    BY <2>1 DEF PsalmRows
  <2> HIDE DEF k
  <2> QED BY <2>1, <2>2, <2>3, <2>4, PsalmPlaceGoesOn
<1>10. CASE Verse
  <2>1. PICK k \in {"verse", "blank_verse"} :
        /\ Reads(k)
        /\ \/ current = NoUnit /\ UNCHANGED <<current, pending>>
           \/ /\ current # NoUnit /\ pending' = <<>>
              /\ current' = IF k = "verse" THEN With(Flushed, "verse", at) ELSE Flushed
        /\ UNCHANGED <<book, state, page, section, results>>
    BY <1>10 DEF Verse
  <2>2. ASSUME NEW p \in ToSet(pending')
        PROVE  IF current = NoUnit THEN p[1] = "psday" ELSE p \in ToSet(pending) \/ p = <<"subheading", at>>
    <3>1. current # NoUnit => FALSE
      BY <1>4, <2>1, <2>2
    <3>2. current = NoUnit => p[1] = "psday"
      BY <1>5, <2>1, <2>2, ReadsIs DEF Waiting
    <3> QED BY <3>1, <3>2
  <2>3. current # NoUnit =>
              /\ current'.head = current.head /\ current'.named = current.named
              /\ current'.page = current.page
              /\ \A p \in Pieces(current) : p[1] # "psday" => p \in Pieces(current')
              /\ \A p \in Pieces(current') :
                    p[1] = "psday" \/ p \in Pieces(current) \/ p \in ToSet(pending) \/ p = <<"verse", at>>
              /\ k = "verse" => <<"verse", at>> \in Pieces(current')
    <3>1. SUFFICES ASSUME current # NoUnit
                   PROVE  /\ current'.head = current.head /\ current'.named = current.named
                          /\ current'.page = current.page
                          /\ \A p \in Pieces(current) : p \in Pieces(current')
                          /\ \A p \in Pieces(current') :
                                p \in Pieces(current) \/ p \in ToSet(pending) \/ p = <<"verse", at>>
                          /\ k = "verse" => <<"verse", at>> \in Pieces(current')
      OBVIOUS
    <3>2. /\ Flushed \in Builder /\ Flushed.head = current.head /\ Flushed.named = current.named
          /\ Flushed.page = current.page
          /\ Pieces(Flushed) = Pieces(current) \cup ToSet(pending)
      BY <3>1, FlushedGoesTo
    <3>3. CASE k = "verse"
      <4>1. current' = With(Flushed, "verse", at) /\ "verse" \in Part
        BY <2>1, <3>1, <3>3 DEF Part
      <4> DEFINE unit == Flushed
      <4> HIDE DEF unit
      <4>2. unit \in Builder /\ current' = With(unit, "verse", at)
        BY <3>2, <4>1 DEF unit
      <4>3. /\ current'.head = unit.head /\ current'.named = unit.named /\ current'.page = unit.page
            /\ Pieces(current') = Pieces(unit) \cup {<<"verse", at>>}
        BY <1>4, <4>1, <4>2, WithIs, PiecesWith
      <4> QED BY <3>2, <4>3 DEF unit
    <3>4. CASE k = "blank_verse"
      BY <2>1, <3>1, <3>2, <3>4
    <3> QED BY <3>3, <3>4
  <2>4. k \in PsalmRows /\ Reads(k)
    BY <2>1 DEF PsalmRows
  <2> QED BY <2>1, <2>2, <2>3, <2>4, PsalmPlaceGoesOn
<1>11. CASE PsalterEnds
  <2> DEFINE emitted == PsalmEmit(current)
             units == results \o emitted
             one == Numbered(units, "psalm_1")
             two == Numbered(units, "psalm_2")
             all == one \o two
             E == ToSet(emitted)
  <2>1. PageEnds(all)
    BY <1>11 DEF PsalterEnds
  <2>2. /\ UNCHANGED <<html, at>> /\ state # "done" /\ state' = "done" /\ current' = NoUnit /\ results' = all
    BY <2>1 DEF PageEnds
  <2>3. Emits(emitted, "verse") /\ results \in Seq(Builder)
    BY <1>3 DEF PageRead
  <2>4. ToSet(results') = ToSet(results) \cup E
    BY <1>11, PsalmsSorted
  <2>5. /\ \A u \in E : u = current /\ current # NoUnit
        /\ current # NoUnit /\ current.named /\ HasPart(current, {"verse"}) => current \in E
    <3> HIDE DEF emitted
    <3> QED BY <2>3, ToSetOne DEF Emits
  <2> HIDE DEF H, X, E
  <2>6. Placed'
    BY <1>2, <2>2, <2>4, <2>5, PlaceEnds
  <2> QED BY <2>2, <2>6 DEF PsalterPlaced, H, X
<1> QED BY <1>6, <1>7, <1>8, <1>9, <1>10, <1>11 DEF PsalterNext

-----------------------------------------------------------------------------
(* The proper liturgies.                                                    *)

\* LatestIn when one more element is read.
LEMMA LatestStep ==
    ASSUME NEW n \in Nat, NEW S \in SUBSET (1 .. n), NEW S2, S2 = S \/ S2 = S \cup {n + 1}
    PROVE  /\ \A h \in 0 .. n : LatestIn(S2, h) = LatestIn(S, h)
           /\ LatestIn(S2, n + 1) = IF n + 1 \in S2 THEN n + 1 ELSE LatestIn(S, n)
<1>1. ASSUME NEW h \in 0 .. n PROVE LatestIn(S2, h) = LatestIn(S, h)
  <2>1. \A j \in 1 .. h : j \in S2 <=> j \in S
    OBVIOUS
  <2> QED BY <2>1, LatestSame
<1>2. n + 1 \in S2 => LatestIn(S2, n + 1) = n + 1
  <2>1. n + 1 \in Nat \ {0}
    OBVIOUS
  <2> QED BY <2>1, LatestHere
<1>3. n + 1 \notin S2 => LatestIn(S2, n + 1) = LatestIn(S, n)
  <2>1. n + 1 \in Nat /\ n <= n + 1 /\ \A j \in n + 1 .. n + 1 : j \notin S
    OBVIOUS
  <2>2. LatestIn(S, n + 1) = LatestIn(S, n)
    BY <2>1, LatestOn
  <2> QED BY <2>2
<1> QED BY <1>1, <1>2, <1>3

\* A unit is appended.
LEMMA OneMore ==
    ASSUME NEW units \in Seq(Builder), NEW unit \in Builder
    PROVE  ToSet(Append(units, unit)) = ToSet(units) \cup {unit}
<1> DEFINE last == <<unit>>
<1>1. Append(units, unit) = units \o last /\ last \in Seq(Builder) /\ ToSet(last) = {unit}
  BY ToSetOne
<1> HIDE DEF last
<1>2. ToSet(units \o last) = ToSet(units) \cup ToSet(last)
  BY <1>1, ToSetConcat
<1> QED BY <1>1, <1>2

\* The sections C, of which the headings One name none.
SectionAt(C, One, k) == IF LatestIn(C, k) \in One THEN 0 ELSE LatestIn(C, k)

\* A unit of the proper liturgies has the text it is headed by, the page and the
\* section read last, and the last number of a psalm.
ProperRight(unit, M, C, One, P) ==
    /\ Texts(unit) = {unit.head}
    /\ unit.page = LatestIn(M, unit.head)
    /\ unit.section = SectionAt(C, One, unit.head)
    /\ \A p \in Pieces(unit) : p[1] = "number" => p[2] = LatestIn(P, unit.head)

\* And every text is a unit.
ShelfRight(S, M, C, One, P, units) ==
    /\ \A u \in units : u.head \in S /\ ProperRight(u, M, C, One, P)
    /\ \A h \in S : \E u \in units : u.head = h

\* Units that are right stay right when one more element is read.
LEMMA ShelfOn ==
    ASSUME NEW n \in Nat, NEW S \in SUBSET (1 .. n), NEW M \in SUBSET (1 .. n),
           NEW C \in SUBSET (1 .. n), NEW One \in SUBSET (1 .. n), NEW P \in SUBSET (1 .. n),
           NEW S2, S2 = S \/ S2 = S \cup {n + 1}, NEW M2, M2 = M \/ M2 = M \cup {n + 1},
           NEW C2, C2 = C \/ C2 = C \cup {n + 1}, NEW One2, One2 = One \/ One2 = One \cup {n + 1},
           NEW P2, P2 = P \/ P2 = P \cup {n + 1},
           NEW units, ShelfRight(S, M, C, One, P, units), NEW E,
           n + 1 \in S2 => \E u \in E : u.head = n + 1,
           \A u \in E : u.head \in S2 /\ ProperRight(u, M2, C2, One2, P2)
    PROVE  ShelfRight(S2, M2, C2, One2, P2, units \cup E)
<1>0. \A x \in S : x \in 1 .. n /\ x \in 0 .. n /\ x \in Nat
  OBVIOUS
<1>1. ASSUME NEW u \in units PROVE u.head \in S2 /\ ProperRight(u, M2, C2, One2, P2)
  <2>1. u.head \in S /\ ProperRight(u, M, C, One, P)
    BY DEF ShelfRight
  <2> DEFINE h == u.head
  <2>2. h \in 1 .. n /\ h \in 0 .. n /\ h \in Nat
    BY <1>0, <2>1
  <2> HIDE DEF h
  <2>3. LatestIn(M2, h) = LatestIn(M, h)
    BY <2>2, LatestStep
  <2>4. LatestIn(C2, h) = LatestIn(C, h)
    BY <2>2, LatestStep
  <2>5. LatestIn(P2, h) = LatestIn(P, h)
    BY <2>2, LatestStep
  <2>6. LatestIn(C, h) \in 0 .. n
    <3>1. LatestIn(C, h) \in 0 .. h
      BY <2>2, LatestIs
    <3> QED BY <2>2, <3>1
  <2>7. LatestIn(C, h) \in One2 <=> LatestIn(C, h) \in One
    BY <2>6
  <2>8. SectionAt(C2, One2, h) = SectionAt(C, One, h)
    BY <2>4, <2>7 DEF SectionAt
  <2> QED BY <2>1, <2>3, <2>5, <2>8 DEF ProperRight, h
<1>2. ASSUME NEW h \in S2 PROVE \E u \in units \cup E : u.head = h
  <2>1. h \in S \/ h = n + 1
    OBVIOUS
  <2>2. h \in S => \E u \in units : u.head = h
    BY DEF ShelfRight
  <2> QED BY <2>1, <2>2
<1> QED BY <1>1, <1>2 DEF ShelfRight

-----------------------------------------------------------------------------
ProperHeadings == ProperKinds \ {"marker", "skip", "h1", "h2"}
ProperSections == {"h1", "h2", "h2_id", "strong"}

ProperPlaced ==
    /\ Of(ProperKinds) = 1 .. at - 1
    /\ ShelfRight(Of(ProperHeadings), Of({"marker"}), Of(ProperSections), Of({"h1"}), Of({"psalm"}),
                  ToSet(results))
    /\ state # "done" => /\ page = LatestIn(Of({"marker"}), at - 1)
                         /\ section = SectionAt(Of(ProperSections), Of({"h1"}), at - 1)
                         /\ PsalmNumber = LatestIn(Of({"psalm"}), at - 1)

\* An element is read, and what it says of page, section and psalm is taken down.
LEMMA ProperStep ==
    ASSUME PageRead, ProperPlaced, NEW k \in ProperKinds, Reads(k), state' = state,
           page' = (IF k = "marker" THEN at ELSE page),
           section' = (IF k = "h1" THEN 0 ELSE IF k \in ProperSections THEN at ELSE section),
           PsalmNumber' = (IF k = "psalm" THEN at ELSE PsalmNumber),
           NEW E, ToSet(results') = ToSet(results) \cup E,
           k \in ProperHeadings => \E u \in E : u.head = at,
           \A u \in E : /\ k \in ProperHeadings /\ u.head = at
                        /\ Texts(u) = {at} /\ u.page = page' /\ u.section = section'
                        /\ \A p \in Pieces(u) : p[1] = "number" => p[2] = PsalmNumber'
    PROVE  ProperPlaced'
<1> DEFINE n == at - 1
           S == Of(ProperHeadings)
           M == Of({"marker"})
           C == Of(ProperSections)
           One == Of({"h1"})
           P == Of({"psalm"})
           S2 == S'
           M2 == M'
           C2 == C'
           One2 == One'
           P2 == P'
           units == ToSet(results)
           units2 == units'
           number == PsalmNumber
           number2 == number'
<1>1. /\ n \in Nat /\ S \in SUBSET (1 .. n) /\ M \in SUBSET (1 .. n) /\ C \in SUBSET (1 .. n)
      /\ One \in SUBSET (1 .. n) /\ P \in SUBSET (1 .. n)
  BY DEF PageRead, Of
<1>2. state # "done" /\ at = n + 1 /\ at' - 1 = n + 1 /\ Of(ProperKinds)' = 1 .. n + 1
  <2>1. state # "done" /\ at = n + 1 /\ at' - 1 = at /\ Of(ProperKinds)' = Of(ProperKinds) \cup {at}
    BY OfStep
  <2>2. 1 .. n + 1 = (1 .. n) \cup {n + 1}
    BY <1>1
  <2> QED BY <2>1, <2>2 DEF ProperPlaced
<1>3. /\ S2 = IF k \in ProperHeadings THEN S \cup {n + 1} ELSE S
      /\ M2 = IF k = "marker" THEN M \cup {n + 1} ELSE M
      /\ C2 = IF k \in ProperSections THEN C \cup {n + 1} ELSE C
      /\ One2 = IF k = "h1" THEN One \cup {n + 1} ELSE One
      /\ P2 = IF k = "psalm" THEN P \cup {n + 1} ELSE P
  BY <1>2, OfStep
<1>4. /\ ShelfRight(S, M, C, One, P, units) /\ page = LatestIn(M, n)
      /\ section = SectionAt(C, One, n) /\ number = LatestIn(P, n)
  BY <1>2 DEF ProperPlaced
<1>5. "h1" \in ProperSections /\ "h1" \notin ProperHeadings
  BY DEF ProperSections, ProperHeadings
<1>6. ASSUME ShelfRight(S2, M2, C2, One2, P2, units2), page' = LatestIn(M2, n + 1),
             section' = SectionAt(C2, One2, n + 1), number2 = LatestIn(P2, n + 1)
      PROVE  ProperPlaced'
  <2> HIDE DEF n
  <2>1. 1 .. at' - 1 = 1 .. n + 1
    BY <1>2
  <2> QED BY <1>2, <1>6, <2>1 DEF ProperPlaced
<1>7. number2 = IF k = "psalm" THEN n + 1 ELSE number
  BY <1>2
<1>8. units2 = units \cup E
  OBVIOUS
<1>9. \A u \in E : /\ k \in ProperHeadings /\ u.head = n + 1
                   /\ Texts(u) = {n + 1} /\ u.page = page' /\ u.section = section'
                   /\ \A p \in Pieces(u) : p[1] = "number" => p[2] = number2
  BY <1>2
<1> HIDE DEF n, S, M, C, One, P, S2, M2, C2, One2, P2, units, units2, number, number2
<1>10. n + 1 \notin S /\ n + 1 \notin M /\ n + 1 \notin C /\ n + 1 \notin One /\ n + 1 \notin P
  BY <1>1
<1>11. page' = LatestIn(M2, n + 1)
  <2>1. M2 = M \/ M2 = M \cup {n + 1}
    BY <1>3
  <2>2. LatestIn(M2, n + 1) = IF n + 1 \in M2 THEN n + 1 ELSE LatestIn(M, n)
    BY <1>1, <2>1, LatestStep
  <2> QED BY <1>2, <1>3, <1>4, <1>10, <2>2
<1>12. number2 = LatestIn(P2, n + 1)
  <2>1. P2 = P \/ P2 = P \cup {n + 1}
    BY <1>3
  <2>2. LatestIn(P2, n + 1) = IF n + 1 \in P2 THEN n + 1 ELSE LatestIn(P, n)
    BY <1>1, <2>1, LatestStep
  <2> QED BY <1>3, <1>4, <1>7, <1>10, <2>2
<1>13. section' = SectionAt(C2, One2, n + 1)
  <2>1. C2 = C \/ C2 = C \cup {n + 1}
    BY <1>3
  <2>2. LatestIn(C2, n + 1) = IF n + 1 \in C2 THEN n + 1 ELSE LatestIn(C, n)
    BY <1>1, <2>1, LatestStep
  <2>3. CASE k = "h1"
    BY <1>3, <1>5, <2>2, <2>3 DEF SectionAt
  <2>4. CASE k # "h1" /\ k \in ProperSections
    BY <1>2, <1>3, <1>10, <2>2, <2>4 DEF SectionAt
  <2>5. CASE k # "h1" /\ k \notin ProperSections
    BY <1>3, <1>4, <1>10, <2>2, <2>5 DEF SectionAt
  <2> QED BY <2>3, <2>4, <2>5
<1>14. ShelfRight(S2, M2, C2, One2, P2, units \cup E)
  <2>1. /\ S2 = S \/ S2 = S \cup {n + 1}
        /\ M2 = M \/ M2 = M \cup {n + 1}
        /\ C2 = C \/ C2 = C \cup {n + 1}
        /\ One2 = One \/ One2 = One \cup {n + 1}
        /\ P2 = P \/ P2 = P \cup {n + 1}
    BY <1>3
  <2>2. n + 1 \in S2 => \E u \in E : u.head = n + 1
    BY <1>2, <1>3, <1>10
  <2>3. ASSUME NEW u \in E PROVE u.head \in S2 /\ ProperRight(u, M2, C2, One2, P2)
    BY <1>3, <1>9, <1>11, <1>12, <1>13 DEF ProperRight
  <2> QED BY <1>1, <1>4, <2>1, <2>2, <2>3, ShelfOn
<1> QED BY <1>6, <1>8, <1>11, <1>12, <1>13, <1>14

\* Every step of the parser of the proper liturgies keeps its units right.
LEMMA ProperPlace ==
    ASSUME PageRead, ProperInv, ProperPlaced, ProperNext PROVE ProperPlaced'
<1>1. /\ at \in Nat /\ results \in Seq(Builder) /\ current = NoUnit
      /\ \A x : ToSet(<<x>>) = {x}
  BY ToSetOne DEF PageRead, ProperInv
<1>2. /\ NewUnit \in Builder /\ NewUnit.head = at /\ NewUnit.page = page /\ NewUnit.section = section
      /\ NewUnit.text = <<>>
  BY NewUnitIs
<1>3. UNCHANGED pending => PsalmNumber' = PsalmNumber
  BY DEF PsalmNumber
<1>4. ASSUME NEW k \in ProperKinds \ ProperHeadings, Reads(k), UNCHANGED <<results, pending, state>>,
             page' = (IF k = "marker" THEN at ELSE page),
             section' = (IF k = "h1" THEN 0 ELSE IF k \in ProperSections THEN at ELSE section)
      PROVE  ProperPlaced'
  <2> DEFINE E == {}
  <2>1. ToSet(results') = ToSet(results) \cup E /\ k \notin ProperHeadings /\ \A u : u \notin E
    BY <1>4
  <2>2. PsalmNumber' = (IF k = "psalm" THEN at ELSE PsalmNumber)
    BY <1>3, <1>4 DEF ProperHeadings, ProperKinds
  <2> HIDE DEF E
  <2> QED BY <1>4, <2>1, <2>2, ProperStep
<1>5. ASSUME NEW k \in ProperHeadings \ {"psalm", "verses"}, Reads(k), NEW part \in Part \ Unplaced, EmitUnit(part),
             UNCHANGED <<pending, state, page>>,
             section' = (IF k \in ProperSections THEN at ELSE section)
      PROVE  ProperPlaced'
  <2> DEFINE blank == [NewUnit EXCEPT !.section = section']
             unit == With(blank, part, at)
             E == {unit}
  <2>1. k # "marker" /\ k # "h1" /\ k # "psalm" /\ k \in ProperKinds /\ k \in ProperHeadings
    BY DEF ProperHeadings
  <2>2. section' \in Nat
    BY <1>1, <1>5 DEF PageRead
  <2>3. /\ blank \in Builder /\ blank.head = at /\ blank.page = page /\ blank.section = section'
        /\ blank.text = <<>>
    BY <1>2, <2>2 DEF Builder
  <2>4. results' = Append(results, With(blank, part, at))
    BY <1>5 DEF EmitUnit
  <2> HIDE DEF blank
  <2>5. /\ unit \in Builder /\ unit.head = at /\ unit.page = page /\ unit.section = section'
        /\ Texts(unit) = {at} /\ Pieces(unit) = {<<part, at>>}
    BY <1>1, <2>3, WithIs, PiecesWith, NoPieces
  <2>6. ToSet(results') = ToSet(results) \cup E
    <3> HIDE DEF unit
    <3>1. results' = Append(results, unit)
      BY <2>4 DEF unit
    <3> QED BY <1>1, <2>5, <3>1, OneMore
  <2>7. PsalmNumber' = (IF k = "psalm" THEN at ELSE PsalmNumber)
    BY <1>3, <1>5, <2>1
  <2>8. part # "number"
    BY DEF Unplaced
  <2>9. /\ page' = (IF k = "marker" THEN at ELSE page)
        /\ section' = (IF k = "h1" THEN 0 ELSE IF k \in ProperSections THEN at ELSE section)
        /\ state' = state /\ Reads(k)
    BY <1>5, <2>1
  <2> HIDE DEF unit
  <2>10. /\ \E u \in E : u.head = at
         /\ \A u \in E : /\ k \in ProperHeadings /\ u.head = at
                        /\ Texts(u) = {at} /\ u.page = page' /\ u.section = section'
                        /\ \A p \in Pieces(u) : p[1] = "number" => p[2] = PsalmNumber'
    BY <1>5, <2>5, <2>8
  <2> HIDE DEF E
  <2> QED BY <2>1, <2>6, <2>7, <2>9, <2>10, ProperStep
<1>6. CASE ProperPage
  <2> DEFINE k == "marker"
  <2>1. /\ k \in ProperKinds \ ProperHeadings /\ Reads(k) /\ UNCHANGED <<results, pending, state>>
        /\ page' = (IF k = "marker" THEN at ELSE page)
        /\ section' = (IF k = "h1" THEN 0 ELSE IF k \in ProperSections THEN at ELSE section)
    BY <1>6 DEF ProperPage, ProperKinds, ProperHeadings, ProperSections
  <2> HIDE DEF k
  <2> QED BY <1>4, <2>1
<1>7. CASE Skip({"skip"})
  <2> DEFINE k == "skip"
  <2>1. /\ k \in ProperKinds \ ProperHeadings /\ Reads(k) /\ UNCHANGED <<results, pending, state>>
        /\ page' = (IF k = "marker" THEN at ELSE page)
        /\ section' = (IF k = "h1" THEN 0 ELSE IF k \in ProperSections THEN at ELSE section)
    BY <1>7 DEF Skip, ProperKinds, ProperHeadings, ProperSections
  <2> HIDE DEF k
  <2> QED BY <1>4, <2>1
<1>8. CASE ProperHeading
  <2>1. PICK k \in {"h1", "h2", "h2_id", "strong"} :
            /\ Reads(k)
            /\ section' = IF k = "h1" THEN 0 ELSE at
            /\ IF k \in {"h2_id", "strong"} THEN EmitUnit("rubric") ELSE UNCHANGED results
            /\ UNCHANGED <<book, state, current, page, pending>>
    BY <1>8 DEF ProperHeading
  <2>2. CASE k \in {"h2_id", "strong"}
    <3>1. k \in ProperHeadings \ {"psalm", "verses"} /\ "rubric" \in Part \ Unplaced /\ EmitUnit("rubric")
      BY <2>1, <2>2 DEF ProperHeadings, ProperKinds, Part, Unplaced
    <3>2. section' = (IF k \in ProperSections THEN at ELSE section)
      BY <2>1, <2>2 DEF ProperSections
    <3> QED BY <1>5, <2>1, <3>1, <3>2
  <2>3. CASE k \in {"h1", "h2"}
    <3>1. k \in ProperKinds \ ProperHeadings /\ UNCHANGED results
      BY <2>1, <2>3 DEF ProperHeadings, ProperKinds
    <3>2. /\ page' = (IF k = "marker" THEN at ELSE page)
          /\ section' = (IF k = "h1" THEN 0 ELSE IF k \in ProperSections THEN at ELSE section)
      BY <2>1, <2>3 DEF ProperSections
    <3> QED BY <1>4, <2>1, <3>1, <3>2
  <2> QED BY <2>2, <2>3
<1>9. CASE ProperText
  <2>1. PICK k \in {"rubric", "optional", "speakers", "table", "text"} :
            /\ Reads(k)
            /\ UNCHANGED <<book, state, current, page, section, pending>>
            /\ EmitUnit(CASE k = "rubric" -> "rubric" [] k = "speakers" -> "speaker-line"
                          [] OTHER -> "prayer-body")
    BY <1>9 DEF ProperText
  <2>2. PICK part \in Part \ Unplaced : EmitUnit(part)
    BY <2>1 DEF Part, Unplaced
  <2>3. k \in ProperHeadings \ {"psalm", "verses"} /\ section' = (IF k \in ProperSections THEN at ELSE section)
    BY <2>1 DEF ProperHeadings, ProperKinds, ProperSections
  <2> QED BY <1>5, <2>1, <2>2, <2>3
<1>10. CASE EmbeddedPsalm
  <2>1. PICK k \in {"psalm", "verses"} :
            /\ Reads(k)
            /\ UNCHANGED <<book, state, current, page, section>>
            /\ pending' = IF k = "psalm" THEN <<at>> ELSE pending
            /\ results' = Append(results,
                   With(With(NewUnit, "number", PsalmNumber'), "psalm-verse", at))
    BY <1>10 DEF EmbeddedPsalm
  <2> DEFINE number == PsalmNumber'
             blank == With(NewUnit, "number", number)
             unit == With(blank, "psalm-verse", at)
             E == {unit}
  <2>2. pending' \in Seq(Nat)
    BY <1>1, <2>1 DEF ProperInv
  <2>3. number \in Nat
    <3>1. \A q \in Seq(Nat) : q # <<>> => q[1] \in Nat
      OBVIOUS
    <3>2. number = IF pending' = <<>> THEN 0 ELSE pending'[1]
      BY DEF PsalmNumber
    <3> QED BY <2>2, <3>1, <3>2
  <2>4. number = IF k = "psalm" THEN at ELSE PsalmNumber
    BY <2>1 DEF PsalmNumber
  <2>5. "number" \in Part /\ "number" \in Unplaced /\ "psalm-verse" \in Part /\ "psalm-verse" \notin Unplaced
    BY DEF Part, Unplaced
  <2>6. results' = Append(results, unit)
    BY <2>1
  <2> HIDE DEF number
  <2>7. /\ blank \in Builder /\ blank.head = at /\ blank.page = page /\ blank.section = section
        /\ Texts(blank) = {} /\ Pieces(blank) = {<<"number", number>>}
    <3> DEFINE first == NewUnit
               part == "number"
    <3>1. /\ first \in Builder /\ first.head = at /\ first.page = page /\ first.section = section
          /\ Pieces(first) = {} /\ Texts(first) = {} /\ part \in Part /\ part \in Unplaced
          /\ blank = With(first, part, number)
      BY <1>2, <2>5, NoPieces
    <3> HIDE DEF first, part, blank
    <3>2. /\ blank \in Builder /\ blank.head = at /\ blank.page = page /\ blank.section = section
          /\ Texts(blank) = {} /\ Pieces(blank) = {<<part, number>>}
      BY <2>3, <3>1, WithIs, PiecesWith
    <3> QED BY <3>2 DEF part
  <2> HIDE DEF blank
  <2>8. /\ unit \in Builder /\ unit.head = at /\ unit.page = page /\ unit.section = section
        /\ Texts(unit) = {at} /\ Pieces(unit) = {<<"number", number>>, <<"psalm-verse", at>>}
    <3> DEFINE part == "psalm-verse"
    <3>1. part \in Part /\ part \notin Unplaced /\ unit = With(blank, part, at)
      BY <2>5
    <3> HIDE DEF part, unit
    <3>2. /\ unit \in Builder /\ unit.head = at /\ unit.page = page /\ unit.section = section
          /\ Texts(unit) = {at} /\ Pieces(unit) = {<<"number", number>>, <<part, at>>}
      BY <1>1, <2>7, <3>1, WithIs, PiecesWith
    <3> QED BY <3>2 DEF part
  <2> HIDE DEF unit
  <2>9. ToSet(results') = ToSet(results) \cup E
    BY <1>1, <2>6, <2>8, OneMore
  <2>10. k \in ProperKinds /\ k \in ProperHeadings /\ k \notin ProperSections /\ k # "h1" /\ k # "marker"
    BY DEF ProperHeadings, ProperKinds, ProperSections
  <2>11. /\ page' = (IF k = "marker" THEN at ELSE page) /\ state' = state
         /\ section' = (IF k = "h1" THEN 0 ELSE IF k \in ProperSections THEN at ELSE section)
         /\ PsalmNumber' = (IF k = "psalm" THEN at ELSE PsalmNumber)
    BY <2>1, <2>4, <2>10 DEF number
  <2>12. /\ \E u \in E : u.head = at
         /\ \A u \in E : /\ k \in ProperHeadings /\ u.head = at
                        /\ Texts(u) = {at} /\ u.page = page' /\ u.section = section'
                        /\ \A p \in Pieces(u) : p[1] = "number" => p[2] = PsalmNumber'
    BY <2>1, <2>8, <2>10 DEF number
  <2> HIDE DEF E
  <2> QED BY <2>1, <2>9, <2>10, <2>11, <2>12, ProperStep
<1>11. CASE ProperEnds
  <2>1. UNCHANGED <<html, at, results>> /\ state' = "done"
    BY <1>11 DEF ProperEnds, PageEnds
  <2>2. \A kinds : Of(kinds)' = Of(kinds)
    BY <2>1, OfStays
  <2> QED BY <2>1, <2>2 DEF ProperPlaced
<1> QED BY <1>6, <1>7, <1>8, <1>9, <1>10, <1>11 DEF ProperNext

-----------------------------------------------------------------------------
(* The daily office: what a season that stands alone takes for its sentence. *)

\* What FirstBelow finds.
LEMMA FirstBelowWhich ==
    ASSUME IsSequence(html), NEW k \in Nat, NEW n \in Nat, NEW more
    PROVE  \/ FirstBelow(k, n, more) = 0
           \/ /\ FirstBelow(k, n, more) \in k + 1 .. Len(html)
              /\ html[FirstBelow(k, n, more)] \notin PassedOver \cup more
              /\ \A i \in k + 1 .. FirstBelow(k, n, more) - 1 : html[i] \in PassedOver \cup more
<1> DEFINE seen == {j \in k + 1 .. k + n : j <= Len(html) /\ html[j] \notin PassedOver \cup more}
           first == FirstBelow(k, n, more)
<1>1. Len(html) \in Nat
  BY DEF IsSequence
<1>2. \A j \in k + 1 .. k + n : j \in Nat
  OBVIOUS
<1>3. seen \in SUBSET Nat
  BY <1>2
<1>4. first = IF seen = {} THEN 0 ELSE Min(seen)
  BY DEF FirstBelow
<1>5. seen # {} => first \in seen /\ \A y \in seen : first <= y
  <2> HIDE DEF seen, first
  <2> QED BY <1>3, <1>4, MinIsThere
<1> HIDE DEF first
<1>6. CASE seen = {}
  BY <1>4, <1>6 DEF first
<1>7. CASE seen # {}
  <2>1. first \in k + 1 .. k + n /\ first <= Len(html) /\ html[first] \notin PassedOver \cup more
    BY <1>5, <1>7
  <2>2. ASSUME NEW i \in k + 1 .. first - 1, html[i] \notin PassedOver \cup more PROVE FALSE
    <3>1. i \in k + 1 .. k + n /\ i <= Len(html) /\ i < first
      BY <1>1, <2>1, <2>2
    <3>2. i \in seen
      BY <2>2, <3>1
    <3>3. first <= i
      BY <1>5, <1>7, <3>2
    <3> QED BY <2>1, <3>1, <3>3
  <2>3. first \in k + 1 .. Len(html)
    BY <1>1, <2>1
  <2> QED BY <2>1, <2>2, <2>3 DEF first
<1> QED BY <1>6, <1>7

\* What SentenceBelow finds: nothing but what is passed over stands before it.
LEMMA SentenceIs ==
    ASSUME IsSequence(html), NEW k \in Nat
    PROVE  \/ SentenceBelow(k) = 0
           \/ /\ SentenceBelow(k) \in k + 1 .. Len(html) /\ html[SentenceBelow(k)] \in Paragraphs
              /\ \A i \in k + 1 .. SentenceBelow(k) - 1 : html[i] \in PassedOver
<1> DEFINE j == FirstBelow(k, 3, {})
<1>1. SentenceBelow(k) = IF j # 0 /\ html[j] \in Paragraphs THEN j ELSE 0
  BY DEF SentenceBelow
<1>2. j = 0 \/ (j \in k + 1 .. Len(html) /\ \A i \in k + 1 .. j - 1 : html[i] \in PassedOver)
  <2>1. 3 \in Nat
    OBVIOUS
  <2>2. PassedOver \cup {} = PassedOver
    OBVIOUS
  <2> QED BY <2>1, <2>2, FirstBelowWhich
<1> HIDE DEF j
<1> QED BY <1>1, <1>2

-----------------------------------------------------------------------------
\* The definition by recursion means what it says: every page has such a function.
Takes(f, n) ==
    f = [k \in 1 .. n |-> \E s \in 1 .. k - 1 :
             html[s] = "lone_season" /\ ~f[s] /\ SentenceBelow(s) = k]

\* A function that takes season by season exists, up to any season.
LEMMA SeasonsTake == \A n \in Nat : \E f : Takes(f, n)
<1> DEFINE T == {n \in Nat : ~\E f : Takes(f, n)}
<1>1. SUFFICES ASSUME T # {} PROVE FALSE
  OBVIOUS
<1> DEFINE m == Min(T)
<1>2. T \in SUBSET Nat
  OBVIOUS
<1>3. m \in T /\ \A y \in T : m <= y
  <2> HIDE DEF T
  <2> QED BY <1>1, <1>2, MinIsThere
<1> HIDE DEF m
<1>4. m \in Nat /\ ~\E f : Takes(f, m)
  BY <1>3
<1>5. m # 0
  <2> DEFINE f == [k \in 1 .. 0 |-> FALSE]
  <2>1. Takes(f, 0)
    BY DEF Takes
  <2> QED BY <1>4, <2>1
<1>6. m - 1 \in Nat
  BY <1>4, <1>5
<1>7. m - 1 \notin T
  BY <1>3, <1>4, <1>6
<1>8. PICK f : Takes(f, m - 1)
  BY <1>6, <1>7
<1> DEFINE Step(g, k) == \E s \in 1 .. k - 1 : html[s] = "lone_season" /\ ~g[s] /\ SentenceBelow(s) = k
           g == [k \in 1 .. m |-> IF k = m THEN Step(f, m) ELSE f[k]]
<1>9. \A k \in 1 .. m - 1 : g[k] = f[k] /\ f[k] = Step(f, k)
  <2>1. \A k \in 1 .. m - 1 : k \in 1 .. m /\ k # m
    BY <1>4
  <2>2. f = [k \in 1 .. m - 1 |-> Step(f, k)]
    BY <1>8 DEF Takes
  <2> QED BY <2>1, <2>2
<1>10. \A k \in 1 .. m : Step(g, k) = Step(f, k)
  <2>1. \A k \in 1 .. m : \A s \in 1 .. k - 1 : s \in 1 .. m - 1
    BY <1>4
  <2>2. \A k \in 1 .. m : \A s \in 1 .. k - 1 : g[s] = f[s]
    BY <1>9, <2>1
  <2> HIDE DEF g
  <2> QED BY <2>2
<1>11. \A k \in 1 .. m : g[k] = Step(g, k)
  <2>1. \A k \in 1 .. m : k = m \/ k \in 1 .. m - 1
    BY <1>4
  <2>2. \A k \in 1 .. m : k = m => g[k] = Step(f, k)
    OBVIOUS
  <2> HIDE DEF g, Step
  <2> QED BY <1>9, <1>10, <2>1, <2>2
<1>12. g = [k \in 1 .. m |-> Step(g, k)]
  <2>1. g = [k \in 1 .. m |-> g[k]]
    OBVIOUS
  <2> HIDE DEF g, Step
  <2> QED BY <1>11, <2>1
<1> HIDE DEF g
<1>13. Takes(g, m)
  BY <1>12 DEF Takes
<1> QED BY <1>4, <1>13

\* What a season takes, without the recursion.
LEMMA TakenIs ==
    ASSUME IsSequence(html)
    PROVE  \A k \in 1 .. Len(html) : TakenBySeason[k] <=>
               \E s \in 1 .. k - 1 : html[s] = "lone_season" /\ ~TakenBySeason[s] /\ SentenceBelow(s) = k
<1>1. Len(html) \in Nat
  BY DEF IsSequence
<1>2. \E f : Takes(f, Len(html))
  BY <1>1, SeasonsTake
<1>3. Takes(TakenBySeason, Len(html))
  BY <1>2 DEF Takes, TakenBySeason
<1> DEFINE T == TakenBySeason
<1> HIDE DEF T
<1>4. T = [k \in 1 .. Len(html) |-> \E s \in 1 .. k - 1 :
             html[s] = "lone_season" /\ ~T[s] /\ SentenceBelow(s) = k]
  BY <1>3 DEF Takes, T
<1>5. \A k \in 1 .. Len(html) : T[k] <=> \E s \in 1 .. k - 1 :
             html[s] = "lone_season" /\ ~T[s] /\ SentenceBelow(s) = k
  BY <1>4
<1> QED BY <1>5 DEF T

-----------------------------------------------------------------------------
(* The daily office: every text and every page in its place.                *)

\* The heading an element of the office stands under.
HeadAt(k) == LatestIn({j \in 1 .. k : OfficeOpens(j)}, k)

OfficeHasText(k) ==
    \/ TakenBySeason[k] /\ html[k] # "blank"
    \/ /\ html[k] \in {"table", "rubric", "text", "collect"}
       /\ html[k] = "collect" => ~PrayerBelow(k)
       /\ ~JumpedOver(k)
       /\ HeadAt(k) # 0 => html[HeadAt(k)] \notin {"season", "lone_season", "blank_strong"}

OfficeHeads == {k \in 1 .. at - 1 : OfficeOpens(k)}
OfficeMarks == {k \in 1 .. at - 1 : html[k] = "marker" /\ ~JumpedOver(k)}
OfficeTexts == {k \in 1 .. at - 1 : OfficeHasText(k)}
Alone == {h \in 1 .. Len(html) : html[h] \in {"season", "lone_season"}}
Wanted == {h \in 1 .. Len(html) : html[h] # "blank_strong"}

\* The seasons before s have no sentence from s on.
SeasonsOver(s) ==
    \A r \in 1 .. s - 1 : html[r] = "lone_season" /\ ~TakenBySeason[r] => SentenceBelow(r) < s

OfficePlaced ==
    /\ Len(html) = Longest[book]
    /\ SeasonsOver(at)
    /\ Kept(at - 1, OfficeHeads, OfficeTexts, Wanted, current, ToSet(results))
    /\ PagesRight(OfficeHeads, OfficeMarks, Alone)
    /\ state # "done" /\ current = NoUnit =>
           LatestIn(OfficeHeads, at - 1) = 0 \/ LatestIn(OfficeHeads, at - 1) \in Alone
    /\ current # NoUnit => (current.named <=> current.head \in Wanted)

\* What is on the page does not change when it is read.
LEMMA SamePage ==
    ASSUME UNCHANGED <<html, book>>
    PROVE  /\ TakenBySeason' = TakenBySeason
           /\ \A k : /\ OfficeOpens(k)' <=> OfficeOpens(k)
                     /\ JumpedOver(k)' <=> JumpedOver(k)
                     /\ OfficeHasText(k)' <=> OfficeHasText(k)
                     /\ SentenceBelow(k)' = SentenceBelow(k)
           /\ Alone' = Alone /\ Wanted' = Wanted
<1>1. TakenBySeason' = TakenBySeason
  BY SMT DEF TakenBySeason, SentenceBelow, FirstBelow
<1>2. \A k : SentenceBelow(k)' = SentenceBelow(k) /\ (PrayerBelow(k)' <=> PrayerBelow(k))
  BY DEF SentenceBelow, PrayerBelow, FirstBelow
<1>3. \A k : OfficeOpens(k)' <=> OfficeOpens(k)
  BY <1>1, <1>2 DEF OfficeOpens, TitleOpens
<1>4. \A k : JumpedOver(k)' <=> JumpedOver(k)
  BY <1>1, <1>2 DEF JumpedOver
<1>5. \A k : HeadAt(k)' = HeadAt(k)
  BY <1>3 DEF HeadAt, LatestIn
<1>6. \A k : OfficeHasText(k)' <=> OfficeHasText(k)
  BY <1>1, <1>2, <1>4, <1>5 DEF OfficeHasText
<1>8. Alone' = Alone /\ Wanted' = Wanted
  BY DEF Alone, Wanted
<1> QED BY <1>1, <1>3, <1>2, <1>4, <1>6, <1>8

\* The element read next is not taken by a season, nor jumped over.
LEMMA NextIsFree ==
    ASSUME PageRead, OfficePlaced, at <= Len(html)
    PROVE  ~TakenBySeason[at] /\ ~JumpedOver(at)
<1>1. at \in 1 .. Len(html) /\ IsSequence(html)
  <2>1. Len(html) \in Nat
    BY AppendIs DEF PageRead
  <2> QED BY <2>1 DEF PageRead
<1>2. ASSUME NEW s \in 1 .. at - 1, html[s] = "lone_season", ~TakenBySeason[s]
      PROVE  SentenceBelow(s) # at /\ ~(SentenceBelow(s) > at)
  <2>1. SentenceBelow(s) < at /\ s \in Nat
    BY <1>2 DEF OfficePlaced, SeasonsOver
  <2>2. SentenceBelow(s) \in Nat
    <3>1. SentenceBelow(s) = 0 \/ SentenceBelow(s) \in s + 1 .. Len(html)
      BY <1>1, <2>1, SentenceIs
    <3> QED BY <2>1, <3>1
  <2> QED BY <1>1, <2>1, <2>2
<1>3. ~TakenBySeason[at]
  BY <1>1, <1>2, TakenIs
<1>4. ~JumpedOver(at)
  BY <1>2 DEF JumpedOver
<1> QED BY <1>3, <1>4

\* The heading of the element read next, if it is none itself.
LEMMA NextStandsUnder ==
    ASSUME at \in Nat \ {0}, ~OfficeOpens(at)
    PROVE  HeadAt(at) = LatestIn(OfficeHeads, at - 1)
<1> DEFINE n == at - 1
           R == {j \in 1 .. at : OfficeOpens(j)}
           S == OfficeHeads
<1>1. n \in Nat /\ at \in Nat /\ n <= at
  OBVIOUS
<1>2. \A j \in n + 1 .. at : j \notin R
  OBVIOUS
<1>3. \A j \in 1 .. n : j \in R <=> j \in S
  BY DEF OfficeHeads
<1>4. HeadAt(at) = LatestIn(R, at)
  BY DEF HeadAt
<1> HIDE DEF n, R, S
<1>5. LatestIn(R, at) = LatestIn(R, n)
  BY <1>1, <1>2, LatestOn
<1>6. LatestIn(R, n) = LatestIn(S, n)
  BY <1>3, LatestSame
<1> QED BY <1>4, <1>5, <1>6 DEF n, S

\* An element of the office is read.
LEMMA OfficeStep ==
    ASSUME PageRead, OfficePlaced, NEW k, Reads(k), UNCHANGED book
    PROVE  /\ UNCHANGED html /\ at <= Len(html) /\ html[at] = k
           /\ ~TakenBySeason[at] /\ ~JumpedOver(at)
           /\ at - 1 \in Nat /\ at = (at - 1) + 1 /\ at' - 1 = at /\ state # "done"
           /\ OfficeHeads' = IF OfficeOpens(at) THEN OfficeHeads \cup {at} ELSE OfficeHeads
           /\ OfficeMarks' = IF k = "marker" THEN OfficeMarks \cup {at} ELSE OfficeMarks
           /\ OfficeTexts' = IF OfficeHasText(at) THEN OfficeTexts \cup {at} ELSE OfficeTexts
           /\ k # "lone_season" => SeasonsOver(at)'
<1>1. Len(html) = Longest[book] /\ Len(html) \in Nat
  BY AppendIs DEF OfficePlaced, PageRead
<1>2. UNCHANGED html /\ at <= Len(html) /\ html[at] = k /\ at' = at + 1 /\ state # "done"
  BY <1>1 DEF Reads
<1>3. ~TakenBySeason[at] /\ ~JumpedOver(at)
  BY <1>2, NextIsFree
<1>4. at \in Nat \ {0} /\ at' - 1 = at /\ 1 .. at = (1 .. at - 1) \cup {at}
  BY <1>2 DEF PageRead
<1>5. OfficeHeads' = IF OfficeOpens(at) THEN OfficeHeads \cup {at} ELSE OfficeHeads
  <2>1. OfficeHeads' = {j \in 1 .. at : OfficeOpens(j)}
    BY <1>2, <1>4, SamePage DEF OfficeHeads
  <2> QED BY <1>4, <2>1 DEF OfficeHeads
<1>6. OfficeMarks' = IF k = "marker" THEN OfficeMarks \cup {at} ELSE OfficeMarks
  <2>1. OfficeMarks' = {j \in 1 .. at : html[j] = "marker" /\ ~JumpedOver(j)}
    BY <1>2, <1>4, SamePage DEF OfficeMarks
  <2> QED BY <1>2, <1>3, <1>4, <2>1 DEF OfficeMarks
<1>7. OfficeTexts' = IF OfficeHasText(at) THEN OfficeTexts \cup {at} ELSE OfficeTexts
  <2>1. OfficeTexts' = {j \in 1 .. at : OfficeHasText(j)}
    BY <1>2, <1>4, SamePage DEF OfficeTexts
  <2> QED BY <1>4, <2>1 DEF OfficeTexts
<1>8. ASSUME k # "lone_season" PROVE SeasonsOver(at)'
  <2>1. ASSUME NEW r \in 1 .. at, html[r] = "lone_season", ~TakenBySeason[r]
        PROVE  SentenceBelow(r) < at + 1
    <3>1. r \in 1 .. at - 1
      BY <1>2, <1>4, <1>8, <2>1
    <3>2. SentenceBelow(r) < at
      BY <2>1, <3>1 DEF OfficePlaced, SeasonsOver
    <3>3. SentenceBelow(r) \in Nat
      <4>1. r \in Nat
        BY <3>1
      <4>2. SentenceBelow(r) = 0 \/ SentenceBelow(r) \in r + 1 .. Len(html)
        BY <4>1, SentenceIs DEF PageRead
      <4> QED BY <4>1, <4>2
    <3> QED BY <1>4, <3>2, <3>3
  <2>2. \A r \in 1 .. at : html'[r] = "lone_season" /\ ~TakenBySeason'[r] => SentenceBelow(r)' < at'
    BY <1>2, <2>1, SamePage
  <2> QED BY <1>4, <2>2 DEF SeasonsOver
<1> QED BY <1>2, <1>3, <1>4, <1>5, <1>6, <1>7, <1>8

\* The unit at hand, if there is one, goes on.
LEMMA OfficeGoesOn ==
    ASSUME PageRead, OfficePlaced, NEW k, Reads(k), k # "lone_season", ~OfficeOpens(at),
           state' # "done", UNCHANGED <<book, results>>,
           current = NoUnit => current' = NoUnit,
           current # NoUnit =>
              /\ current' # NoUnit /\ current'.head = current.head /\ current'.named = current.named
              /\ ~HasPart(current', {"number"})
              /\ \A j \in Texts(current) : j \in Texts(current')
              /\ \A j \in Texts(current') : j \in Texts(current) \/ j = at
              /\ OfficeHasText(at) => at \in Texts(current'),
           page' = (IF k = "marker" THEN at ELSE page),
           current # NoUnit =>
              current'.page = (IF k = "marker" /\ current.page = 0 THEN at ELSE current.page)
    PROVE  OfficePlaced'
<1> DEFINE n == at - 1
           S == OfficeHeads
           T == OfficeTexts
           M == OfficeMarks
           W == Wanted
           A == Alone
           units == ToSet(results)
           S2 == S'
           T2 == T'
           M2 == M'
           units2 == units'
<1>1. n \in Nat /\ S \in SUBSET (1 .. n) /\ T \in SUBSET (1 .. n) /\ M \in SUBSET (1 .. n)
  BY DEF PageRead, OfficeHeads, OfficeTexts, OfficeMarks
<1>2. /\ Len(html) = Longest[book] /\ Kept(n, S, T, W, current, units)
      /\ state # "done" => Paged(n, S, M, A, page, current, units)
      /\ state # "done" /\ current = NoUnit => LatestIn(S, n) = 0 \/ LatestIn(S, n) \in A
      /\ current # NoUnit => (current.named <=> current.head \in W)
  BY DEF OfficePlaced, PagesRight
<1>3. /\ UNCHANGED html /\ at <= Len(html) /\ ~TakenBySeason[at] /\ state # "done"
      /\ at = n + 1 /\ at' - 1 = n + 1 /\ SeasonsOver(at)'
      /\ S2 = S /\ M2 = IF k = "marker" THEN M \cup {n + 1} ELSE M
      /\ T2 = IF OfficeHasText(at) THEN T \cup {n + 1} ELSE T
  BY OfficeStep
<1>4. W' = W /\ A' = A
  BY <1>3, SamePage
<1>5. units2 = units
  OBVIOUS
<1>6. ASSUME Kept(n + 1, S, T2, W, current', units), Paged(n + 1, S, M2, A, page', current', units),
             current' = NoUnit => LatestIn(S, n + 1) = 0 \/ LatestIn(S, n + 1) \in A,
             current' # NoUnit => (current'.named <=> current'.head \in W)
      PROVE  OfficePlaced'
  <2> HIDE DEF n
  <2>1. Len(html') = Longest[book']
    BY <1>2, <1>3
  <2> QED BY <1>3, <1>4, <1>5, <1>6, <2>1 DEF OfficePlaced, PagesRight
<1>7. HeadAt(at) = LatestIn(S, n)
  BY NextStandsUnder DEF PageRead
<1>8. current = NoUnit /\ OfficeHasText(at) => LatestIn(S, n) = 0
  <2>1. SUFFICES ASSUME current = NoUnit, OfficeHasText(at), LatestIn(S, n) # 0 PROVE FALSE
    OBVIOUS
  <2>2. html[LatestIn(S, n)] \notin {"season", "lone_season"}
    BY <1>3, <1>7, <2>1 DEF OfficeHasText
  <2>3. LatestIn(S, n) \in A
    BY <1>2, <1>3, <2>1
  <2> QED BY <2>2, <2>3 DEF Alone
<1> HIDE DEF n, S, T, M, W, A, units, S2, T2, M2, units2
<1>9. Kept(n + 1, S, T2, W, current', units)
  <2>1. \A j \in T2 : j \in T \/ j = n + 1
    BY <1>3
  <2>2. n + 1 \in T2 => OfficeHasText(at)
    BY <1>1, <1>3
  <2>3. \A h \in W : h \in W \/ h \in {0, current.head}
    OBVIOUS
  <2>4. \/ /\ current = NoUnit /\ current' = NoUnit
           /\ n + 1 \in T2 => LatestIn(S, n) = 0
        \/ /\ current # NoUnit /\ current' # NoUnit /\ current'.head = current.head
           /\ ~HasPart(current', {"number"})
           /\ \A j \in Texts(current) : j \in Texts(current')
           /\ \A j \in Texts(current') :
                 \/ j \in Texts(current) \/ j = n + 1 \/ (j \in 1 .. n /\ LatestIn(S, j) = current.head)
           /\ n + 1 \in T2 => n + 1 \in Texts(current')
    BY <1>3, <1>8, <2>2
  <2> QED BY <1>1, <1>2, <2>1, <2>3, <2>4, KeptOn
<1>10. Paged(n + 1, S, M2, A, page', current', units)
  <2>1. Paged(n, S, M, A, page, current, units)
    BY <1>2, <1>3
  <2>2. CASE k = "marker"
    <3>1. M2 = M \cup {n + 1} /\ page' = n + 1
      BY <1>3, <2>2
    <3>2. /\ current = NoUnit => current' = NoUnit
          /\ current # NoUnit => /\ current'.head = current.head
                                 /\ current'.page = IF current.page = 0 THEN n + 1 ELSE current.page
      BY <1>3, <2>2
    <3>3. Paged(n + 1, S, M \cup {n + 1}, A, n + 1, current', units)
      BY <1>1, <2>1, <3>2, PagedMarker
    <3> QED BY <3>1, <3>3
  <2>3. CASE k # "marker"
    <3>1. M2 = M /\ page' = page
      BY <1>3, <2>3
    <3>2. /\ current = NoUnit => current' = NoUnit
          /\ current # NoUnit => current'.head = current.head /\ current'.page = current.page
      BY <1>3, <2>3
    <3>3. Paged(n + 1, S, M, A, page, current', units)
      BY <1>1, <2>1, <3>2, PagedOn
    <3> QED BY <3>1, <3>3
  <2> QED BY <2>2, <2>3
<1>11. current' = NoUnit => LatestIn(S, n + 1) = 0 \/ LatestIn(S, n + 1) \in A
  <2>1. n + 1 \in Nat /\ n <= n + 1 /\ \A j \in n + 1 .. n + 1 : j \notin S
    BY <1>1
  <2>2. LatestIn(S, n + 1) = LatestIn(S, n)
    BY <1>1, <2>1, LatestOn
  <2> QED BY <1>2, <1>3, <2>2
<1>12. current' # NoUnit => (current'.named <=> current'.head \in W)
  BY <1>2
<1> QED BY <1>6, <1>9, <1>10, <1>11, <1>12

\* What is emitted of the unit at hand.
OfficeEmits(E) ==
    /\ \A u \in E : u = current /\ current # NoUnit
    /\ current # NoUnit /\ current.named => current \in E

\* A heading, or a season with its sentence: the unit at hand is closed, and the
\* page is read up to m.
LEMMA OfficeBegins ==
    ASSUME PageRead, OfficePlaced, state # "done", state' # "done", UNCHANGED <<html, book, page>>,
           at \in 1 .. Len(html), NEW m \in Nat, at <= m, at' = m + 1, SeasonsOver(at)',
           OfficeHeads' = OfficeHeads \cup {at}, OfficeMarks' = OfficeMarks,
           \A j \in OfficeTexts' : j \in OfficeTexts \/ j \in at .. m,
           NEW E, OfficeEmits(E), NEW G, ToSet(results') = ToSet(results) \cup (E \cup G),
           \A u \in G : /\ ~HasPart(u, {"number"}) /\ u.head = at /\ u.page = page /\ at \in Alone
                        /\ \A j \in Texts(u) : j \in at .. m,
           current' # NoUnit =>
               /\ current'.head = at /\ current'.page = page /\ at \notin Alone
               /\ current'.named <=> at \in Wanted
               /\ ~HasPart(current', {"number"})
               /\ \A j \in Texts(current') : j \in at .. m,
           current' = NoUnit => at \in Alone,
           \A j \in OfficeTexts' : j \in at .. m => \E u \in G : j \in Texts(u) /\ current' = NoUnit
    PROVE  OfficePlaced'
<1> DEFINE n == at - 1
           S == OfficeHeads
           T == OfficeTexts
           M == OfficeMarks
           W == Wanted
           A == Alone
           units == ToSet(results)
           T2 == T'
           units2 == units'
           F == E \cup G
<1>1. /\ n \in Nat /\ S \in SUBSET (1 .. n) /\ T \in SUBSET (1 .. n) /\ M \in SUBSET (1 .. n)
      /\ at = n + 1 /\ n + 1 <= m
  BY DEF PageRead, OfficeHeads, OfficeTexts, OfficeMarks
<1>2. /\ Len(html) = Longest[book] /\ Kept(n, S, T, W, current, units)
      /\ Paged(n, S, M, A, page, current, units)
      /\ current # NoUnit => (current.named <=> current.head \in W)
  BY DEF OfficePlaced, PagesRight
<1>3. W' = W /\ A' = A
  BY SamePage
<1>4. at' - 1 = m /\ S' = S \cup {n + 1} /\ M' = M /\ units2 = units \cup F
  BY <1>1
<1>5. ASSUME Kept(m, S \cup {n + 1}, T2, W, current', units \cup F),
             Paged(m, S \cup {n + 1}, M, A, page, current', units \cup F),
             current' = NoUnit => LatestIn(S \cup {n + 1}, m) \in A,
             current' # NoUnit => (current'.named <=> current'.head \in W)
      PROVE  OfficePlaced'
  <2> HIDE DEF n, F
  <2>1. Len(html') = Longest[book']
    BY <1>2
  <2> QED BY <1>3, <1>4, <1>5, <2>1 DEF OfficePlaced, PagesRight
<1>6. /\ \A j \in T2 : j \in T \/ j \in n + 1 .. m
      /\ \A j \in T2 : j \in n + 1 .. m => \E u \in G : j \in Texts(u) /\ current' = NoUnit
      /\ \A u \in G : /\ ~HasPart(u, {"number"}) /\ u.head = n + 1 /\ u.page = page /\ n + 1 \in A
                      /\ \A j \in Texts(u) : j \in n + 1 .. m
      /\ current' # NoUnit =>
               /\ current'.head = n + 1 /\ current'.page = page /\ n + 1 \notin A
               /\ current'.named <=> n + 1 \in W
               /\ ~HasPart(current', {"number"})
               /\ \A j \in Texts(current') : j \in n + 1 .. m
      /\ current' = NoUnit => n + 1 \in A
  BY <1>1
<1> HIDE DEF n, S, T, M, W, A, units, T2, units2
<1>7. Kept(m, S \cup {n + 1}, T2, W, current', units \cup F)
  <2>1. \A h \in W : h \in W \/ h \in {0, current.head, n + 1}
    OBVIOUS
  <2>2. current # NoUnit => ~HasPart(current, {"number"})
    BY <1>2 DEF Kept, Under
  <2>3. \A u \in F : /\ ~HasPart(u, {"number"})
                     /\ \/ /\ current # NoUnit /\ u.head = current.head
                           /\ \A j \in Texts(u) : j \in Texts(current)
                        \/ u.head = n + 1 /\ \A j \in Texts(u) : j \in n + 1 .. m
    BY <1>6, <2>2 DEF OfficeEmits
  <2>4. current' # NoUnit => /\ ~HasPart(current', {"number"}) /\ current'.head = n + 1
                             /\ \A j \in Texts(current') : j \in n + 1 .. m
    BY <1>6
  <2>5. current # NoUnit /\ current.head \in W =>
            \E u \in F : u.head = current.head /\ \A j \in T : j \in Texts(current) => j \in Texts(u)
    BY <1>2 DEF OfficeEmits
  <2>6. \A j \in T2 : j \in n + 1 .. m =>
               IF current' = NoUnit THEN \E u \in F : u.head = n + 1 /\ j \in Texts(u)
                                    ELSE j \in Texts(current')
    BY <1>6
  <2> HIDE DEF F
  <2> QED BY <1>1, <1>2, <1>6, <2>1, <2>3, <2>4, <2>5, <2>6, KeptBegins
<1>8. Paged(m, S \cup {n + 1}, M, A, page, current', units \cup F)
  <2>1. \A u \in F : \/ current # NoUnit /\ u.head = current.head /\ u.page = current.page
                     \/ u.head = n + 1 /\ n + 1 \in A /\ u.page = page
    BY <1>6 DEF OfficeEmits
  <2>2. current' # NoUnit => current'.head = n + 1 /\ n + 1 \notin A /\ current'.page = page
    BY <1>6
  <2>3. \A j \in 1 .. n : j \in A <=> j \in A
    OBVIOUS
  <2> HIDE DEF F
  <2> QED BY <1>1, <1>2, <2>1, <2>2, <2>3, PagedBegins
<1>9. LatestIn(S \cup {n + 1}, m) = n + 1
  <2> DEFINE R == S \cup {n + 1}
             x == n + 1
  <2>1. x \in 0 .. m /\ x \in R /\ \A j \in 1 .. m : j \in R => j <= x
    BY <1>1
  <2> HIDE DEF R, x
  <2>2. LatestIn(R, m) = x
    BY <2>1, LatestUnique
  <2> QED BY <2>2 DEF R, x
<1> QED BY <1>5, <1>6, <1>7, <1>8, <1>9

\* The page of the office ends.
LEMMA OfficePageEnds ==
    ASSUME PageRead, OfficePlaced, UNCHANGED <<html, book, at>>, state # "done", state' = "done",
           current' = NoUnit, NEW E, OfficeEmits(E), ToSet(results') = ToSet(results) \cup E
    PROVE  OfficePlaced'
<1> DEFINE n == at - 1
           S == OfficeHeads
           T == OfficeTexts
           M == OfficeMarks
           W == Wanted
           A == Alone
           units == ToSet(results)
<1>1. n \in Nat
  BY DEF PageRead
<1>2. /\ Len(html) = Longest[book] /\ Kept(n, S, T, W, current, units)
      /\ Paged(n, S, M, A, page, current, units)
      /\ current # NoUnit => (current.named <=> current.head \in W)
  BY DEF OfficePlaced, PagesRight
<1>3. W' = W /\ A' = A /\ S' = S /\ T' = T /\ M' = M /\ SeasonsOver(at)'
  <2>1. S' = S /\ T' = T /\ M' = M
    BY SamePage DEF OfficeHeads, OfficeTexts, OfficeMarks
  <2>2. SeasonsOver(at)'
    BY SamePage DEF OfficePlaced, SeasonsOver
  <2> QED BY <2>1, <2>2, SamePage
<1>4. ASSUME Kept(n, S, T, W, NoUnit, units'),
             \A u \in units' : u.head \in 1 .. n /\ u.page = PageOf(S, M, A, u.head)
      PROVE  OfficePlaced'
  <2> HIDE DEF n
  <2>1. Len(html') = Longest[book'] /\ n' = at' - 1 /\ n' = n
    BY <1>2 DEF n
  <2> QED BY <1>3, <1>4, <2>1 DEF OfficePlaced, PagesRight
<1> HIDE DEF n, S, T, M, W, A
<1>5. units' = units \cup E
  OBVIOUS
<1> HIDE DEF units
<1>6. Kept(n, S, T, W, NoUnit, units \cup E)
  <2>1. \A u \in E : /\ ~HasPart(u, {"number"}) /\ current # NoUnit /\ u.head = current.head
                     /\ \A j \in Texts(u) : j \in Texts(current)
    BY <1>2 DEF Kept, Under, OfficeEmits
  <2>2. current # NoUnit /\ current.head \in W =>
            \E u \in E : u.head = current.head /\ \A j \in T : j \in Texts(current) => j \in Texts(u)
    BY <1>2 DEF OfficeEmits
  <2> QED BY <1>1, <1>2, <2>1, <2>2, KeptAtEnd
<1>7. \A u \in units \cup E : u.head \in 1 .. n /\ u.page = PageOf(S, M, A, u.head)
  <2>1. \A u \in E : current # NoUnit /\ u.head = current.head /\ u.page = current.page
    BY DEF OfficeEmits
  <2> QED BY <1>2, <2>1, PagedAtEnd
<1> QED BY <1>4, <1>5, <1>6, <1>7

\* A text of the office goes to the unit at hand.
LEMMA OfficeTextGoes ==
    ASSUME PageRead, OfficePlaced, NEW k, Reads(k), k \notin {"lone_season", "marker"}, ~OfficeOpens(at),
           NEW p \in Part \ Unplaced, NEW s, s # "done", Add(p, s)
    PROVE  OfficePlaced'
<1>1. /\ UNCHANGED <<book, page, section, pending, results>> /\ state' = s
      /\ current = NoUnit => current' = NoUnit
      /\ current # NoUnit =>
           /\ current' # NoUnit /\ current'.head = current.head /\ current'.named = current.named
           /\ current'.page = current.page /\ current'.section = current.section
           /\ Texts(current') = Texts(current) \cup {at}
           /\ \A parts : HasPart(current', parts) <=> HasPart(current, parts) \/ p \in parts
  BY TextGoesTo
<1>2. current # NoUnit => ~HasPart(current, {"number"})
  BY DEF OfficePlaced, Kept, Under
<1>3. /\ state' # "done" /\ UNCHANGED <<book, results>>
      /\ current = NoUnit => current' = NoUnit
      /\ current # NoUnit =>
              /\ current' # NoUnit /\ current'.head = current.head /\ current'.named = current.named
              /\ ~HasPart(current', {"number"})
              /\ \A j \in Texts(current) : j \in Texts(current')
              /\ \A j \in Texts(current') : j \in Texts(current) \/ j = at
              /\ OfficeHasText(at) => at \in Texts(current')
  BY <1>1, <1>2 DEF Unplaced
<1>4. /\ page' = (IF k = "marker" THEN at ELSE page)
      /\ current # NoUnit =>
              current'.page = (IF k = "marker" /\ current.page = 0 THEN at ELSE current.page)
  BY <1>1
<1> QED BY <1>3, <1>4, OfficeGoesOn

\* An element is passed over.
LEMMA OfficePasses ==
    ASSUME PageRead, OfficePlaced, NEW k, Reads(k), k \notin {"lone_season", "marker"}, ~OfficeOpens(at),
           ~OfficeHasText(at), UNCHANGED <<book, state, current, page, results>>
    PROVE  OfficePlaced'
<1>1. current # NoUnit => ~HasPart(current, {"number"})
  BY DEF OfficePlaced, Kept, Under
<1>2. state' # "done"
  BY ReadsIs
<1>3. /\ state' # "done" /\ UNCHANGED <<book, results>>
      /\ current = NoUnit => current' = NoUnit
      /\ current # NoUnit =>
              /\ current' # NoUnit /\ current'.head = current.head /\ current'.named = current.named
              /\ ~HasPart(current', {"number"})
              /\ \A j \in Texts(current) : j \in Texts(current')
              /\ \A j \in Texts(current') : j \in Texts(current) \/ j = at
              /\ OfficeHasText(at) => at \in Texts(current')
  BY <1>1, <1>2
<1>4. /\ page' = (IF k = "marker" THEN at ELSE page)
      /\ current # NoUnit =>
              current'.page = (IF k = "marker" /\ current.page = 0 THEN at ELSE current.page)
  OBVIOUS
<1> QED BY <1>3, <1>4, OfficeGoesOn

\* A page marker of the office.
LEMMA OfficeMarked ==
    ASSUME PageRead, OfficePlaced, PageMarker PROVE OfficePlaced'
<1> DEFINE k == "marker"
<1>1. /\ Reads(k) /\ page' = at /\ UNCHANGED <<book, state, section, pending, results>>
      /\ current = NoUnit => current' = NoUnit
      /\ current # NoUnit =>
           /\ current' # NoUnit /\ current'.head = current.head /\ current'.named = current.named
           /\ current'.page = (IF current.page = 0 THEN at ELSE current.page)
           /\ Texts(current') = Texts(current)
           /\ \A parts : HasPart(current', parts) <=> HasPart(current, parts)
  BY MarkerGoesTo
<1>2. k # "lone_season" /\ k = "marker"
  OBVIOUS
<1> HIDE DEF k
<1>3. html[at] = "marker" /\ ~TakenBySeason[at] /\ state # "done"
  BY <1>1, <1>2, OfficeStep
<1>4. ~OfficeOpens(at) /\ ~OfficeHasText(at)
  BY <1>3 DEF OfficeOpens, TitleOpens, OfficeHasText
<1>5. current # NoUnit => ~HasPart(current, {"number"})
  BY DEF OfficePlaced, Kept, Under
<1>6. /\ state' # "done" /\ UNCHANGED <<book, results>>
      /\ current = NoUnit => current' = NoUnit
      /\ current # NoUnit =>
              /\ current' # NoUnit /\ current'.head = current.head /\ current'.named = current.named
              /\ ~HasPart(current', {"number"})
              /\ \A j \in Texts(current) : j \in Texts(current')
              /\ \A j \in Texts(current') : j \in Texts(current) \/ j = at
              /\ OfficeHasText(at) => at \in Texts(current')
  BY <1>1, <1>3, <1>4, <1>5
<1>7. /\ page' = (IF k = "marker" THEN at ELSE page)
      /\ current # NoUnit =>
              current'.page = (IF k = "marker" /\ current.page = 0 THEN at ELSE current.page)
  BY <1>1, <1>2
<1> QED BY <1>1, <1>2, <1>4, <1>6, <1>7, OfficeGoesOn

\* What OfficeEmit emits.
LEMMA OfficeCloseIs ==
    ASSUME PageRead
    PROVE  OfficeEmits(ToSet(OfficeEmit(current))) /\ OfficeEmit(current) \in Seq(Builder)
<1>1. ~NoUnit.named
  BY DEF NoUnit
<1> QED BY <1>1, ToSetOne DEF OfficeEmit, OfficeEmits, PageRead

\* The heading of a unit.
LEMMA OfficeNew ==
    ASSUME PageRead, OfficePlaced, NEW k, Reads(k), k \notin {"lone_season", "season", "marker"}, OfficeOpens(at),
           NEW unit \in Builder, NEW s, s # "done", Begin(unit, OfficeEmit(current), s),
           unit.head = at, unit.page = page, unit.named <=> k # "blank_strong",
           ~HasPart(unit, {"number"}), \A j \in Texts(unit) : j = at
    PROVE  OfficePlaced'
<1> DEFINE E == ToSet(OfficeEmit(current))
           G == {}
<1>1. /\ UNCHANGED html /\ at <= Len(html) /\ html[at] = k /\ ~TakenBySeason[at]
      /\ state # "done" /\ at' - 1 = at /\ at - 1 \in Nat
      /\ OfficeHeads' = OfficeHeads \cup {at} /\ OfficeMarks' = OfficeMarks
      /\ OfficeTexts' = IF OfficeHasText(at) THEN OfficeTexts \cup {at} ELSE OfficeTexts
      /\ SeasonsOver(at)'
  BY OfficeStep DEF Begin
<1>2. OfficeEmits(E) /\ OfficeEmit(current) \in Seq(Builder)
  BY OfficeCloseIs
<1>3. results' = results \o OfficeEmit(current) /\ current' = unit /\ state' = s /\ UNCHANGED <<book, page>>
  BY DEF Begin
<1>4. ToSet(results') = ToSet(results) \cup E
  BY <1>2, <1>3, ToSetConcat DEF PageRead
<1>5. ~OfficeHasText(at)
  <2>1. html[at] \in {"strong", "blank_strong", "table_head", "season", "lone_season", "h1", "h2"}
        \/ (html[at] = "collect" /\ PrayerBelow(at))
    BY DEF OfficeOpens, TitleOpens
  <2> QED BY <1>1, <2>1 DEF OfficeHasText
<1>6. at \in 1 .. Len(html) /\ at \in Nat /\ at <= at /\ at' = at + 1 /\ at .. at = {at}
  <2>1. Len(html) \in Nat
    BY AppendIs DEF PageRead
  <2> QED BY <1>1, <2>1 DEF PageRead, Reads
<1>7. at \notin Alone /\ (at \in Wanted <=> k # "blank_strong")
  BY <1>1, <1>6 DEF Alone, Wanted
<1>8. current' # NoUnit
  <2>1. current'.head # 0 /\ NoUnit.head = 0
    BY <1>3, <1>6 DEF NoUnit
  <2> QED BY <2>1
<1> HIDE DEF E
<1>9. /\ ToSet(results') = ToSet(results) \cup (E \cup G)
      /\ \A j \in OfficeTexts' : j \in OfficeTexts
      /\ \A j \in OfficeTexts : j \notin at .. at
      /\ \A u : u \notin G
  BY <1>1, <1>4, <1>5, <1>6 DEF OfficeTexts
<1> HIDE DEF G
<1>10. current' # NoUnit =>
               /\ current'.head = at /\ current'.page = page /\ at \notin Alone
               /\ current'.named <=> at \in Wanted
               /\ ~HasPart(current', {"number"})
               /\ \A j \in Texts(current') : j \in at .. at
  BY <1>3, <1>6, <1>7
<1>11. state' # "done" /\ UNCHANGED <<html, book, page>>
  BY <1>1, <1>3
<1>12. /\ \A j \in OfficeTexts' : j \in OfficeTexts \/ j \in at .. at
       /\ \A j \in OfficeTexts' : j \in at .. at => \E u \in G : j \in Texts(u) /\ current' = NoUnit
       /\ \A u \in G : /\ ~HasPart(u, {"number"}) /\ u.head = at /\ u.page = page /\ at \in Alone
                       /\ \A j \in Texts(u) : j \in at .. at
  BY <1>9
<1> QED BY <1>1, <1>2, <1>6, <1>8, <1>9, <1>10, <1>11, <1>12, OfficeBegins

\* A season, with the sentence k.
LEMMA SeasonPlaced ==
    ASSUME PageRead, OfficePlaced, state # "done", at \in 1 .. Len(html),
           html[at] \in {"season", "lone_season"}, UNCHANGED html,
           NEW m \in Nat, at <= m, at' = m + 1, NEW k \in Nat, k = 0 \/ k \in at .. m, SeasonsOver(at)',
           OfficeHeads' = OfficeHeads \cup {at}, OfficeMarks' = OfficeMarks,
           \A j \in OfficeTexts' : j \in OfficeTexts \/ (k # 0 /\ j = k /\ html[k] # "blank"),
           Begin(NoUnit, OfficeEmit(current) \o <<SeasonUnit(k)>>, "idle")
    PROVE  OfficePlaced'
<1> DEFINE closed == OfficeEmit(current)
           E == ToSet(closed)
           unit == SeasonUnit(k)
           G == {unit}
<1>1. OfficeEmits(E) /\ closed \in Seq(Builder)
  BY OfficeCloseIs
<1>2. /\ NewUnit \in Builder /\ NewUnit.head = at /\ NewUnit.page = page
      /\ Texts(NewUnit) = {} /\ ~HasPart(NewUnit, {"number"}) /\ at \in Nat
  BY NewUnitIs, NoPieces DEF PageRead
<1>3. /\ unit \in Builder /\ unit.head = at /\ unit.page = page /\ ~HasPart(unit, {"number"})
      /\ IF k # 0 /\ html[k] # "blank" THEN Texts(unit) = {k} ELSE Texts(unit) = {}
  <2>1. k # 0 => Max({k, 1}) = k
    <3>1. ASSUME k # 0 PROVE Max({k, 1}) = k
      <4>1. {k, 1} \in SUBSET (1 .. k) /\ {k, 1} # {} /\ k \in {k, 1}
        BY <3>1
      <4>2. Max({k, 1}) \in {k, 1} /\ k <= Max({k, 1})
        BY <4>1, MaxIsThere
      <4> QED BY <3>1, <4>2
    <3> QED BY <3>1
  <2>2. CASE k = 0 \/ html[k] = "blank"
    <3>1. unit = NewUnit
      BY <2>1, <2>2 DEF SeasonUnit
    <3> HIDE DEF unit
    <3> QED BY <1>2, <2>2, <3>1
  <2>3. CASE k # 0 /\ html[k] # "blank"
    <3>1. unit = With(NewUnit, "body", k)
      BY <2>1, <2>3 DEF SeasonUnit
    <3> DEFINE first == NewUnit
               part == "body"
    <3> HIDE DEF unit
    <3>2. /\ first \in Builder /\ first.head = at /\ first.page = page /\ Texts(first) = {}
          /\ ~HasPart(first, {"number"}) /\ part \in Part /\ part \notin Unplaced
          /\ unit = With(first, part, k) /\ part # "number"
      BY <1>2, <3>1 DEF Part, Unplaced
    <3> HIDE DEF first, part
    <3>3. /\ unit \in Builder /\ unit.head = at /\ unit.page = page /\ Texts(unit) = {k}
          /\ HasPart(unit, {"number"}) <=> HasPart(first, {"number"}) \/ part \in {"number"}
      BY <3>2, WithIs, PiecesWith
    <3> QED BY <2>3, <3>2, <3>3
  <2> QED BY <2>2, <2>3
<1>4. at \in Alone
  BY DEF Alone
<1>5. /\ results' = results \o (closed \o <<unit>>) /\ current' = NoUnit /\ state' = "idle"
      /\ UNCHANGED <<book, page>>
  BY DEF Begin
<1> HIDE DEF unit, closed
<1>6. ToSet(results') = ToSet(results) \cup (E \cup G)
  <2> DEFINE last == <<unit>>
             both == closed \o last
  <2>1. last \in Seq(Builder) /\ ToSet(last) = G
    BY <1>3, ToSetOne
  <2> HIDE DEF last
  <2>2. both \in Seq(Builder) /\ ToSet(both) = E \cup G
    BY <1>1, <2>1, ToSetConcat
  <2>3. results' = results \o both /\ results \in Seq(Builder)
    BY <1>5 DEF last, PageRead
  <2> HIDE DEF both
  <2>4. ToSet(results \o both) = ToSet(results) \cup ToSet(both)
    BY <2>2, <2>3, ToSetConcat
  <2> QED BY <2>2, <2>3, <2>4
<1>7. \A u \in G : /\ ~HasPart(u, {"number"}) /\ u.head = at /\ u.page = page /\ at \in Alone
                   /\ \A j \in Texts(u) : j \in at .. m
  BY <1>3, <1>4
<1>8. \A j \in OfficeTexts' : j \in at .. m => \E u \in G : j \in Texts(u) /\ current' = NoUnit
  <2>1. \A j \in OfficeTexts : j \notin at .. m
    BY <1>2 DEF OfficeTexts
  <2> QED BY <1>3, <1>5, <2>1
<1>9. \A j \in OfficeTexts' : j \in OfficeTexts \/ j \in at .. m
  OBVIOUS
<1>10. state' # "done" /\ UNCHANGED <<html, book, page>>
  BY <1>5
<1> HIDE DEF E, G
<1> QED BY <1>1, <1>4, <1>5, <1>6, <1>7, <1>8, <1>9, <1>10, OfficeBegins

\* A season with its sentence in one paragraph.
LEMMA SeasonPlace ==
    ASSUME PageRead, OfficePlaced, SeasonalSentence PROVE OfficePlaced'
<1> DEFINE k == "season"
<1>1. Reads(k) /\ Begin(NoUnit, OfficeEmit(current) \o <<SeasonUnit(at)>>, "idle") /\ UNCHANGED book
  BY DEF SeasonalSentence, Begin
<1>2. k = "season" /\ k # "lone_season" /\ k # "marker"
  OBVIOUS
<1> HIDE DEF k
<1>3. /\ UNCHANGED html /\ at <= Len(html) /\ html[at] = k /\ ~TakenBySeason[at]
      /\ state # "done" /\ at' - 1 = at /\ at - 1 \in Nat
      /\ OfficeHeads' = IF OfficeOpens(at) THEN OfficeHeads \cup {at} ELSE OfficeHeads
      /\ OfficeMarks' = OfficeMarks
      /\ OfficeTexts' = IF OfficeHasText(at) THEN OfficeTexts \cup {at} ELSE OfficeTexts
      /\ SeasonsOver(at)'
  BY <1>1, <1>2, OfficeStep
<1>4. OfficeOpens(at) /\ ~OfficeHasText(at)
  BY <1>2, <1>3 DEF OfficeOpens, OfficeHasText
<1>5. at \in 1 .. Len(html) /\ at \in Nat /\ at <= at /\ at' = at + 1 /\ at \in at .. at
  <2>1. Len(html) \in Nat
    BY AppendIs DEF PageRead
  <2> QED BY <1>1, <1>3, <2>1 DEF PageRead, Reads
<1> QED BY <1>1, <1>2, <1>3, <1>4, <1>5, SeasonPlaced

\* A season that stands alone takes its sentence, and the loop jumps behind it.
LEMMA LonePlace ==
    ASSUME PageRead, OfficePlaced, LoneSeason PROVE OfficePlaced'
<1> DEFINE k == SentenceBelow(at)
           m == Max({at, k})
<1>1. /\ state # "done" /\ at <= Len(html) /\ html[at] = "lone_season" /\ at' = m + 1 /\ UNCHANGED html
      /\ Begin(NoUnit, OfficeEmit(current) \o <<SeasonUnit(k)>>, "idle") /\ UNCHANGED book
  BY DEF LoneSeason, Begin
<1>2. at \in 1 .. Len(html) /\ at \in Nat \ {0} /\ Len(html) \in Nat /\ IsSequence(html)
  <2>1. Len(html) \in Nat
    BY AppendIs DEF PageRead
  <2> QED BY <1>1, <2>1 DEF PageRead
<1>3. \/ k = 0
      \/ /\ k \in at + 1 .. Len(html) /\ html[k] \in Paragraphs
         /\ \A i \in at + 1 .. k - 1 : html[i] \in PassedOver
  BY <1>2, SentenceIs
<1>4. ~TakenBySeason[at] /\ ~JumpedOver(at)
  BY <1>1, NextIsFree
<1> HIDE DEF m
<1>5. m = IF k = 0 THEN at ELSE k
  <2>1. CASE k = 0
    <3>1. \A y \in {at, k} : at >= y
      BY <1>2, <2>1
    <3>2. m \in {at, k} /\ \A y \in {at, k} : m >= y
      BY <3>1 DEF Max, m
    <3> QED BY <1>2, <2>1, <3>2
  <2>2. CASE k # 0
    <3>1. k \in Nat /\ {at, k} \in SUBSET (1 .. k) /\ {at, k} # {}
      BY <1>2, <1>3, <2>2
    <3>2. m \in {at, k} /\ k <= m
      BY <3>1, MaxIsThere DEF m
    <3> QED BY <1>2, <1>3, <2>2, <3>1, <3>2
  <2> QED BY <2>1, <2>2
<1>6. /\ m \in Nat /\ at <= m /\ at' - 1 = m /\ m <= Len(html) /\ k \in Nat
      /\ k = 0 \/ k \in at .. m
      /\ at + 1 .. k - 1 = at + 1 .. m - 1
  <2>1. CASE k = 0
    <3>1. at + 1 .. k - 1 = {} /\ at + 1 .. m - 1 = {}
      BY <1>2, <1>5, <2>1
    <3> QED BY <1>1, <1>2, <1>5, <2>1, <3>1
  <2>2. CASE k # 0
    BY <1>1, <1>2, <1>3, <1>5, <2>2
  <2> QED BY <2>1, <2>2
<1> HIDE DEF k
\* What lies between is jumped over, and opens nothing; m is the sentence.
<1>7. ASSUME NEW j \in at + 1 .. m - 1
      PROVE  html[j] \in PassedOver /\ JumpedOver(j) /\ ~TakenBySeason[j]
  <2>1. k # 0 /\ j \in 1 .. Len(html) /\ at \in 1 .. j - 1 /\ k > j /\ k = m
    BY <1>2, <1>5, <1>6, <1>7
  <2>2. html[j] \in PassedOver
    BY <1>3, <1>6, <1>7, <2>1
  <2>3. JumpedOver(j)
    BY <1>1, <1>4, <2>1 DEF JumpedOver, k
  <2>4. ASSUME NEW s \in 1 .. j - 1, html[s] = "lone_season", ~TakenBySeason[s], SentenceBelow(s) = j
        PROVE  FALSE
    <3>1. CASE s \in 1 .. at - 1
      <4>1. j < at
        BY <2>4, <3>1 DEF OfficePlaced, SeasonsOver
      <4> QED BY <1>2, <2>1, <4>1
    <3>2. CASE s = at
      BY <1>5, <1>7, <2>1, <2>4, <3>2, <1>6 DEF k
    <3>3. CASE s \in at + 1 .. m - 1
      <4>1. html[s] \in PassedOver
        BY <1>3, <1>6, <2>1, <3>3
      <4> QED BY <2>4, <4>1 DEF PassedOver
    <3>0. s \in Nat /\ 1 <= s /\ s <= j - 1 /\ j \in Nat /\ j <= m - 1
      BY <1>6, <1>7, <2>1, <2>4
    <3>4. \/ s \in 1 .. at - 1
          \/ s = at
          \/ s \in at + 1 .. m - 1
      BY <1>2, <1>6, <3>0
    <3> QED BY <3>1, <3>2, <3>3, <3>4
  <2>5. ~TakenBySeason[j]
    BY <1>2, <2>1, <2>4, TakenIs
  <2> QED BY <2>2, <2>3, <2>5
<1>8. k # 0 => TakenBySeason[k] /\ html[k] \in Paragraphs /\ k = m
  <2>1. SUFFICES ASSUME k # 0 PROVE TakenBySeason[k]
    BY <1>3, <1>5
  <2>2. k \in 1 .. Len(html) /\ at \in 1 .. k - 1
    BY <1>2, <1>3, <2>1
  <2> QED BY <1>1, <1>2, <1>4, <2>2, TakenIs DEF k
<1>9. 1 .. m = (1 .. at - 1) \cup {at} \cup (at + 1 .. m - 1) \cup {m}
  BY <1>2, <1>6
<1>10. k = 0 => m = at
  BY <1>5
<1>11. OfficeOpens(at) /\ ~OfficeHasText(at) /\ html[at] # "marker"
  BY <1>1, <1>4 DEF OfficeOpens, OfficeHasText
<1>12. ASSUME NEW j \in at + 1 .. m - 1 PROVE ~OfficeOpens(j) /\ ~OfficeHasText(j)
  BY <1>7 DEF OfficeOpens, OfficeHasText, TitleOpens, PassedOver
<1>13. k # 0 => ~OfficeOpens(m) /\ html[m] # "marker"
  BY <1>8 DEF OfficeOpens, Paragraphs
<1>14. OfficeHeads' = OfficeHeads \cup {at}
  <2>1. OfficeHeads' = {j \in 1 .. m : OfficeOpens(j)}
    BY <1>1, <1>6, SamePage DEF OfficeHeads
  <2>2. at \in 1 .. m
    BY <1>2, <1>6
  <2>3. \A j \in 1 .. m : OfficeOpens(j) <=> (j \in 1 .. at - 1 /\ OfficeOpens(j)) \/ j = at
    BY <1>9, <1>10, <1>11, <1>12, <1>13
  <2>4. \A j \in 1 .. at - 1 : j \in 1 .. m
    BY <1>9
  <2> QED BY <2>1, <2>2, <2>3, <2>4 DEF OfficeHeads
<1>15. OfficeMarks' = OfficeMarks
  <2>1. OfficeMarks' = {j \in 1 .. m : html[j] = "marker" /\ ~JumpedOver(j)}
    BY <1>1, <1>6, SamePage DEF OfficeMarks
  <2>2. \A j \in 1 .. m : html[j] = "marker" /\ ~JumpedOver(j) => j \in 1 .. at - 1
    BY <1>9, <1>10, <1>11, <1>7, <1>13
  <2>3. \A j \in 1 .. at - 1 : j \in 1 .. m
    BY <1>9
  <2> QED BY <2>1, <2>2, <2>3 DEF OfficeMarks
<1>16. \A j \in OfficeTexts' : j \in OfficeTexts \/ (k # 0 /\ j = k /\ html[k] # "blank")
  <2>1. OfficeTexts' = {j \in 1 .. m : OfficeHasText(j)}
    BY <1>1, <1>6, SamePage DEF OfficeTexts
  <2>2. ASSUME NEW j \in 1 .. m, OfficeHasText(j)
        PROVE  j \in 1 .. at - 1 \/ (k # 0 /\ j = k)
    BY <1>9, <1>10, <1>8, <1>11, <1>12, <2>2
  <2>3. k # 0 /\ OfficeHasText(k) => html[k] # "blank"
    BY DEF OfficeHasText
  <2> QED BY <2>1, <2>2, <2>3 DEF OfficeTexts
<1>17. SeasonsOver(at)'
  <2>1. ASSUME NEW r \in 1 .. m, html[r] = "lone_season", ~TakenBySeason[r]
        PROVE  SentenceBelow(r) < m + 1
    <3>1. CASE r \in 1 .. at - 1
      <4>1. SentenceBelow(r) < at /\ r \in Nat
        BY <2>1, <3>1 DEF OfficePlaced, SeasonsOver
      <4>2. SentenceBelow(r) \in Nat
        <5>1. SentenceBelow(r) = 0 \/ SentenceBelow(r) \in r + 1 .. Len(html)
          BY <1>2, <4>1, SentenceIs
        <5> QED BY <4>1, <5>1
      <4> QED BY <1>2, <1>6, <4>1, <4>2
    <3>2. CASE r = at
      BY <1>2, <1>5, <1>6, <3>2 DEF k
    <3>3. CASE r \in at + 1 .. m - 1
      BY <1>7, <2>1, <3>3 DEF PassedOver
    <3>4. CASE r = m /\ k # 0
      BY <1>8, <2>1, <3>4
    <3> QED BY <1>9, <1>10, <3>1, <3>2, <3>3, <3>4
  <2>2. \A r \in 1 .. m : html'[r] = "lone_season" /\ ~TakenBySeason'[r] => SentenceBelow(r)' < at'
    BY <1>1, <2>1, SamePage
  <2> QED BY <1>6, <2>2 DEF SeasonsOver
<1> QED BY <1>1, <1>2, <1>6, <1>14, <1>15, <1>16, <1>17, SeasonPlaced

\* The two ways a unit of the office begins: empty, or with the cells of a table.
LEMMA OfficeUnits ==
    ASSUME PageRead
    PROVE  /\ NewUnit \in Builder /\ NewUnit.head = at /\ NewUnit.page = page /\ NewUnit.named
           /\ Texts(NewUnit) = {} /\ ~HasPart(NewUnit, {"number"})
           /\ With(NewUnit, "body", at) \in Builder /\ With(NewUnit, "body", at).head = at
           /\ With(NewUnit, "body", at).page = page /\ With(NewUnit, "body", at).named
           /\ Texts(With(NewUnit, "body", at)) = {at} /\ ~HasPart(With(NewUnit, "body", at), {"number"})
<1> DEFINE first == NewUnit
           part == "body"
           unit == With(first, part, at)
<1>1. /\ first \in Builder /\ first.head = at /\ first.page = page /\ first.named /\ at \in Nat
      /\ Texts(first) = {} /\ ~HasPart(first, {"number"})
  BY NewUnitIs, NoPieces DEF PageRead, NewUnit
<1>2. part \in Part /\ part \notin Unplaced /\ part # "number"
  BY DEF Part, Unplaced
<1> HIDE DEF first, part
<1>3. /\ unit \in Builder /\ unit.head = at /\ unit.page = page /\ unit.named
      /\ Texts(unit) = Texts(first) \cup {at}
      /\ HasPart(unit, {"number"}) <=> HasPart(first, {"number"}) \/ part \in {"number"}
  BY <1>1, <1>2, WithIs, PiecesWith
<1>4. Texts(unit) = {at} /\ ~HasPart(unit, {"number"})
  BY <1>1, <1>2, <1>3
<1> QED BY <1>1, <1>3, <1>4 DEF first, part

\* Every step of the parser of the office keeps texts and pages in place.
LEMMA OfficePlace ==
    ASSUME PageRead, OfficePlaced, OfficeNext PROVE OfficePlaced'
<1>1. CASE PageMarker
  BY <1>1, OfficeMarked
<1>2. CASE Skip({"skip", "blank"})
  <2>1. PICK k \in {"skip", "blank"} : Reads(k)
    BY <1>2 DEF Skip
  <2>2. UNCHANGED <<book, state, current, page, results>>
    BY <1>2 DEF Skip
  <2>3. html[at] = k /\ ~TakenBySeason[at]
    BY <2>1, <2>2, OfficeStep
  <2>4. ~OfficeOpens(at) /\ ~OfficeHasText(at)
    BY <2>1, <2>3 DEF OfficeOpens, TitleOpens, OfficeHasText
  <2> QED BY <2>1, <2>2, <2>4, OfficePasses
<1>3. CASE OfficeTitle
  <2>1. PICK k \in {"h1", "h2"} :
            \/ TitleOpens(k) /\ Reads(k) /\ Begin(NewUnit, OfficeEmit(current), "in_unit")
            \/ ~TitleOpens(k) /\ Skip({k})
    BY <1>3 DEF OfficeTitle
  <2>2. Reads(k) /\ UNCHANGED book
    BY <2>1 DEF Skip, Begin
  <2>3. html[at] = k /\ ~TakenBySeason[at]
    BY <2>2, OfficeStep
  <2>4. CASE TitleOpens(k)
    <3>1. OfficeOpens(at)
      BY <2>3, <2>4 DEF OfficeOpens
    <3> DEFINE unit == NewUnit
               s == "in_unit"
    <3>2. /\ unit \in Builder /\ unit.head = at /\ unit.page = page /\ (unit.named <=> k # "blank_strong")
          /\ Texts(unit) = {} /\ ~HasPart(unit, {"number"})
          /\ Begin(unit, OfficeEmit(current), s) /\ s # "done"
      BY <2>1, <2>4, OfficeUnits
    <3> HIDE DEF unit, s
    <3> QED BY <2>2, <3>1, <3>2, OfficeNew
  <2>5. CASE ~TitleOpens(k)
    <3>1. UNCHANGED <<book, state, current, page, results>>
      BY <2>1, <2>5 DEF Skip
    <3>2. ~OfficeOpens(at) /\ ~OfficeHasText(at)
      BY <2>3, <2>5 DEF OfficeOpens, OfficeHasText
    <3> QED BY <2>2, <3>1, <3>2, OfficePasses
  <2> QED BY <2>4, <2>5
<1>4. CASE OfficeHeading
  <2> DEFINE s == "in_unit"
             One(k) == [NewUnit EXCEPT !.named = (k = "strong")]
  <2>1. PICK k \in {"strong", "blank_strong"} : Reads(k) /\ Begin(One(k), OfficeEmit(current), s)
    BY <1>4 DEF OfficeHeading
  <2>2. s # "done" /\ UNCHANGED book
    BY <2>1 DEF Begin
  <2>3. html[at] = k /\ ~TakenBySeason[at]
    BY <2>1, <2>2, OfficeStep
  <2>4. OfficeOpens(at)
    BY <2>3 DEF OfficeOpens
  <2> DEFINE unit == One(k)
  <2>5. /\ unit \in Builder /\ unit.head = at /\ unit.page = page /\ (unit.named <=> k # "blank_strong")
        /\ unit.text = NewUnit.text
    BY OfficeUnits DEF NewUnit, Builder
  <2>6. Begin(unit, OfficeEmit(current), s)
    BY <2>1
  <2> HIDE DEF unit, s
  <2>7. Texts(unit) = {} /\ ~HasPart(unit, {"number"})
    BY <2>5, OfficeUnits DEF Texts, Pieces, HasPart
  <2> QED BY <2>1, <2>2, <2>4, <2>5, <2>6, <2>7, OfficeNew
<1>5. CASE OfficeTable
  <2>1. CASE Reads("table_head") /\ Begin(With(NewUnit, "body", at), OfficeEmit(current), "in_unit")
    <3> DEFINE unit == With(NewUnit, "body", at)
               s == "in_unit"
               k == "table_head"
    <3>1. /\ unit \in Builder /\ unit.head = at /\ unit.page = page /\ unit.named
          /\ Texts(unit) = {at} /\ ~HasPart(unit, {"number"})
          /\ Begin(unit, OfficeEmit(current), s) /\ s # "done" /\ UNCHANGED book
          /\ Reads(k) /\ k = "table_head"
      BY <2>1, OfficeUnits DEF Begin
    <3> HIDE DEF unit, s, k
    <3>2. html[at] = k /\ ~TakenBySeason[at]
      BY <3>1, OfficeStep
    <3>3. OfficeOpens(at)
      BY <3>1, <3>2 DEF OfficeOpens
    <3> QED BY <3>1, <3>3, OfficeNew
  <2>2. CASE Reads("table") /\ Add("body", state)
    <3> DEFINE k == "table"
               p == "body"
    <3>1. Reads(k) /\ k = "table" /\ p \in Part \ Unplaced /\ Add(p, state) /\ UNCHANGED book
      BY <2>2 DEF Part, Unplaced, Add
    <3> HIDE DEF k, p
    <3>2. html[at] = k /\ state # "done"
      BY <3>1, OfficeStep
    <3>3. ~OfficeOpens(at)
      BY <3>1, <3>2 DEF OfficeOpens, TitleOpens
    <3> QED BY <3>1, <3>2, <3>3, OfficeTextGoes
  <2> QED BY <1>5, <2>1, <2>2 DEF OfficeTable
<1>6. CASE OfficeRubric
  <2> DEFINE k == "rubric"
  <2>1. Reads(k) /\ k = "rubric" /\ k \in Part \ Unplaced /\ Add(k, state) /\ UNCHANGED book
    BY <1>6 DEF OfficeRubric, Part, Unplaced, Add
  <2> HIDE DEF k
  <2>2. html[at] = k /\ state # "done"
    BY <2>1, OfficeStep
  <2>3. ~OfficeOpens(at)
    BY <2>1, <2>2 DEF OfficeOpens, TitleOpens
  <2> QED BY <2>1, <2>2, <2>3, OfficeTextGoes
<1>7. CASE SeasonalSentence
  BY <1>7, SeasonPlace
<1>8. CASE LoneSeason
  BY <1>8, LonePlace
<1>9. CASE CollectHeading
  <2> DEFINE unit == NewUnit
             s == "after_collect_heading"
             k == "collect"
  <2>1. /\ unit \in Builder /\ unit.head = at /\ unit.page = page /\ unit.named
        /\ Texts(unit) = {} /\ ~HasPart(unit, {"number"})
        /\ Begin(unit, OfficeEmit(current), s) /\ s # "done" /\ UNCHANGED book
        /\ Reads(k) /\ k = "collect" /\ PrayerBelow(at)
    BY <1>9, OfficeUnits DEF Begin, CollectHeading
  <2> HIDE DEF unit, s, k
  <2>2. html[at] = k /\ ~TakenBySeason[at]
    BY <2>1, OfficeStep
  <2>3. OfficeOpens(at)
    BY <2>1, <2>2 DEF OfficeOpens
  <2> QED BY <2>1, <2>3, OfficeNew
<1>10. CASE OfficeParagraph
  <2> DEFINE p == "body"
             s == IF state = "after_collect_heading" /\ current # NoUnit THEN "in_unit" ELSE state
  <2>1. PICK k \in {"text", "collect"} : (k = "collect" => ~PrayerBelow(at)) /\ Reads(k) /\ Add(p, s)
    BY <1>10 DEF OfficeParagraph
  <2>2. p \in Part \ Unplaced /\ UNCHANGED book
    BY <2>1 DEF Part, Unplaced, Add
  <2>3. html[at] = k /\ state # "done"
    BY <2>1, <2>2, OfficeStep
  <2>4. ~OfficeOpens(at)
    BY <2>1, <2>3 DEF OfficeOpens, TitleOpens
  <2>5. s # "done"
    BY <2>3
  <2> HIDE DEF p, s
  <2> QED BY <2>1, <2>2, <2>4, <2>5, OfficeTextGoes
<1>11. CASE OfficeEnds
  <2> DEFINE closed == OfficeEmit(current)
             E == ToSet(closed)
  <2>1. /\ state # "done" /\ results' = results \o closed /\ current' = NoUnit /\ state' = "done"
        /\ UNCHANGED <<book, html, at>>
    BY <1>11 DEF OfficeEnds, PageEnds
  <2>2. OfficeEmits(E) /\ closed \in Seq(Builder)
    BY OfficeCloseIs
  <2> HIDE DEF closed
  <2>3. ToSet(results') = ToSet(results) \cup E
    BY <2>1, <2>2, ToSetConcat DEF PageRead
  <2> HIDE DEF E
  <2> QED BY <2>1, <2>2, <2>3, OfficePageEnds
<1> QED BY <1>1, <1>2, <1>3, <1>4, <1>5, <1>6, <1>7, <1>8, <1>9, <1>10, <1>11 DEF OfficeNext

\* The sentence a lone season takes stands under that season.
LEMMA TakenStandsUnder ==
    ASSUME IsSequence(html), NEW k \in 1 .. Len(html), TakenBySeason[k]
    PROVE  HeadAt(k) # 0 /\ html[HeadAt(k)] = "lone_season"
<1>1. PICK s \in 1 .. k - 1 : html[s] = "lone_season" /\ ~TakenBySeason[s] /\ SentenceBelow(s) = k
  BY TakenIs
<1>2. s \in Nat /\ k \in Nat /\ k # 0 /\ s # 0 /\ s <= k /\ s \in 0 .. k
  BY AppendIs
<1>3. \A i \in s + 1 .. k - 1 : html[i] \in PassedOver
  BY <1>1, <1>2, SentenceIs
<1> DEFINE R == {j \in 1 .. k : OfficeOpens(j)}
<1>4. s \in R
  BY <1>1, <1>2 DEF OfficeOpens
<1>5. \A j \in 1 .. k : j \in R => j <= s
  <2>1. ASSUME NEW j \in 1 .. k, OfficeOpens(j), ~(j <= s) PROVE FALSE
    <3>1. j \in s + 1 .. k - 1 \/ j = k
      BY <1>2, <2>1
    <3>2. j # k
      BY <2>1 DEF OfficeOpens
    <3>3. html[j] \in PassedOver
      BY <1>3, <3>1, <3>2
    <3> QED BY <2>1, <3>3 DEF OfficeOpens, TitleOpens, PassedOver
  <2> QED BY <2>1
<1>6. HeadAt(k) = LatestIn(R, k)
  BY DEF HeadAt
<1> HIDE DEF R
<1>7. LatestIn(R, k) = s
  BY <1>2, <1>4, <1>5, LatestUnique
<1> QED BY <1>1, <1>2, <1>6, <1>7

-----------------------------------------------------------------------------
(* The lives and collects of lff_2024: pages, names and labels.             *)

\* The pages of the lives up to the element read next, the page an element is
\* on, and what opens a life.
FeastPagesRead == Of(FeastPages)
PageAt(k) == LatestIn(FeastPagesRead, k - 1)
LifeOpens(k) == html[k] \in FeastPages /\ (PageAt(k) = 0 \/ html[PageAt(k)] = "collect_page")

\* Between the elements a and b of a page stands one of these kinds; a row of
\* names ends; no label of Rite II follows but one right after a name.
Seen(h, a, b, kinds) == \E j \in a .. b : h[j] \in kinds
RowEnds(h, a, b) == \E i, j \in a .. b : h[i] = "name" /\ i < j /\ h[j] # "name"
NoRiteTwo(h, a, b) ==
    \A j \in a + 1 .. b : h[j] \in RiteII => h[j] = "II_text" /\ h[j - 1] = "name"

EarlierLabels(k) == IF k = "II_text" THEN RiteII ELSE RiteII \cup {"I", "I_text"}

LifeHasText(k) ==
    /\ PageAt(k) # 0
    /\ \/ html[k] = "name" /\ ~RowEnds(html, PageAt(k), k)
       \/ html[k] \in SmallPrint /\ html[PageAt(k)] = "bio_page"
       \/ /\ html[k] \in WithText /\ html[k - 1] # "name"
          /\ Seen(html, PageAt(k), k, {"name"})
          /\ ~Seen(html, PageAt(k), k - 1, EarlierLabels(html[k]))

LifeHeads == {k \in 1 .. at - 1 : LifeOpens(k)}
LifeTexts == {k \in 1 .. at - 1 : LifeHasText(k)}
LifeNamed == {LatestIn(LifeHeads, k) : k \in Of({"name"})}

\* One more element is read.
LEMMA SeenOn ==
    ASSUME NEW n \in Nat, NEW a \in 1 .. n, NEW g, NEW h, \A i \in 1 .. n : g[i] = h[i]
    PROVE  /\ \A kinds : Seen(g, a, n, kinds) <=> Seen(h, a, n, kinds)
           /\ \A kinds : Seen(g, a, n + 1, kinds) <=> Seen(h, a, n, kinds) \/ g[n + 1] \in kinds
           /\ RowEnds(g, a, n) <=> RowEnds(h, a, n)
           /\ RowEnds(g, a, n + 1) <=>
                RowEnds(h, a, n) \/ (Seen(h, a, n, {"name"}) /\ g[n + 1] # "name")
           /\ NoRiteTwo(g, a, n) <=> NoRiteTwo(h, a, n)
           /\ NoRiteTwo(g, a, n + 1) <=>
                /\ NoRiteTwo(h, a, n)
                /\ g[n + 1] \in RiteII => g[n + 1] = "II_text" /\ h[n] = "name"
<1>1. a .. n + 1 = (a .. n) \cup {n + 1} /\ \A j \in a .. n : j \in 1 .. n /\ j < n + 1
  OBVIOUS
<1>2. /\ a + 1 .. n + 1 = (a + 1 .. n) \cup {n + 1} /\ (n + 1) - 1 = n
      /\ \A j \in a + 1 .. n : j \in 1 .. n /\ j - 1 \in 1 .. n
  OBVIOUS
<1>3. \A kinds : Seen(g, a, n, kinds) <=> Seen(h, a, n, kinds)
  BY <1>1 DEF Seen
<1>4. \A kinds : Seen(g, a, n + 1, kinds) <=> Seen(h, a, n, kinds) \/ g[n + 1] \in kinds
  BY <1>1 DEF Seen
<1>5. RowEnds(g, a, n) <=> RowEnds(h, a, n)
  BY <1>1 DEF RowEnds
<1>6. RowEnds(g, a, n + 1) <=> RowEnds(h, a, n) \/ (Seen(h, a, n, {"name"}) /\ g[n + 1] # "name")
  <2>1. ASSUME NEW i \in a .. n + 1, NEW j \in a .. n + 1, g[i] = "name", i < j, g[j] # "name"
        PROVE  RowEnds(h, a, n) \/ (Seen(h, a, n, {"name"}) /\ g[n + 1] # "name")
    <3>1. i \in a .. n /\ h[i] = "name"
      BY <1>1, <2>1
    <3>2. CASE j \in a .. n
      BY <1>1, <2>1, <3>1, <3>2 DEF RowEnds
    <3>3. CASE j = n + 1
      BY <2>1, <3>1, <3>3 DEF Seen
    <3> QED BY <1>1, <2>1, <3>2, <3>3
  <2>2. RowEnds(h, a, n) => RowEnds(g, a, n + 1)
    BY <1>1 DEF RowEnds
  <2>3. Seen(h, a, n, {"name"}) /\ g[n + 1] # "name" => RowEnds(g, a, n + 1)
    BY <1>1 DEF RowEnds, Seen
  <2> QED BY <2>1, <2>2, <2>3 DEF RowEnds
<1>7. NoRiteTwo(g, a, n) <=> NoRiteTwo(h, a, n)
  BY <1>2 DEF NoRiteTwo
<1>8. NoRiteTwo(g, a, n + 1) <=>
        /\ NoRiteTwo(h, a, n)
        /\ g[n + 1] \in RiteII => g[n + 1] = "II_text" /\ h[n] = "name"
  <2>1. g[n] = h[n]
    OBVIOUS
  <2> QED BY <1>2, <2>1 DEF NoRiteTwo
<1> QED BY <1>3, <1>4, <1>5, <1>6, <1>7, <1>8

-----------------------------------------------------------------------------
\* Where the machine goes in state s when it reads k: to state t, with a piece for p.
Goes(s, k, p, t) ==
    /\ s = "bio" => t = s /\ p = IF k \in SmallPrint THEN "bio" ELSE ""
    /\ s = "before_name" =>
         IF k = "name" THEN p = "name" /\ t = "in_name" ELSE p = "" /\ t = s
    /\ s = "in_name" =>
         \/ k = "name" /\ p = "name" /\ t = s
         \/ k = "subtitle" /\ p = "subtitle" /\ t = "after_name"
         \/ k = "I" /\ p = "" /\ t = "rite_i"
         \/ k = "II" /\ p = "" /\ t = "rite_ii"
         \/ k \notin {"name", "I", "II"} /\ p = "" /\ t = "after_name"
    /\ s = "after_name" =>
         \/ k = "I" /\ p = "" /\ t = "rite_i"
         \/ k = "I_text" /\ p = "rite_i" /\ t = "rite_i"
         \/ k \notin {"I", "I_text"} \cup RiteII /\ p = "" /\ t = s
         \/ k \in RiteII
    /\ s = "rite_i" =>
         \/ k \notin RiteII /\ p \in {s, ""} /\ t \in {s, "after_rite_i"}
         \/ k \in RiteII
    /\ s = "after_rite_i" => (k \notin RiteII /\ p = "" /\ t = s) \/ k \in RiteII
    /\ s \in {"after_name", "rite_i", "after_rite_i"} /\ k \in RiteII =>
         t = "rite_ii" /\ p = IF k = "II_text" THEN "rite_ii" ELSE ""
    /\ s = "rite_ii" => p \in {s, ""} /\ t \in {s, "after_rite_ii", "lessons"}
    /\ s = "after_rite_ii" => p = "" /\ t \in {s, "lessons"}
    /\ s = "lessons" => p \in {"preface", "lessons", ""} /\ (p = "lessons" => k \in SmallPrint) /\ t = s

\* What a collect page does with a span.
LEMMA MoveGoes ==
    ASSUME NEW s \in {"before_name"} \cup Collecting, NEW k
    PROVE  \E p, t : CollectSpan(s, k) = Move(p, t) /\ Goes(s, k, p, t)
<1>1. \A p, t : Move(p, t).part = p /\ Move(p, t).state = t
  BY DEF Move
<1> DEFINE m == CollectSpan(s, k)
           label(lost) == RiteStarts(k, lost)
<1>2. \A lost : label(lost) = IF k = "I" THEN Move("", "rite_i")
                              ELSE IF k = "I_text" THEN Move("rite_i", "rite_i")
                              ELSE IF k = "II" THEN Move("", "rite_ii")
                              ELSE IF k = "II_text" THEN Move("rite_ii", "rite_ii")
                              ELSE Move("", lost)
  BY DEF RiteStarts, RiteII
<1>3. CASE s = "before_name"
  <2>1. m = IF k = "name" THEN Move("name", "in_name") ELSE Move("", "before_name")
    BY <1>3 DEF CollectSpan
  <2> QED BY <1>3, <2>1 DEF Goes
<1>4. CASE s = "in_name"
  <2>1. m = IF k = "name" THEN Move("name", "in_name")
            ELSE IF k = "subtitle" THEN Move("subtitle", "after_name")
            ELSE IF k \in {"I", "II"} THEN label("in_name") ELSE Move("", "after_name")
    BY <1>4 DEF CollectSpan
  <2> QED BY <1>2, <1>4, <2>1 DEF Goes
<1>5. CASE s = "after_name"
  <2>1. m = label("after_name")
    BY <1>5 DEF CollectSpan
  <2> QED BY <1>2, <1>5, <2>1 DEF Goes, RiteII
<1>6. CASE s = "rite_i"
  <2>1. m = IF k = "amen" THEN Move("rite_i", "after_rite_i")
            ELSE IF k \in RiteII THEN label("rite_i")
            ELSE IF k \in {"date", "italic"} \cup BodyText THEN Move("rite_i", "rite_i")
            ELSE Move("", "rite_i")
    BY <1>6 DEF CollectSpan, RiteII, BodyText
  <2> QED BY <1>2, <1>6, <2>1 DEF Goes, RiteII
<1>7. CASE s = "after_rite_i"
  <2>1. m = IF k \in RiteII THEN label("after_rite_i") ELSE Move("", "after_rite_i")
    BY <1>7 DEF CollectSpan
  <2> QED BY <1>2, <1>7, <2>1 DEF Goes, RiteII
<1>8. CASE s = "rite_ii"
  <2>1. \/ m = Move("rite_ii", "after_rite_ii")
        \/ m = Move("rite_ii", "rite_ii")
        \/ m = Move("", "lessons")
        \/ m = Move("", "rite_ii")
    BY <1>8 DEF CollectSpan
  <2> QED BY <1>8, <2>1 DEF Goes
<1>9. CASE s = "after_rite_ii"
  <2>1. m = Move("", "lessons") \/ m = Move("", "after_rite_ii")
    BY <1>9 DEF CollectSpan
  <2> QED BY <1>9, <2>1 DEF Goes
<1>10. CASE s = "lessons"
  <2>1. m \in {Move("preface", "lessons"), Move("lessons", "lessons"), Move("", "lessons")}
    BY <1>10 DEF CollectSpan
  <2>2. k \notin SmallPrint => m \in {Move("preface", "lessons"), Move("", "lessons")}
    BY <1>10 DEF CollectSpan, SmallPrint
  <2>3. /\ Goes(s, k, "preface", "lessons")
        /\ Goes(s, k, "", "lessons")
        /\ k \in SmallPrint => Goes(s, k, "lessons", "lessons")
    BY <1>10 DEF Goes
  <2> HIDE DEF m
  <2>4. \E p, t : m = Move(p, t) /\ Goes(s, k, p, t)
    BY <2>1, <2>2, <2>3
  <2> QED BY <2>4 DEF m
<1> QED BY <1>3, <1>4, <1>5, <1>6, <1>7, <1>8, <1>9, <1>10 DEF Collecting

\* What is emitted of a life: its text but for separators among the lessons.
LifeEmits(E) ==
    /\ \A u \in E : /\ current # NoUnit /\ HasPart(current, {"name"})
                    /\ u.head = current.head /\ u.section = current.section
                    /\ \A p \in Pieces(u) : p \in Pieces(current)
                    /\ \A p \in Pieces(current) : p \in Pieces(u) \/ p[1] = "lessons"
    /\ current # NoUnit /\ HasPart(current, {"name"}) => E # {}

\* What the end of a life emits: the unit at hand without its dangling separators.
LEMMA LifeCloses ==
    ASSUME PageRead
    PROVE  LifeEmits(ToSet(FeastEmit(current))) /\ FeastEmit(current) \in Seq(Builder)
<1>1. CASE current = NoUnit \/ ~HasPart(current, {"name"})
  BY <1>1, ToSetOne DEF FeastEmit, LifeEmits
<1>2. CASE current # NoUnit /\ HasPart(current, {"name"})
  <2> DEFINE s == current.text
             kept == {i \in DOMAIN s : ~(s[i][1] = "lessons" /\ IsDanglingOr(current, i))}
             text == Selected(s, kept)
             entry == [current EXCEPT !.text = text]
  <2>1. FeastEmit(current) = <<entry>>
    BY <1>2 DEF FeastEmit, EntryText
  <2>2. current \in Builder /\ s \in Seq(Piece) /\ kept \in SUBSET (DOMAIN s)
    BY DEF PageRead, Builder
  <2>3. \A i \in DOMAIN s : i \notin kept => s[i][1] = "lessons"
    OBVIOUS
  <2>4. Pieces(current) = {s[i] : i \in DOMAIN s}
    BY DEF Pieces
  <2> HIDE DEF kept, s
  <2>5. text \in Seq(Piece) /\ ToSet(text) = {s[i] : i \in kept}
    BY <2>2, SelectedIs
  <2> HIDE DEF text
  <2>6. /\ entry \in Builder /\ entry.head = current.head /\ entry.section = current.section
        /\ entry.text = text
    BY <2>2, <2>5 DEF Builder
  <2> HIDE DEF entry
  <2>7. Pieces(entry) = {s[i] : i \in kept}
    BY <2>5, <2>6 DEF Pieces, ToSet
  <2>8. /\ \A p \in Pieces(entry) : p \in Pieces(current)
        /\ \A p \in Pieces(current) : p \in Pieces(entry) \/ p[1] = "lessons"
    BY <2>2, <2>3, <2>4, <2>7
  <2> QED BY <1>2, <2>1, <2>6, <2>8, ToSetOne DEF LifeEmits
<1> QED BY <1>1, <1>2

\* The page of an element is before it.
LEMMA PageAtIs ==
    ASSUME NEW k \in Nat \ {0}
    PROVE  /\ PageAt(k) \in 0 .. k - 1
           /\ PageAt(k) # 0 => PageAt(k) \in 1 .. k - 1 /\ PageAt(k) \in FeastPagesRead
<1> DEFINE n == k - 1
           S == FeastPagesRead
<1>1. n \in Nat /\ PageAt(k) = LatestIn(S, n)
  BY DEF PageAt
<1> HIDE DEF n, S
<1>2. LatestIn(S, n) \in 0 .. n /\ (LatestIn(S, n) # 0 => LatestIn(S, n) \in S)
  BY <1>1, LatestIs
<1> QED BY <1>1, <1>2 DEF n, S

\* What was read stays as it is.
LEMMA LifeSame ==
    ASSUME PageRead, NEW k, Reads(k), NEW j \in 1 .. at - 1
    PROVE  /\ PageAt(j)' = PageAt(j)
           /\ LifeOpens(j)' <=> LifeOpens(j)
           /\ LifeHasText(j)' <=> LifeHasText(j)
<1> DEFINE n == at - 1
           g == html'
           h == html
           a == PageAt(j)
           i == j - 1
           S == FeastPagesRead
<1>1. n \in Nat /\ (\A x \in 1 .. n : g[x] = h[x]) /\ at = n + 1
  BY OfStep
<1>2. S' = S \/ S' = S \cup {at}
  BY OfStep DEF FeastPagesRead
<1>3. j \in Nat \ {0} /\ j \in 1 .. n /\ i \in Nat /\ i < at /\ \A x \in 1 .. i : x # at
  BY <1>1
<1>4. PageAt(j)' = a
  <2>1. PageAt(j)' = LatestIn(S', i) /\ a = LatestIn(S, i)
    BY DEF PageAt
  <2>2. \A x \in 1 .. i : x \in S' <=> x \in S
    BY <1>2, <1>3
  <2> HIDE DEF i, S
  <2> QED BY <2>1, <2>2, LatestSame
<1>5. a \in 0 .. i /\ (a # 0 => a \in 1 .. i /\ a \in 1 .. j /\ a \in 1 .. n)
  <2>1. a \in 0 .. i /\ (a # 0 => a \in 1 .. i)
    BY <1>3, PageAtIs
  <2>2. \A y \in 1 .. i : y \in 1 .. j /\ y \in 1 .. n
    BY <1>1, <1>3
  <2> HIDE DEF a
  <2> QED BY <2>1, <2>2
<1>6. g[j] = h[j] /\ (a # 0 => g[a] = h[a] /\ g[i] = h[i])
  BY <1>1, <1>3, <1>5
<1>7. ASSUME a # 0
      PROVE  /\ \A kinds : Seen(g, a, j, kinds) <=> Seen(h, a, j, kinds)
             /\ \A kinds : Seen(g, a, i, kinds) <=> Seen(h, a, i, kinds)
             /\ RowEnds(g, a, j) <=> RowEnds(h, a, j)
  <2>1. (\A x \in 1 .. j : g[x] = h[x]) /\ (\A x \in 1 .. i : g[x] = h[x])
    BY <1>1, <1>3
  <2>2. j \in Nat /\ a \in 1 .. j /\ i \in Nat /\ a \in 1 .. i
    BY <1>3, <1>5, <1>7
  <2> HIDE DEF g, h, i, a
  <2>3. /\ \A kinds : Seen(g, a, j, kinds) <=> Seen(h, a, j, kinds)
        /\ RowEnds(g, a, j) <=> RowEnds(h, a, j)
    BY <2>1, <2>2, SeenOn
  <2>4. \A kinds : Seen(g, a, i, kinds) <=> Seen(h, a, i, kinds)
    BY <2>1, <2>2, SeenOn
  <2> QED BY <2>3, <2>4
<1>8. LifeOpens(j)' <=> LifeOpens(j)
  BY <1>4, <1>6 DEF LifeOpens
<1>9. LifeHasText(j)' <=> LifeHasText(j)
  <2>1. LifeHasText(j)' <=>
          /\ a # 0
          /\ \/ g[j] = "name" /\ ~RowEnds(g, a, j)
             \/ g[j] \in SmallPrint /\ g[a] = "bio_page"
             \/ /\ g[j] \in WithText /\ g[i] # "name"
                /\ Seen(g, a, j, {"name"})
                /\ ~Seen(g, a, i, EarlierLabels(g[j]))
    BY <1>4 DEF LifeHasText
  <2>2. LifeHasText(j) <=>
          /\ a # 0
          /\ \/ h[j] = "name" /\ ~RowEnds(h, a, j)
             \/ h[j] \in SmallPrint /\ h[a] = "bio_page"
             \/ /\ h[j] \in WithText /\ h[i] # "name"
                /\ Seen(h, a, j, {"name"})
                /\ ~Seen(h, a, i, EarlierLabels(h[j]))
    BY DEF LifeHasText
  <2> HIDE DEF a, g, h, i
  <2> QED BY <1>6, <1>7, <2>1, <2>2
<1> QED BY <1>4, <1>8, <1>9

PageKnown == page = LatestIn(FeastPagesRead, at - 1)

\* An element k is read: whether it opens a life, and what it takes to be a text.
LEMMA LifeStep ==
    ASSUME PageRead, PageKnown, NEW k, Reads(k)
    PROVE  /\ page \in 0 .. at - 1 /\ (page # 0 => html[page] \in FeastPages)
           /\ html'[at] = k
           /\ LifeHeads \in SUBSET (1 .. at - 1) /\ LifeTexts \in SUBSET (1 .. at - 1)
           /\ LifeHeads' = IF k \in FeastPages /\ (page = 0 \/ html[page] = "collect_page")
                             THEN LifeHeads \cup {at} ELSE LifeHeads
           /\ \A j \in LifeTexts' : j \in LifeTexts \/ j = at
           /\ \A j \in 1 .. at - 1 : j \in LifeTexts' <=> j \in LifeTexts
           /\ at \in LifeTexts' =>
                /\ page # 0
                /\ \/ k = "name" /\ ~RowEnds(html, page, at - 1)
                   \/ k \in SmallPrint /\ html[page] = "bio_page"
                   \/ /\ k \in WithText /\ html[at - 1] # "name"
                      /\ Seen(html, page, at - 1, {"name"})
                      /\ ~Seen(html, page, at - 1, EarlierLabels(k))
<1> DEFINE n == at - 1
           g == html'
           h == html
           S == FeastPagesRead
<1>0. PICK x : x = at
  OBVIOUS
<1>1. /\ n \in Nat /\ (\A j \in 1 .. n : g[j] = h[j]) /\ at = n + 1 /\ g[at] = k /\ at' - 1 = at
      /\ at \in Nat \ {0} /\ 1 .. at = (1 .. n) \cup {at} /\ at \notin 1 .. n
  <2>1. n \in Nat /\ (\A j \in 1 .. n : g[j] = h[j]) /\ at = n + 1 /\ g[at] = k /\ at' - 1 = at
    BY OfStep
  <2> HIDE DEF n, g, h
  <2>2. 1 .. n + 1 = (1 .. n) \cup {n + 1} /\ n + 1 \notin 1 .. n /\ n + 1 \in Nat \ {0}
    BY <2>1
  <2> QED BY <2>1, <2>2
<1>2. S' = S \/ S' = S \cup {at}
  BY OfStep DEF FeastPagesRead
<1>3. page = LatestIn(S, n)
  BY DEF PageKnown
<1>4. PageAt(x)' = page
  <2>1. PageAt(x)' = LatestIn(S', n)
    BY <1>0 DEF PageAt
  <2>2. \A j \in 1 .. n : j \in S' <=> j \in S
    BY <1>1, <1>2
  <2> HIDE DEF S
  <2>3. LatestIn(S', n) = LatestIn(S, n)
    BY <2>2, LatestSame
  <2> QED BY <1>3, <2>1, <2>3
<1>5. page \in 0 .. n /\ (page # 0 => page \in 1 .. n /\ page \in S)
  <2> HIDE DEF n, S
  <2>1. LatestIn(S, n) \in 0 .. n /\ (LatestIn(S, n) # 0 => LatestIn(S, n) \in S)
    BY <1>1, LatestIs
  <2> QED BY <1>1, <1>3, <2>1
<1>6. page # 0 => h[page] \in FeastPages /\ g[page] = h[page] /\ g[n] = h[n] /\ n \in 1 .. n
  BY <1>1, <1>5 DEF FeastPagesRead, Of
<1>7. \A j \in 1 .. n : (LifeOpens(j)' <=> LifeOpens(j)) /\ (LifeHasText(j)' <=> LifeHasText(j))
  BY LifeSame
<1>8. LifeOpens(x)' <=> k \in FeastPages /\ (page = 0 \/ h[page] = "collect_page")
  <2>1. LifeOpens(x)' <=> g[at] \in FeastPages /\ (page = 0 \/ g[page] = "collect_page")
    BY <1>0, <1>4 DEF LifeOpens
  <2> QED BY <1>1, <1>6, <2>1
<1>9. LifeHeads' = {j \in 1 .. n + 1 : LifeOpens(j)'} /\ LifeTexts' = {j \in 1 .. n + 1 : LifeHasText(j)'}
  BY <1>1 DEF LifeHeads, LifeTexts
<1>10. LifeHeads = {j \in 1 .. n : LifeOpens(j)} /\ LifeTexts = {j \in 1 .. n : LifeHasText(j)}
  BY DEF LifeHeads, LifeTexts
<1>11. LifeHeads' = IF k \in FeastPages /\ (page = 0 \/ h[page] = "collect_page")
                      THEN LifeHeads \cup {at} ELSE LifeHeads
  <2> HIDE DEF n, g, h, S
  <2>1. ASSUME NEW j PROVE j \in LifeHeads' <=> (j \in LifeHeads \/ (j = at /\ LifeOpens(x)'))
    BY <1>0, <1>1, <1>7, <1>9, <1>10
  <2> QED BY <1>0, <1>8, <2>1
<1>12. /\ \A j \in LifeTexts' : j \in LifeTexts \/ j = at
       /\ \A j \in 1 .. n : j \in LifeTexts' <=> j \in LifeTexts
       /\ at \in LifeTexts' => LifeHasText(x)'
  <2> HIDE DEF n, g, h, S
  <2> QED BY <1>0, <1>1, <1>7, <1>9, <1>10
<1>13. LifeHasText(x)' =>
          /\ page # 0
          /\ \/ k = "name" /\ ~RowEnds(h, page, n)
             \/ k \in SmallPrint /\ h[page] = "bio_page"
             \/ /\ k \in WithText /\ h[n] # "name"
                /\ Seen(h, page, n, {"name"})
                /\ ~Seen(h, page, n, EarlierLabels(k))
  <2>1. LifeHasText(x)' <=>
          /\ page # 0
          /\ \/ g[at] = "name" /\ ~RowEnds(g, page, at)
             \/ g[at] \in SmallPrint /\ g[page] = "bio_page"
             \/ /\ g[at] \in WithText /\ g[n] # "name"
                /\ Seen(g, page, at, {"name"})
                /\ ~Seen(g, page, n, EarlierLabels(g[at]))
    BY <1>0, <1>4 DEF LifeHasText
  <2> HIDE DEF n, g, h, S
  <2>2. ASSUME page # 0
        PROVE  /\ \A kinds : Seen(g, page, n, kinds) <=> Seen(h, page, n, kinds)
               /\ \A kinds : Seen(g, page, at, kinds) <=> Seen(h, page, n, kinds) \/ k \in kinds
               /\ ~RowEnds(g, page, at) => ~RowEnds(h, page, n)
    <3>1. page \in 1 .. n
      BY <1>5, <2>2
    <3> QED BY <1>1, <3>1, SeenOn
  <2>3. k \in WithText => k \notin {"name"}
    BY DEF WithText
  <2> QED BY <1>1, <1>6, <2>1, <2>2, <2>3
<1> HIDE DEF S
<1> QED BY <1>1, <1>5, <1>6, <1>10, <1>11, <1>12, <1>13

-----------------------------------------------------------------------------
(* The lives: where the machine stands on the page.                         *)

LifeNames == Of({"name"})
RiteOne == {"I", "I_text"}

\* What the state of the machine says of the page at hand.
Machine ==
    /\ PageKnown
    /\ state # "done" /\ current = NoUnit => page = 0 /\ state = "idle"
    /\ current # NoUnit =>
         /\ page # 0 /\ current.head \in 1 .. page
         /\ state = "bio" <=> html[page] = "bio_page"
         /\ state \in {"bio", "before_name"} => ~Seen(html, page, at - 1, {"name"})
         /\ state \in Collecting => Seen(html, page, at - 1, {"name"})
         /\ state = "in_name" => html[at - 1] = "name"
         /\ state \in Collecting \ {"in_name"} => RowEnds(html, page, at - 1)
         /\ state \in {"rite_i", "after_rite_i"} => Seen(html, page, at - 1, RiteOne \cup RiteII)
         /\ state \in {"rite_ii", "after_rite_ii", "lessons"} => Seen(html, page, at - 1, RiteII)
         /\ state \in {"in_name", "after_name", "rite_i"} =>
              NoRiteTwo(html, LatestIn(LifeNames, at - 1), at - 1)

\* A span k is read, a piece of it goes to part p, and the machine to state t.
Spanned(k, p, t) ==
    /\ Reads(k) /\ current # NoUnit /\ current' # NoUnit
    /\ k = "name" => state # "bio"
    /\ state' = t /\ Goes(state, k, p, t) /\ p \in (Part \ Unplaced) \cup {""}
    /\ UNCHANGED <<book, page, results>>
    /\ current'.head = current.head
    /\ section' = IF k = "date" /\ FirstDateOfPage THEN at ELSE section
    /\ current'.section = IF section' # section /\ (current.section = 0 \/ current.head = page)
                            THEN section' ELSE current.section
    /\ Pieces(current') = Pieces(current) \cup (IF p = "" THEN {} ELSE {<<p, at>>})
    /\ Texts(current') = Texts(current) \cup (IF p = "" THEN {} ELSE {at})
    /\ \A parts : HasPart(current', parts) <=> HasPart(current, parts) \/ (p # "" /\ p \in parts)

\* A span is read, in these words.
LEMMA SpanStep ==
    ASSUME PageRead, LivesInv, Machine, FeastSpan
    PROVE  \E k \in Spans : \E p, t : Spanned(k, p, t)
<1>1. PICK k \in Spans :
          /\ current # NoUnit /\ Reads(k)
          /\ k = "name" => state # "bio"
          /\ section' = IF k = "date" /\ FirstDateOfPage THEN at ELSE section
          /\ LET move == IF state = "bio" THEN BioSpan(state, k) ELSE CollectSpan(state, k)
                 dated == IF section' # section THEN Dated(current) ELSE current
             IN  /\ state' = move.state
                 /\ current' = IF move.part = "" THEN dated ELSE With(dated, move.part, at)
          /\ UNCHANGED <<book, page, pending, results>>
  BY DEF FeastSpan
<1>2. at \in Nat /\ current \in Builder /\ section' \in Nat
  BY <1>1 DEF PageRead
<1>3. state \in {"bio", "before_name"} \cup Collecting
  BY <1>1 DEF LivesInv
<1>4. PICK p, t :
          /\ (IF state = "bio" THEN BioSpan(state, k) ELSE CollectSpan(state, k)) = Move(p, t)
          /\ Goes(state, k, p, t)
  <2>1. CASE state = "bio"
    <3> DEFINE part == IF k \in SmallPrint THEN "bio" ELSE ""
    <3>1. BioSpan(state, k) = Move(part, "bio") /\ Goes("bio", k, part, "bio")
      BY <2>1 DEF BioSpan, Goes
    <3> QED BY <2>1, <3>1
  <2>2. CASE state # "bio"
    BY <1>3, <2>2, MoveGoes
  <2> QED BY <2>1, <2>2
<1>5. PICK dated : dated = IF section' # section THEN Dated(current) ELSE current
  OBVIOUS
<1>6. state' = t /\ current' = IF p = "" THEN dated ELSE With(dated, p, at)
  <2>1. Move(p, t).state = t /\ Move(p, t).part = p
    BY DEF Move
  <2> QED BY <1>1, <1>4, <1>5, <2>1
<1>7. p \in (Part \ Unplaced) \cup {""}
  BY <1>3, <1>4 DEF Goes, Collecting, Part, Unplaced
<1>8. /\ dated \in Builder /\ dated.head = current.head /\ dated.text = current.text
      /\ dated.section = IF section' # section /\ (current.section = 0 \/ current.head = page)
                           THEN section' ELSE current.section
  <2>1. CASE section' # section /\ (current.section = 0 \/ current.head = page)
    <3>1. dated = [current EXCEPT !.section = section']
      BY <1>5, <2>1 DEF Dated
    <3> QED BY <1>2, <2>1, <3>1 DEF Builder
  <2>2. CASE ~(section' # section /\ (current.section = 0 \/ current.head = page))
    <3>1. dated = current
      BY <1>5, <2>2 DEF Dated
    <3> QED BY <1>2, <2>2, <3>1
  <2> QED BY <2>1, <2>2
<1>9. /\ Pieces(dated) = Pieces(current) /\ Texts(dated) = Texts(current)
      /\ \A parts : HasPart(dated, parts) <=> HasPart(current, parts)
  BY <1>8 DEF Pieces, Texts, HasPart
<1>10. /\ current'.head = current.head /\ current'.section = dated.section
       /\ Pieces(current') = Pieces(current) \cup (IF p = "" THEN {} ELSE {<<p, at>>})
       /\ Texts(current') = Texts(current) \cup (IF p = "" THEN {} ELSE {at})
       /\ \A parts : HasPart(current', parts) <=> HasPart(current, parts) \/ (p # "" /\ p \in parts)
  <2>1. CASE p = ""
    BY <1>6, <1>8, <1>9, <2>1
  <2>2. CASE p # ""
    <3>1. p \in Part /\ p \notin Unplaced /\ current' = With(dated, p, at)
      BY <1>6, <1>7, <2>2
    <3>2. /\ With(dated, p, at).head = dated.head
          /\ \A parts : HasPart(With(dated, p, at), parts) <=> HasPart(dated, parts) \/ p \in parts
      BY <1>2, <1>8, <3>1, WithIs
    <3>3. /\ Pieces(With(dated, p, at)) = Pieces(dated) \cup {<<p, at>>}
          /\ With(dated, p, at).section = dated.section
          /\ Texts(With(dated, p, at)) = Texts(dated) \cup {at}
      BY <1>2, <1>8, <3>1, PiecesWith
    <3> QED BY <1>8, <1>9, <2>2, <3>1, <3>2, <3>3
  <2> QED BY <2>1, <2>2
<1>11. current' # NoUnit
  <2>1. current.head # 0 /\ NoUnit.head = 0
    <3>1. current.head \in 1 .. page /\ page \in Nat
      BY <1>1 DEF Machine, PageRead
    <3> QED BY <3>1 DEF NoUnit
  <2> QED BY <1>10, <2>1
<1> QED BY <1>1, <1>4, <1>6, <1>7, <1>8, <1>10, <1>11 DEF Spanned

\* A page begins: within a life, or after a collect page with a new one.
Turned(k, E) ==
    /\ Reads(k) /\ page' = at /\ UNCHANGED <<book, section>>
    /\ state # "before_name" /\ state' = IF k = "bio_page" THEN "bio" ELSE "before_name"
    /\ \/ state = "bio" /\ UNCHANGED <<current, results>>
       \/ /\ state # "bio" /\ LifeEmits(E) /\ ToSet(results') = ToSet(results) \cup E
          /\ current' # NoUnit /\ current'.head = at /\ current'.section = section
          /\ Pieces(current') = {} /\ Texts(current') = {} /\ \A parts : ~HasPart(current', parts)

\* A page begins, in these words.
LEMMA PageStep ==
    ASSUME PageRead, FeastPage
    PROVE  \E k \in FeastPages : \E E : Turned(k, E)
<1>1. PICK k \in FeastPages :
          /\ PageIsOver /\ Reads(k) /\ page' = at
          /\ state' = IF k = "bio_page" THEN "bio" ELSE "before_name"
          /\ IF state = "bio"
               THEN UNCHANGED <<current, results>>
               ELSE /\ results' = results \o FeastEmit(current)
                    /\ current' = [NewUnit EXCEPT !.page = at]
          /\ UNCHANGED <<book, section, pending>>
  BY DEF FeastPage
<1>2. CASE state = "bio"
  <2>1. Turned(k, {})
    BY <1>1, <1>2 DEF Turned, PageIsOver
  <2> QED BY <2>1
<1>3. CASE state # "bio"
  <2> DEFINE closed == FeastEmit(current)
             E == ToSet(closed)
             unit == [NewUnit EXCEPT !.page = at]
  <2>1. LifeEmits(E) /\ closed \in Seq(Builder)
    BY LifeCloses
  <2>2. unit.head = at /\ unit.section = section /\ unit.text = <<>>
    BY DEF NewUnit
  <2>3. current' = unit /\ results' = results \o closed
    BY <1>1, <1>3
  <2> HIDE DEF unit, closed
  <2>4. Pieces(unit) = {} /\ Texts(unit) = {} /\ \A parts : ~HasPart(unit, parts)
    BY <2>2, NoPieces
  <2>5. ToSet(results') = ToSet(results) \cup E
    BY <2>1, <2>3, ToSetConcat DEF PageRead
  <2>6. unit # NoUnit
    <3>1. unit.head # 0 /\ NoUnit.head = 0
      BY <2>2 DEF NoUnit, PageRead
    <3> QED BY <3>1
  <2> HIDE DEF E
  <2>7. Turned(k, E)
    BY <1>1, <1>3, <2>1, <2>2, <2>3, <2>4, <2>5, <2>6 DEF Turned, PageIsOver
  <2> QED BY <2>7
<1> QED BY <1>2, <1>3

\* The names of a page go on: in a state of the collecting there is a last one, and
\* as long as a text of Rite I may come, no label of Rite II stands below it.
LEMMA NamesGoOn ==
    ASSUME PageRead, Machine, NEW k, Reads(k), current # NoUnit
    PROVE  /\ page \in 1 .. at - 1
           /\ state \in Collecting => LatestIn(LifeNames', at) # 0
           /\ k = "name" \/ (/\ state \in {"in_name", "after_name", "rite_i"}
                             /\ k \in RiteII => k = "II_text" /\ state = "in_name") =>
                NoRiteTwo(html', LatestIn(LifeNames', at), at)
<1> DEFINE n == at - 1
           g == html'
           h == html
           s == state
           names == LatestIn(LifeNames, n)
<1>1. /\ n \in Nat /\ at = n + 1 /\ g[n + 1] = k /\ \A i \in 1 .. n : g[i] = h[i]
      /\ k # "name" => LifeNames' = LifeNames
      /\ k = "name" => LifeNames' = LifeNames \cup {n + 1}
  BY OfStep DEF LifeNames
<1>2. /\ page # 0
      /\ s \in Collecting => Seen(h, page, n, {"name"})
      /\ s = "in_name" => h[n] = "name"
      /\ s \in {"in_name", "after_name", "rite_i"} => NoRiteTwo(h, names, n)
      /\ page = LatestIn(FeastPagesRead, n)
  BY DEF Machine, PageKnown
<1> HIDE DEF n, g, h
<1>3. page \in 1 .. n
  <2> DEFINE S == FeastPagesRead
  <2> HIDE DEF S
  <2>1. LatestIn(S, n) \in 0 .. n
    BY <1>1, LatestIs
  <2> QED BY <1>1, <1>2, <2>1 DEF S
<1>4. s \in Collecting => names \in 1 .. n
  <2>1. ASSUME s \in Collecting PROVE names \in 1 .. n
    <3> DEFINE S == LifeNames
    <3>1. PICK j \in page .. n : h[j] = "name"
      BY <1>2, <2>1 DEF Seen
    <3>2. j \in 1 .. n /\ j \in S
      BY <1>1, <1>3, <3>1 DEF LifeNames, Of, n, h
    <3> HIDE DEF S
    <3>3. LatestIn(S, n) \in 0 .. n /\ (j \in 1 .. n /\ j \in S => LatestIn(S, n) # 0)
      BY <1>1, LatestIs
    <3> QED BY <1>1, <3>2, <3>3 DEF S
  <2> QED BY <2>1
<1> HIDE DEF names
<1>5. /\ k = "name" => LatestIn(LifeNames', n + 1) = n + 1
      /\ k # "name" => LatestIn(LifeNames', n + 1) = names
  <2> DEFINE S == LifeNames
             R == LifeNames'
             m == n + 1
  <2>1. m \in Nat \ {0} /\ n \in Nat /\ n <= m /\ m \in n + 1 .. m /\ \A j \in n + 1 .. m : j = m
    BY <1>1
  <2>2. m \notin S
    BY <1>1, <2>1 DEF LifeNames, Of
  <2>3. (k = "name" => m \in R) /\ (k # "name" => R = S)
    BY <1>1
  <2>4. LatestIn(S, n) = names
    BY DEF names
  <2> HIDE DEF S, R, m
  <2>5. k = "name" => LatestIn(R, m) = m
    BY <2>1, <2>3, LatestHere
  <2>6. LatestIn(S, m) = LatestIn(S, n)
    BY <2>1, <2>2, LatestOn
  <2> QED BY <2>3, <2>4, <2>5, <2>6 DEF S, R, m
<1>6. CASE k = "name"
  <2>1. (n + 1) + 1 .. n + 1 = {} /\ n + 1 # 0
    BY <1>1
  <2>2. NoRiteTwo(g, LatestIn(LifeNames', n + 1), n + 1)
    BY <1>5, <1>6, <2>1 DEF NoRiteTwo
  <2> QED BY <1>1, <1>3, <1>5, <1>6, <2>1, <2>2 DEF g, n
<1>7. CASE k # "name"
  <2>1. ASSUME s \in {"in_name", "after_name", "rite_i"}, k \in RiteII => k = "II_text" /\ s = "in_name"
        PROVE  NoRiteTwo(g, names, n + 1)
    <3>1. names \in 1 .. n
      BY <1>4, <2>1 DEF Collecting
    <3>2. NoRiteTwo(g, names, n + 1) <=>
            /\ NoRiteTwo(h, names, n)
            /\ g[n + 1] \in RiteII => g[n + 1] = "II_text" /\ h[n] = "name"
      BY <1>1, <3>1, SeenOn
    <3> QED BY <1>1, <1>2, <2>1, <3>2
  <2>2. s \in Collecting => names # 0
    BY <1>4
  <2> QED BY <1>1, <1>3, <1>5, <1>7, <2>1, <2>2 DEF g, n
<1> QED BY <1>6, <1>7

\* A span leaves the machine in a state that fits the page.
LEMMA MachineSpans ==
    ASSUME PageRead, LivesInv, Machine, NEW k \in Spans, NEW p, NEW t, Spanned(k, p, t)
    PROVE  Machine'
<1> DEFINE n == at - 1
           g == html'
           h == html
           s == state
           x == page
<1>1. /\ n \in Nat /\ at = n + 1 /\ at' - 1 = n + 1 /\ g[n + 1] = k /\ \A i \in 1 .. n : g[i] = h[i]
      /\ FeastPagesRead' = FeastPagesRead
  <2>1. Reads(k) /\ k \notin FeastPages
    BY DEF Spanned, Spans, FeastPages
  <2> QED BY <2>1, OfStep DEF FeastPagesRead
<1>2. /\ current # NoUnit /\ current' # NoUnit /\ current'.head = current.head /\ page' = x
      /\ state' = t /\ Goes(s, k, p, t) /\ (k = "name" => s # "bio")
  BY DEF Spanned
<1>3. s \in {"bio", "before_name"} \cup Collecting
  BY <1>2 DEF LivesInv
<1>4. /\ x # 0 /\ current.head \in 1 .. x
      /\ s = "bio" <=> h[x] = "bio_page"
      /\ s \in {"bio", "before_name"} => ~Seen(h, x, n, {"name"})
      /\ s \in Collecting => Seen(h, x, n, {"name"})
      /\ s = "in_name" => h[n] = "name"
      /\ s \in Collecting \ {"in_name"} => RowEnds(h, x, n)
      /\ s \in {"rite_i", "after_rite_i"} => Seen(h, x, n, RiteOne \cup RiteII)
      /\ s \in {"rite_ii", "after_rite_ii", "lessons"} => Seen(h, x, n, RiteII)
      /\ x = LatestIn(FeastPagesRead, n)
  BY <1>2 DEF Machine, PageKnown
<1> HIDE DEF n, g, h
<1>5. x \in 1 .. n /\ x = LatestIn(FeastPagesRead, n + 1)
  <2> DEFINE S == FeastPagesRead
  <2>1. \A j \in n + 1 .. n + 1 : j \notin S
    BY <1>1 DEF FeastPagesRead, Of
  <2>2. n + 1 \in Nat /\ n <= n + 1
    BY <1>1
  <2> HIDE DEF S
  <2>3. LatestIn(S, n) \in 0 .. n
    BY <1>1, LatestIs
  <2>4. LatestIn(S, n + 1) = LatestIn(S, n)
    BY <1>1, <2>1, <2>2, LatestOn
  <2> QED BY <1>1, <1>4, <2>3, <2>4 DEF S
<1>6. /\ \A kinds : Seen(g, x, n + 1, kinds) <=> Seen(h, x, n, kinds) \/ k \in kinds
      /\ RowEnds(g, x, n + 1) <=> RowEnds(h, x, n) \/ (Seen(h, x, n, {"name"}) /\ k # "name")
      /\ g[x] = h[x]
  BY <1>1, <1>5, SeenOn
<1>9. k = "name" \/ (/\ s \in {"in_name", "after_name", "rite_i"}
                     /\ k \in RiteII => k = "II_text" /\ s = "in_name") =>
          NoRiteTwo(g, LatestIn(LifeNames', n + 1), n + 1)
  <2>1. Reads(k)
    BY DEF Spanned
  <2> QED BY <1>1, <1>2, <2>1, NamesGoOn DEF g
<1> HIDE DEF s, x
<1>10. t = "bio" <=> s = "bio"
  BY <1>2, <1>3 DEF Goes, Collecting
<1>11. t \in {"bio", "before_name"} => s \in {"bio", "before_name"} /\ k # "name"
  BY <1>2, <1>3 DEF Goes, Collecting
<1>12. t \in Collecting => s \in Collecting \/ k = "name"
  BY <1>2, <1>3 DEF Goes, Collecting
<1>13. t = "in_name" => k = "name"
  BY <1>2, <1>3 DEF Goes, Collecting
<1>14. t \in Collecting \ {"in_name"} =>
           s \in Collecting \ {"in_name"} \/ (s = "in_name" /\ k # "name")
  BY <1>2, <1>3 DEF Goes, Collecting
<1>15. t \in {"rite_i", "after_rite_i"} => s \in {"rite_i", "after_rite_i"} \/ k \in RiteOne
  BY <1>2, <1>3 DEF Goes, Collecting, RiteOne
<1>16. t \in {"rite_ii", "after_rite_ii", "lessons"} =>
           s \in {"rite_ii", "after_rite_ii", "lessons"} \/ k \in RiteII
  BY <1>2, <1>3 DEF Goes, Collecting, RiteII
<1>17. t \in {"in_name", "after_name", "rite_i"} =>
           \/ s = "before_name" /\ k = "name"
           \/ s \in {"in_name", "after_name", "rite_i"} /\ (k \in RiteII => k = "II_text" /\ s = "in_name")
  BY <1>2, <1>3 DEF Goes, Collecting, RiteII
<1>18. t \in {"in_name", "after_name", "rite_i"} => NoRiteTwo(g, LatestIn(LifeNames', n + 1), n + 1)
  BY <1>9, <1>17
<1>19. t # "done"
  BY <1>2, <1>3 DEF Goes, Collecting
<1>20. /\ t \in {"bio", "before_name"} => ~Seen(g, x, n + 1, {"name"})
       /\ t \in Collecting => Seen(g, x, n + 1, {"name"})
       /\ t = "in_name" => g[n + 1] = "name"
       /\ t \in Collecting \ {"in_name"} => RowEnds(g, x, n + 1)
       /\ t \in {"rite_i", "after_rite_i"} => Seen(g, x, n + 1, RiteOne \cup RiteII)
       /\ t \in {"rite_ii", "after_rite_ii", "lessons"} => Seen(g, x, n + 1, RiteII)
  <2>1. t \in {"bio", "before_name"} => ~Seen(g, x, n + 1, {"name"})
    BY <1>4, <1>6, <1>11
  <2>2. t \in Collecting => Seen(g, x, n + 1, {"name"})
    BY <1>4, <1>6, <1>12
  <2>3. t \in Collecting \ {"in_name"} => RowEnds(g, x, n + 1)
    BY <1>4, <1>6, <1>14 DEF Collecting
  <2>4. t \in {"rite_i", "after_rite_i"} => Seen(g, x, n + 1, RiteOne \cup RiteII)
    BY <1>4, <1>6, <1>15
  <2>5. t \in {"rite_ii", "after_rite_ii", "lessons"} => Seen(g, x, n + 1, RiteII)
    BY <1>4, <1>6, <1>16
  <2> QED BY <1>1, <1>13, <2>1, <2>2, <2>3, <2>4, <2>5
<1>21. page' = LatestIn(FeastPagesRead', at' - 1)
  BY <1>1, <1>2, <1>5 DEF x
<1>22. t = "bio" <=> g[x] = "bio_page"
  BY <1>4, <1>6, <1>10
<1>23. x # 0 /\ current'.head \in 1 .. x /\ page' = x
  BY <1>2, <1>4 DEF x
<1> QED BY <1>1, <1>2, <1>18, <1>19, <1>20, <1>21, <1>22, <1>23 DEF Machine, PageKnown, g

\* A page begins.
LEMMA MachineTurns ==
    ASSUME PageRead, Machine, NEW k \in FeastPages, NEW E, Turned(k, E)
    PROVE  Machine'
<1> DEFINE n == at - 1
           R == FeastPagesRead'
<1>1. n \in Nat /\ at = n + 1 /\ at' - 1 = at /\ html'[at] = k /\ at \in R /\ state # "done"
  BY OfStep DEF FeastPagesRead, Turned
<1>2. page' = at /\ state # "before_name" /\ state' = IF k = "bio_page" THEN "bio" ELSE "before_name"
  BY DEF Turned
<1>3. at \in Nat \ {0}
  BY DEF PageRead
<1> HIDE DEF n, R
<1>4. LatestIn(R, at) = at
  BY <1>1, <1>3, LatestHere
<1>5. current' # NoUnit => current'.head \in 1 .. at
  <2>1. CASE state = "bio" /\ UNCHANGED <<current, results>>
    <3>1. page \in 0 .. at - 1
      <4> DEFINE m == at - 1
                 S == FeastPagesRead
      <4>1. m \in Nat /\ page = LatestIn(S, m)
        BY <1>1 DEF Machine, PageKnown, n
      <4> HIDE DEF m, S
      <4>2. LatestIn(S, m) \in 0 .. m
        BY <4>1, LatestIs
      <4> QED BY <4>1, <4>2 DEF m
    <3>2. current # NoUnit => current.head \in 1 .. page
      BY DEF Machine
    <3> QED BY <1>3, <2>1, <3>1, <3>2
  <2>2. CASE current' # NoUnit /\ current'.head = at
    BY <1>3, <2>2
  <2> QED BY <2>1, <2>2 DEF Turned
<1>6. current' # NoUnit
  BY <1>1 DEF Turned, Machine
<1>7. at .. at = {at} /\ k # "name" /\ k \in {"bio_page", "collect_page"}
  BY <1>3 DEF FeastPages
<1>8. ~Seen(html', at, at, {"name"})
  BY <1>1, <1>7 DEF Seen
<1>9. state' \notin Collecting /\ state' # "done" /\ (state' = "bio" <=> k = "bio_page")
  BY <1>2 DEF Collecting
<1>10. state' \in {"bio", "before_name"}
  BY <1>2
<1> QED BY <1>1, <1>2, <1>3, <1>4, <1>5, <1>6, <1>8, <1>9, <1>10 DEF Machine, PageKnown, R, Collecting

\* The file ends.
LEMMA MachineEnds ==
    ASSUME PageRead, Machine, FeastsEnd
    PROVE  Machine'
<1>1. UNCHANGED <<book, html, at, page>> /\ state' = "done" /\ current' = NoUnit
  BY DEF FeastsEnd, PageEnds
<1>2. FeastPagesRead' = FeastPagesRead
  BY <1>1, OfStays DEF FeastPagesRead
<1> QED BY <1>1, <1>2 DEF Machine, PageKnown

-----------------------------------------------------------------------------
(* The lives: every text is kept.                                           *)

\* Every text of a life is in it, but separators; a life of which a name was read has one.
LivesKept ==
    /\ Kept(at - 1, LifeHeads, LifeTexts, LifeNamed, current, ToSet(results))
    /\ current # NoUnit =>
         /\ current.head \in LifeNamed => HasPart(current, {"name"})
         /\ \A q \in Pieces(current) : q[1] = "lessons" => q[2] \notin LifeTexts

\* A span with a text is a piece of some part, and of the lessons none is.
LEMMA SpanHasPart ==
    ASSUME PageRead, LivesInv, Machine, NEW k \in Spans, NEW p, NEW t, Spanned(k, p, t)
    PROVE  /\ at \in LifeTexts' => p # "" /\ p # "lessons"
           /\ k = "name" => HasPart(current, {"name"}) \/ p = "name"
<1> DEFINE n == at - 1
           s == state
<1>1. current # NoUnit /\ Goes(s, k, p, t) /\ (k = "name" => s # "bio") /\ Reads(k) /\ PageKnown
  BY DEF Spanned, Machine
<1>2. s \in {"bio", "before_name"} \cup Collecting /\ (s \in Collecting => HasPart(current, {"name"}))
  BY <1>1 DEF LivesInv
<1>3. /\ s = "bio" <=> html[page] = "bio_page"
      /\ s \in {"bio", "before_name"} => ~Seen(html, page, n, {"name"})
      /\ s = "in_name" => html[n] = "name"
      /\ s \in Collecting \ {"in_name"} => RowEnds(html, page, n)
      /\ s \in {"rite_i", "after_rite_i"} => Seen(html, page, n, RiteOne \cup RiteII)
      /\ s \in {"rite_ii", "after_rite_ii", "lessons"} => Seen(html, page, n, RiteII)
  BY <1>1 DEF Machine
<1>4. at \in LifeTexts' =>
          \/ k = "name" /\ ~RowEnds(html, page, n)
          \/ k \in SmallPrint /\ html[page] = "bio_page"
          \/ /\ k \in WithText /\ html[n] # "name"
             /\ Seen(html, page, n, {"name"})
             /\ ~Seen(html, page, n, EarlierLabels(k))
  BY <1>1, LifeStep
<1> HIDE DEF n, s
<1>5. CASE k = "name"
  <2>1. s \in {"before_name", "in_name"} => p = "name"
    BY <1>1, <1>5 DEF Goes
  <2>2. s \in Collecting \ {"in_name"} => at \notin LifeTexts'
    BY <1>3, <1>4, <1>5 DEF SmallPrint, WithText
  <2> QED BY <1>1, <1>2, <1>5, <2>1, <2>2
<1>6. CASE k \in SmallPrint
  <2>1. k # "name" /\ k \notin WithText
    BY <1>6 DEF SmallPrint, WithText
  <2>2. at \in LifeTexts' => s = "bio"
    BY <1>3, <1>4, <2>1
  <2>3. s = "bio" => p = "bio"
    BY <1>1, <1>6 DEF Goes
  <2> QED BY <2>1, <2>2, <2>3
<1>7. CASE k \in WithText
  <2>1. k # "name" /\ k \notin SmallPrint /\ k \in {"I_text", "II_text"}
    BY <1>7 DEF SmallPrint, WithText
  <2>2. SUFFICES ASSUME at \in LifeTexts' PROVE p \in {"rite_i", "rite_ii"}
    BY <2>1
  <2>3. html[n] # "name" /\ Seen(html, page, n, {"name"}) /\ ~Seen(html, page, n, EarlierLabels(k))
    BY <1>4, <2>1, <2>2
  <2>4. s \in Collecting \ {"in_name"}
    BY <1>2, <1>3, <2>3
  <2>5. s \notin {"rite_ii", "after_rite_ii", "lessons"}
    BY <1>3, <2>3 DEF Seen, EarlierLabels
  <2>6. CASE k = "I_text"
    <3>1. s \notin {"rite_i", "after_rite_i"}
      BY <1>3, <2>3, <2>6 DEF Seen, EarlierLabels, RiteOne
    <3>2. s = "after_name"
      BY <2>4, <2>5, <3>1 DEF Collecting
    <3> QED BY <1>1, <2>6, <3>2 DEF Goes, RiteII
  <2>7. CASE k = "II_text"
    <3>1. s \in {"after_name", "rite_i", "after_rite_i"}
      BY <2>4, <2>5 DEF Collecting
    <3> QED BY <1>1, <2>7, <3>1 DEF Goes, RiteII
  <2> QED BY <2>1, <2>6, <2>7
<1>8. CASE k \notin {"name"} \cup SmallPrint \cup WithText
  BY <1>4, <1>8
<1> QED BY <1>5, <1>6, <1>7, <1>8

\* A span is read.
LEMMA LivesKeptSpans ==
    ASSUME PageRead, LivesInv, Machine, LivesKept, NEW k \in Spans, NEW p, NEW t, Spanned(k, p, t)
    PROVE  LivesKept'
<1> DEFINE n == at - 1
           S == LifeHeads
           T == LifeTexts
           W == LifeNamed
           T2 == T'
           W2 == W'
           units == ToSet(results)
<1>1. /\ n \in Nat /\ at = n + 1 /\ at' - 1 = n + 1 /\ k \notin FeastPages
      /\ k # "name" => LifeNames' = LifeNames
      /\ k = "name" => LifeNames' = LifeNames \cup {n + 1}
      /\ LifeNames \in SUBSET (1 .. n)
  <2>1. Reads(k) /\ k \notin FeastPages
    BY DEF Spanned, Spans, FeastPages
  <2> QED BY <2>1, OfStep DEF LifeNames
<1>2. /\ current # NoUnit /\ current' # NoUnit /\ current'.head = current.head /\ UNCHANGED results
      /\ Pieces(current') = Pieces(current) \cup (IF p = "" THEN {} ELSE {<<p, at>>})
      /\ Texts(current') = Texts(current) \cup (IF p = "" THEN {} ELSE {at})
      /\ \A parts : HasPart(current', parts) <=> HasPart(current, parts) \/ (p # "" /\ p \in parts)
      /\ p \in (Part \ Unplaced) \cup {""}
  BY DEF Spanned
<1>3. /\ S \in SUBSET (1 .. n) /\ T \in SUBSET (1 .. n) /\ S' = S
      /\ \A j \in T2 : j \in T \/ j = n + 1
      /\ \A j \in 1 .. n : j \in T2 <=> j \in T
  <2>1. Reads(k) /\ PageKnown
    BY DEF Spanned, Machine
  <2> QED BY <1>1, <2>1, LifeStep
<1>4. (n + 1 \in T2 => p # "" /\ p # "lessons") /\ (k = "name" => HasPart(current, {"name"}) \/ p = "name")
  BY <1>1, SpanHasPart
<1>5. /\ Kept(n, S, T, W, current, units) /\ current.head = LatestIn(S, n)
      /\ current.head \in W => HasPart(current, {"name"})
      /\ \A q \in Pieces(current) : q[1] = "lessons" => q[2] \notin T
      /\ ~HasPart(current, {"number"}) /\ \A j \in Texts(current) : j \in 1 .. n
  BY <1>2 DEF LivesKept, Kept, Under
<1>6. /\ \A h \in W2 : h \in W \/ h = current.head
      /\ k # "name" => W2 = W
  <2>1. W2 = {LatestIn(S, j) : j \in LifeNames'} /\ W = {LatestIn(S, j) : j \in LifeNames}
    BY <1>3 DEF LifeNamed, LifeNames
  <2>2. LatestIn(S, n + 1) = LatestIn(S, n)
    <3>1. n + 1 \in Nat /\ n <= n + 1 /\ \A j \in n + 1 .. n + 1 : j \notin S
      BY <1>1, <1>3
    <3> HIDE DEF n, S
    <3> QED BY <1>1, <3>1, LatestOn
  <2> HIDE DEF n, S, W, W2
  <2> QED BY <1>1, <1>5, <2>1, <2>2
<1> HIDE DEF n, S, T, W, T2, W2, units
<1>7. Kept(n + 1, S, T2, W2, current', units)
  <2>1. \A h \in W2 : h \in W \/ h \in {0, current.head}
    BY <1>6
  <2>2. ~HasPart(current', {"number"})
    BY <1>2, <1>5 DEF Unplaced
  <2>3. /\ \A j \in Texts(current) : j \in Texts(current')
        /\ \A j \in Texts(current') :
              j \in Texts(current) \/ j = n + 1 \/ (j \in 1 .. n /\ LatestIn(S, j) = current.head)
        /\ n + 1 \in T2 => n + 1 \in Texts(current')
    BY <1>1, <1>2, <1>4
  <2>4. \/ /\ current = NoUnit /\ current' = NoUnit
           /\ n + 1 \in T2 => LatestIn(S, n) = 0
        \/ /\ current # NoUnit /\ current' # NoUnit /\ current'.head = current.head
           /\ ~HasPart(current', {"number"})
           /\ \A j \in Texts(current) : j \in Texts(current')
           /\ \A j \in Texts(current') :
                 j \in Texts(current) \/ j = n + 1 \/ (j \in 1 .. n /\ LatestIn(S, j) = current.head)
           /\ n + 1 \in T2 => n + 1 \in Texts(current')
    BY <1>2, <2>2, <2>3
  <2> QED BY <1>1, <1>3, <1>5, <2>1, <2>4, KeptOn
<1>8. current'.head \in W2 => HasPart(current', {"name"})
  BY <1>2, <1>4, <1>5, <1>6
<1>9. ASSUME NEW q \in Pieces(current'), q[1] = "lessons" PROVE q[2] \notin T2
  <2>1. CASE q \in Pieces(current)
    <3>1. q[2] \notin T
      BY <1>5, <1>9, <2>1
    <3>2. q[2] \in Texts(current)
      BY <1>9, <2>1 DEF Texts, Unplaced
    <3> QED BY <1>3, <1>5, <3>1, <3>2
  <2>2. CASE q \notin Pieces(current)
    <3>1. q = <<p, at>>
      BY <1>2, <1>9, <2>2
    <3> QED BY <1>1, <1>4, <1>9, <3>1
  <2> QED BY <2>1, <2>2
<1>10. units' = units /\ S' = S /\ T2 = LifeTexts' /\ W2 = LifeNamed' /\ at' - 1 = n + 1
  BY <1>1, <1>2, <1>3 DEF units, T2, W2, T, W
<1> QED BY <1>7, <1>8, <1>9, <1>10 DEF LivesKept, S, units

\* A page begins.
LEMMA LivesKeptTurns ==
    ASSUME PageRead, Machine, LivesKept, NEW k \in FeastPages, NEW E, Turned(k, E)
    PROVE  LivesKept'
<1> DEFINE n == at - 1
           S == LifeHeads
           T == LifeTexts
           W == LifeNamed
           T2 == T'
           W2 == W'
           units == ToSet(results)
           units2 == units'
<1>1. /\ n \in Nat /\ at = n + 1 /\ at' - 1 = n + 1 /\ state # "done"
      /\ LifeNames' = LifeNames /\ LifeNames \in SUBSET (1 .. n)
  <2>1. Reads(k) /\ k # "name"
    BY DEF Turned, FeastPages
  <2> QED BY <2>1, OfStep DEF LifeNames
<1>2. /\ S \in SUBSET (1 .. n) /\ T \in SUBSET (1 .. n)
      /\ S' = (IF page = 0 \/ html[page] = "collect_page" THEN S \cup {n + 1} ELSE S)
      /\ (page # 0 => html[page] \in FeastPages)
      /\ n + 1 \notin T2 /\ \A j \in T2 : j \in T
  <2>1. Reads(k) /\ PageKnown
    BY DEF Turned, Machine
  <2>2. k # "name" /\ k \notin SmallPrint /\ k \notin WithText
    BY DEF FeastPages, SmallPrint, WithText
  <2>3. /\ S \in SUBSET (1 .. n) /\ T \in SUBSET (1 .. n)
        /\ S' = (IF page = 0 \/ html[page] = "collect_page" THEN S \cup {at} ELSE S)
        /\ (page # 0 => html[page] \in FeastPages)
        /\ \A j \in T2 : j \in T \/ j = at
    BY <2>1, LifeStep
  <2>4. at \notin LifeTexts'
    BY <2>1, <2>2, LifeStep
  <2> QED BY <1>1, <2>3, <2>4
<1>3. /\ Kept(n, S, T, W, current, units)
      /\ current # NoUnit =>
           /\ current.head \in W => HasPart(current, {"name"})
           /\ \A q \in Pieces(current) : q[1] = "lessons" => q[2] \notin T
           /\ ~HasPart(current, {"number"}) /\ current.head = LatestIn(S, n) /\ current.head \in 1 .. n
  BY DEF LivesKept, Kept, Under
<1>4. /\ current = NoUnit => page = 0 /\ state = "idle"
      /\ current # NoUnit => page # 0 /\ (state = "bio" <=> html[page] = "bio_page")
  BY <1>1 DEF Machine
<1>5. CASE state = "bio" /\ UNCHANGED <<current, results>>
  <2>1. current # NoUnit /\ current' = current /\ units2 = units
    BY <1>4, <1>5
  <2>2. S' = S
    BY <1>2, <1>4, <1>5, <2>1
  <2>3. W2 = W
    BY <1>1, <2>2 DEF LifeNamed, LifeNames
  <2> HIDE DEF n, S, T, W, T2, W2, units, units2
  <2>4. Kept(n + 1, S, T2, W2, current', units)
    <3>1. \A j \in T2 : j \in T \/ j = n + 1
      BY <1>2
    <3>2. \A h \in W2 : h \in W \/ h \in {0, current.head}
      BY <2>3
    <3>3. \/ /\ current = NoUnit /\ current' = NoUnit
             /\ n + 1 \in T2 => LatestIn(S, n) = 0
          \/ /\ current # NoUnit /\ current' # NoUnit /\ current'.head = current.head
             /\ ~HasPart(current', {"number"})
             /\ \A j \in Texts(current) : j \in Texts(current')
             /\ \A j \in Texts(current') :
                   j \in Texts(current) \/ j = n + 1 \/ (j \in 1 .. n /\ LatestIn(S, j) = current.head)
             /\ n + 1 \in T2 => n + 1 \in Texts(current')
      BY <1>2, <1>3, <2>1
    <3> QED BY <1>1, <1>2, <1>3, <3>1, <3>2, <3>3, KeptOn
  <2>5. /\ current'.head \in W2 => HasPart(current', {"name"})
        /\ \A q \in Pieces(current') : q[1] = "lessons" => q[2] \notin T2
    BY <1>2, <1>3, <2>1, <2>3
  <2>6. at' - 1 = n + 1 /\ units' = units /\ LifeHeads' = S /\ LifeTexts' = T2 /\ LifeNamed' = W2
    BY <1>1, <2>1, <2>2 DEF S, T2, W2, T, W, units2
  <2> QED BY <2>4, <2>5, <2>6 DEF LivesKept, units
<1>6. CASE /\ state # "bio" /\ LifeEmits(E) /\ units2 = units \cup E
           /\ current' # NoUnit /\ current'.head = at
           /\ Pieces(current') = {} /\ Texts(current') = {} /\ \A parts : ~HasPart(current', parts)
  <2>1. S' = S \cup {n + 1}
    BY <1>2, <1>4, <1>6 DEF FeastPages
  <2> DEFINE R == S \cup {n + 1}
  <2>2. \A j \in LifeNames : LatestIn(R, j) = LatestIn(S, j) /\ LatestIn(R, j) \in 0 .. n
    <3>1. ASSUME NEW j \in LifeNames PROVE LatestIn(R, j) = LatestIn(S, j) /\ LatestIn(R, j) \in 0 .. n
      <4>1. j \in 1 .. n /\ j \in Nat /\ \A i \in 1 .. j : i # n + 1
        BY <1>1, <3>1
      <4>2. \A i \in 1 .. j : i \in R <=> i \in S
        BY <4>1
      <4> HIDE DEF R, S, n
      <4>3. LatestIn(R, j) = LatestIn(S, j)
        BY <4>2, LatestSame
      <4>4. LatestIn(R, j) \in 0 .. j
        BY <4>1, LatestIs
      <4> QED BY <1>1, <4>1, <4>3, <4>4
    <3> QED BY <3>1
  <2>3. W2 = W /\ n + 1 \notin W2
    <3>1. W2 = {LatestIn(R, j) : j \in LifeNames} /\ W = {LatestIn(S, j) : j \in LifeNames}
      BY <1>1, <2>1 DEF LifeNamed, LifeNames
    <3> HIDE DEF R, S, n, W, W2
    <3> QED BY <1>1, <2>2, <3>1
  <2>4. \A u \in E : /\ current # NoUnit /\ u.head = current.head
                     /\ \A q \in Pieces(u) : q \in Pieces(current)
                     /\ \A q \in Pieces(current) : q \in Pieces(u) \/ q[1] = "lessons"
    BY <1>6 DEF LifeEmits
  <2> HIDE DEF n, S, T, W, T2, W2, units, units2
  <2>5. \A u \in E : /\ ~HasPart(u, {"number"})
                     /\ \/ /\ current # NoUnit /\ u.head = current.head
                           /\ \A j \in Texts(u) : j \in Texts(current)
                        \/ u.head = n + 1 /\ \A j \in Texts(u) : j \in n + 1 .. n + 1
    BY <1>3, <2>4, PartsArePieces
  <2>6. current # NoUnit /\ current.head \in W2 =>
            \E u \in E : u.head = current.head /\ \A j \in T : j \in Texts(current) => j \in Texts(u)
    <3>1. SUFFICES ASSUME current # NoUnit, current.head \in W2
                   PROVE  \E u \in E : u.head = current.head /\ \A j \in T : j \in Texts(current) => j \in Texts(u)
      OBVIOUS
    <3>2. HasPart(current, {"name"})
      BY <1>3, <2>3, <3>1
    <3>3. PICK u \in E : TRUE
      BY <1>6, <3>1, <3>2 DEF LifeEmits
    <3>4. ASSUME NEW j \in T, j \in Texts(current) PROVE j \in Texts(u)
      <4>1. PICK q \in Pieces(current) : q[1] \notin Unplaced /\ q[2] = j
        BY <3>4, PartsArePieces
      <4>2. q \in Pieces(u)
        BY <1>3, <2>4, <3>1, <3>4, <4>1
      <4> QED BY <4>1, <4>2, PartsArePieces
    <3> QED BY <2>4, <3>4
  <2>7. current' # NoUnit => /\ ~HasPart(current', {"number"}) /\ current'.head = n + 1
                             /\ \A j \in Texts(current') : j \in n + 1 .. n + 1
    BY <1>1, <1>6
  <2>8. \A j \in T2 : j \in T \/ j \in n + 1 .. n + 1
    BY <1>2
  <2>9. \A j \in T2 : j \in n + 1 .. n + 1 =>
               IF current' = NoUnit THEN \E u \in E : u.head = n + 1 /\ j \in Texts(u)
                                    ELSE j \in Texts(current')
    <3>1. \A j \in n + 1 .. n + 1 : j = n + 1
      BY <1>1
    <3> QED BY <1>2, <3>1
  <2>10. \A h \in W2 : h \in W \/ h \in {0, current.head, n + 1}
    BY <2>3
  <2>11. n + 1 \in Nat /\ n + 1 <= n + 1
    BY <1>1
  <2>12. Kept(n + 1, S \cup {n + 1}, T2, W2, current', units \cup E)
    BY <1>1, <1>2, <1>3, <2>5, <2>6, <2>7, <2>8, <2>9, <2>10, <2>11, KeptBegins
  <2>13. /\ current'.head \notin W2
         /\ \A q \in Pieces(current') : q[1] = "lessons" => q[2] \notin T2
    BY <1>1, <1>6, <2>3
  <2>14. at' - 1 = n + 1 /\ units' = units \cup E /\ LifeHeads' = S \cup {n + 1}
         /\ LifeTexts' = T2 /\ LifeNamed' = W2
    BY <1>1, <1>6, <2>1 DEF S, T2, W2, T, W, units2
  <2> QED BY <2>12, <2>13, <2>14 DEF LivesKept, units
<1> QED BY <1>5, <1>6 DEF Turned

\* Nothing is read.
LEMMA LifeStill ==
    ASSUME UNCHANGED <<html, at>>
    PROVE  UNCHANGED <<LifeHeads, LifeTexts, LifeNames, LifeNamed, FeastPagesRead>>
<1>1. UNCHANGED <<FeastPagesRead, LifeNames>>
  BY DEF FeastPagesRead, LifeNames, Of
<1>2. \A k : PageAt(k)' = PageAt(k)
  BY <1>1 DEF PageAt
<1>3. \A k : LifeOpens(k)' <=> LifeOpens(k)
  BY <1>2 DEF LifeOpens
<1>4. \A k : LifeHasText(k)' <=> LifeHasText(k)
  BY <1>2 DEF LifeHasText
<1>5. UNCHANGED <<LifeHeads, LifeTexts>>
  BY <1>3, <1>4 DEF LifeHeads, LifeTexts
<1>6. UNCHANGED LifeNamed
  BY <1>1, <1>5 DEF LifeNamed, LifeNames
<1> QED BY <1>1, <1>5, <1>6

\* The file ends.
LEMMA LivesKeptEnds ==
    ASSUME PageRead, LivesKept, FeastsEnd
    PROVE  LivesKept'
<1> DEFINE n == at - 1
           S == LifeHeads
           T == LifeTexts
           W == LifeNamed
           units == ToSet(results)
           closed == FeastEmit(current)
           E == ToSet(closed)
<1>1. UNCHANGED <<html, at>> /\ results' = results \o closed /\ current' = NoUnit
  BY DEF FeastsEnd, PageEnds
<1>2. LifeEmits(E) /\ closed \in Seq(Builder)
  BY LifeCloses
<1>3. at' - 1 = n /\ UNCHANGED <<S, T, W>>
  BY <1>1, LifeStill
<1>4. units' = units \cup E
  <2> HIDE DEF closed
  <2> QED BY <1>1, <1>2, ToSetConcat DEF PageRead
<1>5. /\ Kept(n, S, T, W, current, units) /\ n \in Nat
      /\ current # NoUnit =>
           /\ current.head \in W => HasPart(current, {"name"})
           /\ \A q \in Pieces(current) : q[1] = "lessons" => q[2] \notin T
           /\ ~HasPart(current, {"number"})
  BY DEF LivesKept, Kept, Under, PageRead
<1> HIDE DEF n, S, T, W, units, E
<1>6. \A u \in E : /\ current # NoUnit /\ u.head = current.head
                   /\ \A q \in Pieces(u) : q \in Pieces(current)
                   /\ \A q \in Pieces(current) : q \in Pieces(u) \/ q[1] = "lessons"
  BY <1>2 DEF LifeEmits
<1>7. \A u \in E : /\ ~HasPart(u, {"number"}) /\ current # NoUnit /\ u.head = current.head
                   /\ \A j \in Texts(u) : j \in Texts(current)
  BY <1>5, <1>6, PartsArePieces
<1>8. current # NoUnit /\ current.head \in W =>
          \E u \in E : u.head = current.head /\ \A j \in T : j \in Texts(current) => j \in Texts(u)
  <2>1. SUFFICES ASSUME current # NoUnit, current.head \in W
                 PROVE  \E u \in E : u.head = current.head /\ \A j \in T : j \in Texts(current) => j \in Texts(u)
    OBVIOUS
  <2>2. PICK u \in E : TRUE
    BY <1>2, <1>5, <2>1 DEF LifeEmits
  <2>3. ASSUME NEW j \in T, j \in Texts(current) PROVE j \in Texts(u)
    <3>1. PICK q \in Pieces(current) : q[1] \notin Unplaced /\ q[2] = j
      BY <2>3, PartsArePieces
    <3>2. q \in Pieces(u)
      BY <1>5, <1>6, <2>1, <2>3, <3>1
    <3> QED BY <3>1, <3>2, PartsArePieces
  <2> QED BY <1>6, <2>3
<1>9. Kept(n, S, T, W, NoUnit, units \cup E)
  BY <1>5, <1>7, <1>8, KeptAtEnd
<1> QED BY <1>1, <1>3, <1>4, <1>9 DEF LivesKept, n, S, T, W, units

-----------------------------------------------------------------------------
(* The lives: the two rites are apart.                                      *)

Rites == {"rite_i", "rite_ii"}

\* RitesApart, of one unit.
RitesRight(unit) ==
    \A q, r \in Pieces(unit) :
        /\ q[1] = "rite_ii" /\ r[1] = "rite_i" => q[2] > r[2]
        /\ q[1] = "rite_i" =>
             LatestIn(LifeNames, q[2]) # 0 /\ NoRiteTwo(html, LatestIn(LifeNames, q[2]), q[2])
        /\ q[1] = "rite_ii" => Seen(html, unit.head, q[2], RiteII)
        /\ q[1] = "lessons" /\ r[1] \in Rites => q[2] > r[2]

RitesKept ==
    /\ \A u \in ToSet(results) : RitesRight(u)
    /\ current # NoUnit =>
         /\ RitesRight(current)
         /\ HasPart(current, {"rite_ii"}) => state \in {"rite_ii", "after_rite_ii", "lessons"}
         /\ HasPart(current, {"lessons"}) => state = "lessons"

\* What stands in a unit is read, and a unit does not change with what is read next.
LEMMA RitesSame ==
    ASSUME PageRead, NEW k, Reads(k), NEW S, NEW unit, Under(at - 1, S, unit)
    PROVE  /\ RitesRight(unit)' <=> RitesRight(unit)
           /\ \A q \in Pieces(unit) : q[1] \in Rites \cup {"lessons"} => q[2] \in 1 .. at - 1
<1> DEFINE n == at - 1
           g == html'
           h == html
           N == LifeNames
           N2 == LifeNames'
<1>1. n \in Nat /\ (\A i \in 1 .. n : g[i] = h[i]) /\ \A j \in 1 .. n : j \in N2 <=> j \in N
  <2>1. n \in Nat /\ (\A i \in 1 .. n : g[i] = h[i]) /\ (N2 = N \/ N2 = N \cup {at}) /\ at = n + 1
    BY OfStep DEF LifeNames
  <2>2. \A j \in 1 .. n : j # at
    BY <2>1
  <2> QED BY <2>1, <2>2
<1>2. \A q \in Pieces(unit) : q[1] \in Rites \cup {"lessons"} => q[2] \in 1 .. n
  <2>1. \A q \in Pieces(unit) : q[1] \in Rites \cup {"lessons"} => q[2] \in Texts(unit)
    BY DEF Texts, Rites, Unplaced
  <2> QED BY <2>1 DEF Under
<1>3. unit.head \in 1 .. n
  BY DEF Under
<1> HIDE DEF n, g, h, N, N2
<1>4. ASSUME NEW j \in 1 .. n
      PROVE  /\ LatestIn(N2, j) = LatestIn(N, j)
             /\ LatestIn(N, j) # 0 => (NoRiteTwo(g, LatestIn(N, j), j) <=> NoRiteTwo(h, LatestIn(N, j), j))
             /\ Seen(g, unit.head, j, RiteII) <=> Seen(h, unit.head, j, RiteII)
  <2>1. j \in Nat /\ (\A i \in 1 .. j : i \in N2 <=> i \in N) /\ (\A i \in 1 .. j : g[i] = h[i])
    BY <1>1, <1>4
  <2>2. LatestIn(N2, j) = LatestIn(N, j)
    BY <2>1, LatestSame
  <2>3. LatestIn(N, j) \in 0 .. j
    BY <2>1, LatestIs
  <2>4. LatestIn(N, j) # 0 => (NoRiteTwo(g, LatestIn(N, j), j) <=> NoRiteTwo(h, LatestIn(N, j), j))
    <3>1. LatestIn(N, j) # 0 => LatestIn(N, j) \in 1 .. j
      BY <2>1, <2>3
    <3> QED BY <2>1, <3>1, SeenOn
  <2>5. \A i \in unit.head .. j : g[i] = h[i]
    BY <1>1, <1>3, <1>4
  <2> QED BY <2>2, <2>4, <2>5 DEF Seen
<1>5. RitesRight(unit)' <=>
        \A q, r \in Pieces(unit) :
          /\ q[1] = "rite_ii" /\ r[1] = "rite_i" => q[2] > r[2]
          /\ q[1] = "rite_i" => LatestIn(N2, q[2]) # 0 /\ NoRiteTwo(g, LatestIn(N2, q[2]), q[2])
          /\ q[1] = "rite_ii" => Seen(g, unit.head, q[2], RiteII)
          /\ q[1] = "lessons" /\ r[1] \in Rites => q[2] > r[2]
  BY DEF RitesRight, N2, g, Pieces
<1>6. RitesRight(unit) <=>
        \A q, r \in Pieces(unit) :
          /\ q[1] = "rite_ii" /\ r[1] = "rite_i" => q[2] > r[2]
          /\ q[1] = "rite_i" => LatestIn(N, q[2]) # 0 /\ NoRiteTwo(h, LatestIn(N, q[2]), q[2])
          /\ q[1] = "rite_ii" => Seen(h, unit.head, q[2], RiteII)
          /\ q[1] = "lessons" /\ r[1] \in Rites => q[2] > r[2]
  BY DEF RitesRight, N, h
<1>7. /\ \A q \in Pieces(unit) : q[1] = "rite_i" => q[2] \in 1 .. n
      /\ \A q \in Pieces(unit) : q[1] = "rite_ii" => q[2] \in 1 .. n
  BY <1>2 DEF Rites
<1>8. RitesRight(unit)' <=> RitesRight(unit)
  BY <1>4, <1>5, <1>6, <1>7
<1> QED BY <1>2, <1>8 DEF n

\* A span is read.
LEMMA RitesSpans ==
    ASSUME PageRead, LivesInv, Machine, LivesKept, RitesKept,
           NEW k \in Spans, NEW p, NEW t, Spanned(k, p, t)
    PROVE  RitesKept'
<1> DEFINE n == at - 1
           s == state
           N2 == LifeNames'
           g == html'
<1>1. /\ n \in Nat /\ at = n + 1 /\ g[at] = k /\ \A i \in 1 .. n : g[i] = html[i]
  BY OfStep DEF Spanned
<1>2. /\ current # NoUnit /\ current' # NoUnit /\ current'.head = current.head /\ UNCHANGED results
      /\ state' = t /\ Goes(s, k, p, t) /\ Reads(k)
      /\ Pieces(current') = Pieces(current) \cup (IF p = "" THEN {} ELSE {<<p, at>>})
      /\ \A parts : HasPart(current', parts) <=> HasPart(current, parts) \/ (p # "" /\ p \in parts)
  BY DEF Spanned
<1>3. s \in {"bio", "before_name"} \cup Collecting
  BY <1>2 DEF LivesInv
<1>4. /\ \A u \in ToSet(results) : RitesRight(u) /\ Under(n, LifeHeads, u)
      /\ RitesRight(current) /\ Under(n, LifeHeads, current)
      /\ HasPart(current, {"rite_ii"}) => s \in {"rite_ii", "after_rite_ii", "lessons"}
      /\ HasPart(current, {"lessons"}) => s = "lessons"
  BY <1>2 DEF RitesKept, LivesKept, Kept
<1>5. \A u \in ToSet(results) : RitesRight(u)'
  BY <1>2, <1>4, RitesSame
<1>6. PICK old, new : old = current /\ new = current'
  OBVIOUS
<1>7. /\ RitesRight(old)'
      /\ \A q \in Pieces(old) : q[1] \in Rites \cup {"lessons"} => q[2] \in 1 .. n
  BY <1>2, <1>4, <1>6, RitesSame
<1>8. /\ page \in 1 .. n
      /\ s \in Collecting => LatestIn(N2, at) # 0
      /\ k = "name" \/ (/\ s \in {"in_name", "after_name", "rite_i"}
                        /\ k \in RiteII => k = "II_text" /\ s = "in_name") =>
           NoRiteTwo(g, LatestIn(N2, at), at)
  BY <1>2, NamesGoOn
<1>9. old.head \in 1 .. page /\ (s \in {"rite_ii", "after_rite_ii", "lessons"} => Seen(html, page, n, RiteII))
  BY <1>2, <1>6 DEF Machine
<1>10. p = "rite_i" => s \in {"after_name", "rite_i"} /\ k \notin RiteII
  BY <1>2, <1>3 DEF Goes, Collecting, RiteII
<1>11. p = "rite_ii" => s = "rite_ii" \/ k \in RiteII
  BY <1>2, <1>3 DEF Goes, Collecting, RiteII
<1>12. p \in Rites => s # "lessons"
  BY <1>2, <1>3 DEF Goes, Collecting, Rites
<1>13. p = "rite_ii" \/ s \in {"rite_ii", "after_rite_ii", "lessons"} => t \in {"rite_ii", "after_rite_ii", "lessons"}
  BY <1>2, <1>3 DEF Goes, Collecting, RiteII
<1>14. p = "lessons" \/ s = "lessons" => t = "lessons"
  BY <1>2, <1>3 DEF Goes, Collecting, RiteII
<1> HIDE DEF n, s, N2, g
<1>15. p = "rite_i" => LatestIn(N2, at) # 0 /\ NoRiteTwo(g, LatestIn(N2, at), at)
  BY <1>8, <1>10 DEF Collecting
<1>16. p = "rite_ii" => Seen(g, old.head, at, RiteII)
  <2>1. CASE k \in RiteII
    <3>1. at \in old.head .. at
      BY <1>1, <1>8, <1>9
    <3> QED BY <1>1, <2>1, <3>1 DEF Seen
  <2>2. CASE s = "rite_ii"
    <3>1. \A j \in page .. n : j \in 1 .. n /\ j \in old.head .. at
      BY <1>1, <1>8, <1>9
    <3> QED BY <1>1, <1>9, <2>2, <3>1 DEF Seen
  <2> QED BY <1>11, <2>1, <2>2
<1>17. RitesRight(new)'
  <2> DEFINE One(q) == /\ q[1] = "rite_i" => LatestIn(N2, q[2]) # 0 /\ NoRiteTwo(g, LatestIn(N2, q[2]), q[2])
                       /\ q[1] = "rite_ii" => Seen(g, new.head, q[2], RiteII)
             Two(q, r) == /\ q[1] = "rite_ii" /\ r[1] = "rite_i" => q[2] > r[2]
                          /\ q[1] = "lessons" /\ r[1] \in Rites => q[2] > r[2]
  <2>1. /\ RitesRight(new)' <=> \A q, r \in Pieces(new) : One(q) /\ Two(q, r)
        /\ RitesRight(old)' => \A q, r \in Pieces(old) : One(q) /\ Two(q, r)
    <3>1. new.head = old.head
      BY <1>2, <1>6
    <3> QED BY <3>1 DEF RitesRight, Pieces, N2, g
  <2>2. Pieces(new) = Pieces(old) \cup (IF p = "" THEN {} ELSE {<<p, at>>})
    BY <1>2, <1>6
  <2> DEFINE x == <<p, at>>
  <2>3. x[1] = p /\ x[2] = at
    OBVIOUS
  <2>4. One(x)
    BY <1>2, <1>6, <1>15, <1>16, <2>3
  <2>5. ASSUME NEW q \in Pieces(old) PROVE Two(x, q) /\ Two(q, x)
    <3>1. q[1] \in Rites \cup {"lessons"} => at > q[2]
      <4>1. q[1] \in Rites \cup {"lessons"} => q[2] \in 1 .. n
        BY <1>7, <2>5
      <4> QED BY <1>1, <4>1
    <3>2. p \in Rites => q[1] # "lessons"
      BY <1>4, <1>6, <1>12, <2>5, PartsArePieces
    <3>3. p = "rite_i" => q[1] # "rite_ii"
      BY <1>4, <1>6, <1>10, <2>5, PartsArePieces
    <3> HIDE DEF x
    <3>4. Two(x, q)
      BY <2>3, <3>1 DEF Rites
    <3>5. Two(q, x)
      BY <2>3, <3>2, <3>3 DEF Rites
    <3> QED BY <3>4, <3>5
  <2>6. Two(x, x)
    BY <2>3 DEF Rites
  <2> HIDE DEF x, One, Two
  <2>7. \A q, r \in Pieces(old) : One(q) /\ Two(q, r)
    BY <1>7, <2>1
  <2>8. ASSUME NEW q \in Pieces(new), NEW r \in Pieces(new) PROVE One(q) /\ Two(q, r)
    <3>1. (q \in Pieces(old) \/ q = x) /\ (r \in Pieces(old) \/ r = x)
      BY <2>2, <2>8 DEF x
    <3> QED BY <2>4, <2>5, <2>6, <2>7, <3>1
  <2> QED BY <2>1, <2>8
<1>18. RitesRight(current)'
  BY <1>6, <1>17 DEF RitesRight
<1>19. /\ HasPart(current', {"rite_ii"}) => t \in {"rite_ii", "after_rite_ii", "lessons"}
       /\ HasPart(current', {"lessons"}) => t = "lessons"
  <2>1. \A parts : HasPart(current', parts) => HasPart(current, parts) \/ p \in parts
    BY DEF Spanned
  <2>2. \A x : p \in {x} => p = x
    OBVIOUS
  <2> QED BY <1>4, <1>13, <1>14, <2>1, <2>2
<1>20. ToSet(results') = ToSet(results)
  BY <1>2
<1> QED BY <1>2, <1>5, <1>18, <1>19, <1>20 DEF RitesKept

\* A page begins.
LEMMA RitesTurns ==
    ASSUME PageRead, LivesKept, RitesKept, NEW k \in FeastPages, NEW E, Turned(k, E)
    PROVE  RitesKept'
<1> DEFINE n == at - 1
<1>1. Reads(k) /\ state' \in {"bio", "before_name"}
  BY DEF Turned
<1>2. /\ \A u \in ToSet(results) : RitesRight(u) /\ Under(n, LifeHeads, u)
      /\ current # NoUnit =>
           /\ RitesRight(current) /\ Under(n, LifeHeads, current)
           /\ HasPart(current, {"rite_ii"}) => state \in {"rite_ii", "after_rite_ii", "lessons"}
           /\ HasPart(current, {"lessons"}) => state = "lessons"
  BY DEF RitesKept, LivesKept, Kept
<1>3. \A u \in ToSet(results) : RitesRight(u)'
  BY <1>1, <1>2, RitesSame
<1>4. PICK old, new : old = current /\ new = current'
  OBVIOUS
<1>5. current # NoUnit => RitesRight(old)'
  BY <1>1, <1>2, <1>4, RitesSame
<1>6. CASE state = "bio" /\ UNCHANGED <<current, results>>
  <2>1. new = old /\ ToSet(results') = ToSet(results)
    BY <1>4, <1>6
  <2>2. current' # NoUnit => RitesRight(current)'
    <3>1. current' # NoUnit => RitesRight(new)'
      BY <1>4, <1>5, <1>6, <2>1
    <3> QED BY <1>4, <3>1 DEF RitesRight
  <2>3. current' # NoUnit => ~HasPart(current', {"rite_ii"}) /\ ~HasPart(current', {"lessons"})
    BY <1>2, <1>6
  <2> QED BY <1>3, <2>1, <2>2, <2>3 DEF RitesKept
<1>7. CASE /\ LifeEmits(E) /\ ToSet(results') = ToSet(results) \cup E
           /\ Pieces(current') = {} /\ \A parts : ~HasPart(current', parts)
  <2>1. ASSUME NEW u \in E PROVE RitesRight(u)'
    <3>1. /\ current # NoUnit /\ u.head = old.head /\ \A q \in Pieces(u) : q \in Pieces(old)
      BY <1>4, <1>7, <2>1 DEF LifeEmits
    <3>2. RitesRight(old)'
      BY <1>5, <3>1
    <3> QED BY <3>1, <3>2 DEF RitesRight, Pieces
  <2>2. RitesRight(current)'
    BY <1>7 DEF RitesRight
  <2> QED BY <1>3, <1>7, <2>1, <2>2 DEF RitesKept
<1> QED BY <1>6, <1>7 DEF Turned

\* The file ends.
LEMMA RitesEnds ==
    ASSUME PageRead, RitesKept, FeastsEnd
    PROVE  RitesKept'
<1> DEFINE closed == FeastEmit(current)
           E == ToSet(closed)
<1>1. UNCHANGED <<html, at>> /\ results' = results \o closed /\ current' = NoUnit
  BY DEF FeastsEnd, PageEnds
<1>2. LifeEmits(E) /\ closed \in Seq(Builder)
  BY LifeCloses
<1>3. UNCHANGED LifeNames
  BY <1>1, LifeStill
<1>4. \A u : RitesRight(u)' <=> RitesRight(u)
  BY <1>1, <1>3 DEF RitesRight
<1>5. ToSet(results') = ToSet(results) \cup E
  <2> HIDE DEF closed
  <2> QED BY <1>1, <1>2, ToSetConcat DEF PageRead
<1> HIDE DEF E
<1>6. ASSUME NEW u \in E PROVE RitesRight(u)
  <2>1. /\ current # NoUnit /\ u.head = current.head /\ \A q \in Pieces(u) : q \in Pieces(current)
    BY <1>2, <1>6 DEF LifeEmits
  <2> QED BY <2>1 DEF RitesKept, RitesRight
<1> QED BY <1>1, <1>4, <1>5, <1>6 DEF RitesKept

-----------------------------------------------------------------------------
(* The lives: the dates.                                                    *)

LifeDates == Of({"date"})

\* DateIsPrinted, of one unit.
DateRight(unit) ==
    unit.section # 0 =>
        /\ unit.section \in LifeDates
        /\ LatestIn(LifeHeads, unit.section) = unit.head \/ unit.section < unit.head
        /\ \A j \in LifeDates :
             LatestIn(FeastPagesRead, j) = unit.head => unit.section \in unit.head .. j

DatesKept ==
    /\ section # 0 => section \in LifeDates
    /\ section = 0 => LifeDates = {}
    /\ \A u \in ToSet(results) : DateRight(u) /\ (state # "done" => u.head < page)
    /\ current # NoUnit => DateRight(current) /\ (current.section = 0 => section = 0)

\* What is read next leaves the date of a unit right, but for a date on its first page.
LEMMA DatesSame ==
    ASSUME PageRead, Machine, NEW k, Reads(k), NEW unit, unit.head \in 1 .. at - 1,
           k = "date" => unit.head # page
    PROVE  DateRight(unit) => DateRight(unit)'
<1> DEFINE n == at - 1
           H == LifeHeads
           H2 == LifeHeads'
           P == FeastPagesRead
           P2 == FeastPagesRead'
           D == LifeDates
           D2 == LifeDates'
<1>1. /\ n \in Nat /\ at = n + 1 /\ D \in SUBSET (1 .. n)
      /\ k = "date" => D2 = D \cup {at} /\ P2 = P
      /\ k # "date" => D2 = D
      /\ P2 = P \/ P2 = P \cup {at}
  <2>1. k = "date" => k \notin FeastPages
    BY DEF FeastPages
  <2> QED BY <2>1, OfStep DEF LifeDates, FeastPagesRead
<1>2. page = LatestIn(P, n) /\ (H2 = H \/ H2 = H \cup {at}) /\ at \notin P
  <2>1. PageKnown
    BY DEF Machine
  <2>2. at \notin P
    BY <1>1 DEF FeastPagesRead, Of
  <2> QED BY <2>1, <2>2, LifeStep DEF PageKnown
<1>3. DateRight(unit) <=> (unit.section # 0 =>
        /\ unit.section \in D
        /\ LatestIn(H, unit.section) = unit.head \/ unit.section < unit.head
        /\ \A j \in D : LatestIn(P, j) = unit.head => unit.section \in unit.head .. j)
  BY DEF DateRight
<1>4. DateRight(unit)' <=> (unit.section # 0 =>
        /\ unit.section \in D2
        /\ LatestIn(H2, unit.section) = unit.head \/ unit.section < unit.head
        /\ \A j \in D2 : LatestIn(P2, j) = unit.head => unit.section \in unit.head .. j)
  BY DEF DateRight
<1> HIDE DEF n, H, H2, P, P2, D, D2
<1>5. ASSUME NEW j \in 1 .. n PROVE LatestIn(H2, j) = LatestIn(H, j) /\ LatestIn(P2, j) = LatestIn(P, j)
  <2>1. \A i \in 1 .. j : i # at
    BY <1>1, <1>5
  <2>2. (\A i \in 1 .. j : i \in H2 <=> i \in H) /\ (\A i \in 1 .. j : i \in P2 <=> i \in P)
    BY <1>1, <1>2, <2>1
  <2> QED BY <2>2, LatestSame
<1>6. k = "date" => LatestIn(P2, at) = page
  <2> DEFINE m == n + 1
  <2>1. m \in Nat /\ n <= m /\ \A i \in n + 1 .. m : i = m
    BY <1>1
  <2> HIDE DEF m
  <2>2. LatestIn(P, m) = LatestIn(P, n)
    BY <1>1, <1>2, <2>1, LatestOn DEF m
  <2> QED BY <1>1, <1>2, <2>2 DEF m
<1>7. \A j \in D : j \in 1 .. n
  BY <1>1
<1> QED BY <1>1, <1>3, <1>4, <1>5, <1>6, <1>7

\* A span is read: a date is that of the life at hand only where the code gives it one.
LEMMA DatesSpans ==
    ASSUME PageRead, LivesInv, Machine, LivesKept, DatesKept,
           NEW k \in Spans, NEW p, NEW t, Spanned(k, p, t)
    PROVE  DatesKept'
<1> DEFINE n == at - 1
           H == LifeHeads
           P == FeastPagesRead
           D == LifeDates
           D2 == LifeDates'
<1>1. /\ n \in Nat /\ at = n + 1 /\ at \notin 1 .. n /\ D \in SUBSET (1 .. n) /\ state # "done"
      /\ D2 = IF k = "date" THEN D \cup {at} ELSE D
      /\ FeastPagesRead' = P /\ D = {j \in 1 .. n : html[j] = "date"}
  <2>1. Reads(k) /\ k \notin FeastPages
    BY DEF Spanned, Spans, FeastPages
  <2>2. /\ n \in Nat /\ at = n + 1 /\ D \in SUBSET (1 .. n) /\ state # "done"
        /\ D2 = IF k = "date" THEN D \cup {at} ELSE D
        /\ FeastPagesRead' = P
    BY <2>1, OfStep DEF LifeDates, FeastPagesRead
  <2>3. D = {j \in 1 .. n : html[j] = "date"}
    BY DEF LifeDates, Of
  <2> QED BY <2>2, <2>3
<1>2. /\ current # NoUnit /\ current'.head = current.head /\ UNCHANGED <<results, page>> /\ Reads(k)
      /\ section' = IF k = "date" /\ FirstDateOfPage THEN at ELSE section
      /\ current'.section = IF section' # section /\ (current.section = 0 \/ current.head = page)
                              THEN section' ELSE current.section
  BY DEF Spanned
<1>3. /\ H \in SUBSET (1 .. n) /\ LifeHeads' = H /\ page = LatestIn(P, n) /\ page \in 1 .. n /\ page \in P
  <2>1. PageKnown /\ k \notin FeastPages /\ page # 0
    BY <1>2 DEF Machine, Spans, FeastPages
  <2>2. H \in SUBSET (1 .. n) /\ LifeHeads' = H /\ page = LatestIn(P, n)
    BY <1>2, <2>1, LifeStep DEF PageKnown
  <2> HIDE DEF n, H, P
  <2>3. LatestIn(P, n) \in 0 .. n /\ (LatestIn(P, n) # 0 => LatestIn(P, n) \in P)
    BY <1>1, LatestIs
  <2> QED BY <1>1, <2>1, <2>2, <2>3
<1>4. /\ section # 0 => section \in D
      /\ section = 0 => D = {}
      /\ \A u \in ToSet(results) : DateRight(u) /\ u.head < page /\ u.head \in 1 .. n
      /\ DateRight(current) /\ (current.section = 0 => section = 0)
      /\ current.head \in 1 .. n /\ current.head = LatestIn(H, n)
  BY <1>1, <1>2 DEF DatesKept, LivesKept, Kept, Under
<1>5. \A u \in ToSet(results) : DateRight(u)'
  <2>1. \A u \in ToSet(results) : u.head # page
    BY <1>3, <1>4
  <2> QED BY <1>2, <1>4, <2>1, DatesSame
<1>6. PICK old, new : old = current /\ new = current'
  OBVIOUS
<1>7. k # "date" \/ old.head # page => DateRight(old)'
  BY <1>2, <1>4, <1>6, DatesSame
<1>8. FirstDateOfPage <=> \A j \in D : ~(page < j)
  <2>1. FirstDateOfPage <=> \A j \in page + 1 .. n : html[j] # "date"
    BY DEF FirstDateOfPage
  <2>2. \A j \in 1 .. n : j \in page + 1 .. n <=> page < j
    BY <1>1, <1>3
  <2>3. \A j \in page + 1 .. n : j \in 1 .. n
    BY <1>1, <1>3
  <2> HIDE DEF n, D
  <2> QED BY <1>1, <2>1, <2>2, <2>3
<1>9. DateRight(old) <=> (old.section # 0 =>
        /\ old.section \in D
        /\ LatestIn(H, old.section) = old.head \/ old.section < old.head
        /\ \A j \in D : LatestIn(P, j) = old.head => old.section \in old.head .. j)
  BY DEF DateRight
<1>10. DateRight(new)' <=> (new.section # 0 =>
        /\ new.section \in D2
        /\ LatestIn(H, new.section) = new.head \/ new.section < new.head
        /\ \A j \in D2 : LatestIn(P, j) = new.head => new.section \in new.head .. j)
  BY <1>1, <1>3 DEF DateRight
<1>11. new.head = old.head /\ old.head \in 1 .. n /\ old.head = LatestIn(H, n) /\ DateRight(old)
  BY <1>2, <1>4, <1>6 DEF DateRight
<1>12. section \in Nat /\ at # section /\ at \in Nat
  BY <1>1, <1>4 DEF PageRead
<1> HIDE DEF n, H, P, D, D2
<1>13. ASSUME NEW j \in D
       PROVE  /\ j \in 1 .. n /\ j # page
              /\ page < j => LatestIn(P, j) = page
              /\ LatestIn(P, j) = page => page < j
  <2>1. j \in 1 .. n /\ j \in Nat /\ j # page
    BY <1>1, <1>3, <1>13 DEF P, FeastPagesRead, Of, FeastPages
  <2>2. LatestIn(P, j) \in 0 .. j
    BY <2>1, LatestIs
  <2>3. ASSUME page < j PROVE LatestIn(P, j) = page
    <3>1. \A i \in 1 .. n : i \in P => i <= page
      BY <1>1, <1>3, LatestIs
    <3>2. page \in 0 .. j /\ \A i \in 1 .. j : i \in 1 .. n
      BY <1>1, <1>3, <2>1, <2>3
    <3> QED BY <1>3, <2>1, <3>1, <3>2, LatestUnique
  <2>4. LatestIn(P, j) = page => page < j
    BY <1>3, <2>1, <2>2
  <2> QED BY <2>1, <2>3, <2>4
<1>14. LatestIn(P, at) = page /\ LatestIn(H, at) = old.head
  <2> DEFINE m == n + 1
  <2>1. m \in Nat /\ n <= m /\ (\A i \in n + 1 .. m : i \notin P) /\ (\A i \in n + 1 .. m : i \notin H)
    BY <1>1, <1>3 DEF P, FeastPagesRead, Of, n
  <2> HIDE DEF m
  <2>2. LatestIn(P, m) = LatestIn(P, n) /\ LatestIn(H, m) = LatestIn(H, n)
    BY <1>1, <2>1, LatestOn
  <2> QED BY <1>1, <1>3, <1>11, <2>2 DEF m
<1>15. CASE ~(k = "date" /\ FirstDateOfPage)
  <2>1. section' = section /\ new.section = old.section
    BY <1>2, <1>6, <1>15
  <2>2. CASE k # "date" \/ old.head # page
    <3>1. DateRight(old)'
      BY <1>7, <2>2
    <3>2. DateRight(new)'
      BY <1>11, <2>1, <3>1 DEF DateRight
    <3> QED BY <1>1, <1>2, <1>4, <1>5, <1>6, <1>8, <1>15, <2>1, <3>2 DEF DatesKept, DateRight, D2, D
  <2>3. CASE k = "date" /\ old.head = page
    <3>1. PICK i \in D : page < i
      BY <1>8, <1>15, <2>3
    <3>2. LatestIn(P, i) = page /\ i \in 1 .. n
      BY <1>13, <3>1
    <3>3. ASSUME new.section # 0 PROVE new.section \in new.head .. at /\ new.section \in D
      <4>1. new.section \in old.head .. i /\ new.section \in D
        BY <1>9, <1>11, <2>1, <2>3, <3>2, <3>3
      <4> QED BY <1>1, <1>11, <3>2, <4>1
    <3>4. DateRight(new)'
      BY <1>1, <1>9, <1>10, <1>11, <2>1, <2>3, <3>3
    <3> QED BY <1>1, <1>2, <1>4, <1>5, <1>6, <2>1, <2>3, <3>1, <3>4 DEF DatesKept, DateRight, D2, D
  <2> QED BY <2>2, <2>3
<1>16. CASE k = "date" /\ FirstDateOfPage
  <2>1. section' = at /\ section' # section /\ D2 = D \cup {at} /\ \A j \in D : ~(page < j)
    BY <1>1, <1>2, <1>8, <1>12, <1>16
  <2>2. CASE old.section = 0 \/ old.head = page
    <3>1. new.section = at
      BY <1>2, <1>6, <2>1, <2>2
    <3>2. \A j \in D : LatestIn(P, j) # old.head
      BY <1>4, <1>6, <1>13, <2>1, <2>2
    <3>3. at \in old.head .. at
      BY <1>1, <1>11
    <3>4. DateRight(new)'
      BY <1>10, <1>11, <1>14, <2>1, <3>1, <3>2, <3>3
    <3>5. new.section # 0 /\ at \in D2 /\ at # 0
      BY <1>1, <2>1, <3>1
    <3> QED BY <1>1, <1>2, <1>5, <1>6, <2>1, <3>4, <3>5 DEF DatesKept, DateRight, D2
  <2>3. CASE old.section # 0 /\ old.head # page
    <3>1. new.section = old.section
      BY <1>2, <1>6, <2>3
    <3>2. DateRight(old)'
      BY <1>7, <2>3
    <3>3. DateRight(new)'
      BY <1>11, <3>1, <3>2 DEF DateRight
    <3>5. new.section # 0 /\ at \in D2 /\ at # 0
      BY <1>1, <2>1, <2>3, <3>1
    <3> QED BY <1>1, <1>2, <1>5, <1>6, <2>1, <3>3, <3>5 DEF DatesKept, DateRight, D2
  <2> QED BY <2>2, <2>3
<1> QED BY <1>15, <1>16

\* A page begins, and with it maybe a life with the running date.
LEMMA DatesTurns ==
    ASSUME PageRead, Machine, LivesKept, DatesKept, NEW k \in FeastPages, NEW E, Turned(k, E)
    PROVE  DatesKept'
<1> DEFINE n == at - 1
           H == LifeHeads
           P == FeastPagesRead
           P2 == FeastPagesRead'
           D == LifeDates
<1>1. Reads(k) /\ k # "date" /\ page' = at /\ section' = section /\ state' # "done"
  BY DEF Turned, FeastPages
<1>2. /\ n \in Nat /\ at = n + 1 /\ D \in SUBSET (1 .. n) /\ LifeDates' = D /\ state # "done"
  BY <1>1, OfStep DEF LifeDates
<1>3. page = LatestIn(P, n) /\ P2 = P \cup {at} /\ page \in 0 .. n
  <2>1. page = LatestIn(P, n)
    BY DEF Machine, PageKnown
  <2>2. P2 = P \cup {at}
    BY <1>1, OfStep DEF FeastPagesRead
  <2> HIDE DEF n, P
  <2>3. LatestIn(P, n) \in 0 .. n
    BY <1>2, LatestIs
  <2> QED BY <2>1, <2>2, <2>3 DEF n
<1>4. /\ section # 0 => section \in D
      /\ section = 0 => D = {}
      /\ \A u \in ToSet(results) : DateRight(u) /\ u.head < page /\ u.head \in 1 .. n
      /\ current # NoUnit => /\ DateRight(current) /\ current.head \in 1 .. n
                             /\ current.section = 0 => section = 0
  BY <1>2 DEF DatesKept, LivesKept, Kept, Under
<1>5. PICK old, new : old = current /\ new = current'
  OBVIOUS
<1>6. /\ \A u \in ToSet(results) : DateRight(u)' /\ u.head < at
      /\ current # NoUnit => DateRight(old)' /\ old.head < at
  <2>1. /\ \A u \in ToSet(results) : DateRight(u)'
        /\ current # NoUnit => DateRight(old)'
    BY <1>1, <1>4, <1>5, DatesSame
  <2> QED BY <1>2, <1>4, <1>5, <2>1
<1>7. CASE state = "bio" /\ UNCHANGED <<current, results>>
  <2>1. new = old /\ ToSet(results') = ToSet(results)
    BY <1>5, <1>7
  <2>2. current' # NoUnit => DateRight(new)' /\ (current'.section = 0 => section' = 0)
    BY <1>1, <1>4, <1>5, <1>6, <1>7, <2>1
  <2> QED BY <1>1, <1>2, <1>4, <1>5, <1>6, <2>1, <2>2 DEF DatesKept, DateRight
<1>8. CASE /\ LifeEmits(E) /\ ToSet(results') = ToSet(results) \cup E
           /\ current' # NoUnit /\ current'.head = at /\ current'.section = section
  <2>1. ASSUME NEW u \in E PROVE DateRight(u)' /\ u.head < at
    <3>1. current # NoUnit /\ u.head = old.head /\ u.section = old.section
      BY <1>5, <1>8, <2>1 DEF LifeEmits
    <3> QED BY <1>6, <3>1 DEF DateRight
  <2>2. new.head = at /\ new.section = section
    BY <1>5, <1>8
  <2>3. \A j \in D : LatestIn(P2, j) # at
    <3>1. ASSUME NEW j \in D PROVE LatestIn(P2, j) # at
      <4>1. j \in Nat /\ j < at /\ at \in Nat
        BY <1>2, <3>1
      <4> HIDE DEF P2, D
      <4>2. LatestIn(P2, j) \in 0 .. j
        BY <4>1, LatestIs
      <4> QED BY <4>1, <4>2
    <3> QED BY <3>1
  <2>4. section # 0 => section < at
    <3>1. section # 0 => section \in 1 .. n
      BY <1>2, <1>4
    <3> QED BY <1>2, <3>1
  <2>5. DateRight(new)'
    <3>1. DateRight(new)' <=> (new.section # 0 =>
        /\ new.section \in D
        /\ LatestIn(H', new.section) = new.head \/ new.section < new.head
        /\ \A j \in D : LatestIn(P2, j) = new.head => new.section \in new.head .. j)
      BY <1>2 DEF DateRight
    <3> HIDE DEF H, D, P2
    <3> QED BY <1>4, <2>2, <2>3, <2>4, <3>1
  <2>6. \A u \in ToSet(results') : DateRight(u)' /\ u.head < page'
    BY <1>1, <1>6, <1>8, <2>1
  <2>7. current' # NoUnit => DateRight(current)' /\ (current'.section = 0 => section' = 0)
    <3>1. DateRight(current)'
      BY <1>5, <2>5 DEF DateRight
    <3> QED BY <1>1, <1>8, <3>1
  <2>8. /\ section' # 0 => section' \in LifeDates'
        /\ section' = 0 => LifeDates' = {}
    BY <1>1, <1>2, <1>4
  <2> QED BY <2>6, <2>7, <2>8 DEF DatesKept
<1> QED BY <1>7, <1>8 DEF Turned

\* The file ends.
LEMMA DatesEnds ==
    ASSUME PageRead, DatesKept, FeastsEnd
    PROVE  DatesKept'
<1> DEFINE closed == FeastEmit(current)
           E == ToSet(closed)
<1>1. /\ UNCHANGED <<html, at, section>> /\ results' = results \o closed
      /\ current' = NoUnit /\ state' = "done"
  BY DEF FeastsEnd, PageEnds
<1>2. LifeEmits(E) /\ closed \in Seq(Builder)
  BY LifeCloses
<1>3. UNCHANGED <<LifeHeads, FeastPagesRead, LifeDates>>
  <2>1. UNCHANGED LifeDates
    BY <1>1, OfStays DEF LifeDates
  <2> QED BY <1>1, <2>1, LifeStill
<1>4. \A u : DateRight(u)' <=> DateRight(u)
  BY <1>3 DEF DateRight
<1>5. ToSet(results') = ToSet(results) \cup E
  <2> HIDE DEF closed
  <2> QED BY <1>1, <1>2, ToSetConcat DEF PageRead
<1> HIDE DEF E
<1>6. ASSUME NEW u \in E PROVE DateRight(u)
  <2>1. current # NoUnit /\ u.head = current.head /\ u.section = current.section
    BY <1>2, <1>6 DEF LifeEmits
  <2> QED BY <2>1 DEF DatesKept, DateRight
<1> QED BY <1>1, <1>3, <1>4, <1>5, <1>6 DEF DatesKept

\* A life begins with a page.
LivesBegin ==
    /\ \A u \in ToSet(results) : u.head \in FeastPagesRead
    /\ current # NoUnit => current.head \in FeastPagesRead

\* A span is read.
LEMMA BeginSpans ==
    ASSUME PageRead, LivesBegin, NEW k \in Spans, NEW p, NEW t, Spanned(k, p, t)
    PROVE  LivesBegin'
<1>1. current # NoUnit /\ current'.head = current.head /\ UNCHANGED results
  BY DEF Spanned
<1>2. FeastPagesRead' = FeastPagesRead
  <2>1. Reads(k) /\ k \notin FeastPages
    BY DEF Spanned, Spans, FeastPages
  <2> QED BY <2>1, OfStep DEF FeastPagesRead
<1> QED BY <1>1, <1>2 DEF LivesBegin

\* A page begins.
LEMMA BeginTurns ==
    ASSUME PageRead, Machine, LivesBegin, NEW k \in FeastPages, NEW E, Turned(k, E)
    PROVE  LivesBegin'
<1>1. FeastPagesRead' = FeastPagesRead \cup {at} /\ (state = "bio" => current # NoUnit)
  <2>1. Reads(k) /\ state # "done"
    BY OfStep DEF Turned
  <2> QED BY <2>1, OfStep DEF FeastPagesRead, Machine
<1>2. CASE state = "bio" /\ UNCHANGED <<current, results>>
  BY <1>1, <1>2 DEF LivesBegin
<1>3. CASE LifeEmits(E) /\ ToSet(results') = ToSet(results) \cup E /\ current'.head = at
  <2>1. \A u \in E : current # NoUnit /\ u.head = current.head
    BY <1>3 DEF LifeEmits
  <2> QED BY <1>1, <1>3, <2>1 DEF LivesBegin
<1> QED BY <1>2, <1>3 DEF Turned

\* The file ends.
LEMMA BeginEnds ==
    ASSUME PageRead, LivesBegin, FeastsEnd
    PROVE  LivesBegin'
<1> DEFINE closed == FeastEmit(current)
           E == ToSet(closed)
<1>1. UNCHANGED <<html, at>> /\ results' = results \o closed /\ current' = NoUnit
  BY DEF FeastsEnd, PageEnds
<1>2. LifeEmits(E) /\ closed \in Seq(Builder)
  BY LifeCloses
<1>3. UNCHANGED FeastPagesRead
  BY <1>1, LifeStill
<1>4. ToSet(results') = ToSet(results) \cup E
  <2> HIDE DEF closed
  <2> QED BY <1>1, <1>2, ToSetConcat DEF PageRead
<1> HIDE DEF E
<1>5. \A u \in E : current # NoUnit /\ u.head = current.head
  BY <1>2 DEF LifeEmits
<1> QED BY <1>1, <1>3, <1>4, <1>5 DEF LivesBegin

LivesPlaced == Machine /\ LivesKept /\ RitesKept /\ DatesKept /\ LivesBegin

\* The lives.
LEMMA LivesPlace ==
    ASSUME PageRead, LivesInv, LivesPlaced, FeastsNext
    PROVE  LivesPlaced'
<1>1. CASE FeastPage
  <2>1. PICK k \in FeastPages : \E E : Turned(k, E)
    BY <1>1, PageStep
  <2>2. PICK E : Turned(k, E)
    BY <2>1
  <2> QED BY <2>2, MachineTurns, LivesKeptTurns, RitesTurns, DatesTurns, BeginTurns DEF LivesPlaced
<1>2. CASE FeastSpan
  <2>1. PICK k \in Spans : \E p, t : Spanned(k, p, t)
    BY <1>2, SpanStep DEF LivesPlaced
  <2>2. PICK p, t : Spanned(k, p, t)
    BY <2>1
  <2> QED BY <2>2, MachineSpans, LivesKeptSpans, RitesSpans, DatesSpans, BeginSpans DEF LivesPlaced
<1>3. CASE FeastsEnd
  BY <1>3, MachineEnds, LivesKeptEnds, RitesEnds, DatesEnds, BeginEnds DEF LivesPlaced
<1> QED BY <1>1, <1>2, <1>3 DEF FeastsNext

-----------------------------------------------------------------------------
(* What all this means for the properties of LiturgicalParsers.             *)

\* What is read are the elements before at.
LEMMA SoFarIs == PageRead => ReadSoFar = 1 .. at - 1 /\ at - 1 \in Nat
<1> SUFFICES ASSUME PageRead PROVE ReadSoFar = 1 .. at - 1 /\ at - 1 \in Nat
  OBVIOUS
<1>1. at \in Nat \ {0} /\ at <= Len(html) + 1 /\ Len(html) \in Nat
  BY AppendIs DEF PageRead
<1>2. at > Len(html) => Len(html) = at - 1
  BY <1>1
<1> QED BY <1>1, <1>2 DEF ReadSoFar

\* A heading of the properties is the latest of the headings read.
LEMMA HeadingIs ==
    ASSUME NEW S, NEW k, \A j \in 1 .. k : Opens(j) <=> j \in S
    PROVE  HeadingOf(k) = LatestIn(S, k)
<1>1. {j \in 1 .. k : Opens(j)} = {j \in 1 .. k : j \in S}
  OBVIOUS
<1> QED BY <1>1 DEF HeadingOf, LatestIn

\* The headings of all that is read.
LEMMA HeadingsAre ==
    ASSUME PageRead, NEW S, \A k \in 1 .. at - 1 : Opens(k) <=> k \in S
    PROVE  \A k \in 1 .. at - 1 : HeadingOf(k) = LatestIn(S, k)
<1>1. SUFFICES ASSUME NEW k \in 1 .. at - 1 PROVE HeadingOf(k) = LatestIn(S, k)
  OBVIOUS
<1>2. at - 1 \in Nat
  BY SoFarIs
<1>3. \A j \in 1 .. k : j \in 1 .. at - 1
  BY <1>1, <1>2
<1>4. \A j \in 1 .. k : Opens(j) <=> j \in S
  BY <1>3
<1> QED BY <1>4, HeadingIs

\* So is the last element of some kinds.
LEMMA LastBeforeIs ==
    ASSUME NEW kinds, NEW S, NEW k,
           \A j \in 1 .. k : j \in S <=> html[j] \in kinds /\ (book \in Offices => ~JumpedOver(j))
    PROVE  LastBefore(k, kinds) = LatestIn(S, k)
<1>1. {j \in 1 .. k : html[j] \in kinds /\ (book \in Offices => ~JumpedOver(j))} = {j \in 1 .. k : j \in S}
  OBVIOUS
<1> QED BY <1>1 DEF LastBefore, LatestIn

\* The units of the properties.
LEMMA UnitsAre ==
    /\ \A u : u \in Units <=> u \in ToSet(results) \/ (u = current /\ current # NoUnit)
    /\ \A u, k : k \in Texts(u) => \E i \in DOMAIN u.text : u.text[i][2] = k
    /\ \A u : \A i \in DOMAIN u.text :
          /\ u.text[i] \in Pieces(u)
          /\ u.text[i][1] \notin Unplaced => u.text[i][2] \in Texts(u)
BY DEF Units, Texts, Pieces

\* What is kept under its heading is in its place, and none of it is lost.
LEMMA KeptMeans ==
    ASSUME PageRead, NEW S, NEW T, NEW W, Kept(at - 1, S, T, W, current, ToSet(results)),
           \A k \in 1 .. at - 1 : Opens(k) <=> k \in S,
           \A k \in 1 .. at - 1 :
               HeadingOf(k) # 0 /\ HasText(k) /\ IsKept(HeadingOf(k)) =>
                   k \in T /\ (HeadingOf(k) = current.head \/ HeadingOf(k) \in W)
    PROVE  TextUnderItsHeading /\ NoTextLost
<1> DEFINE n == at - 1
<1>1. ReadSoFar = 1 .. n /\ n \in Nat
  BY SoFarIs
<1>2. \A k \in 1 .. n : HeadingOf(k) = LatestIn(S, k)
  BY HeadingsAre
<1>3. /\ \A u \in ToSet(results) : Under(n, S, u)
      /\ current # NoUnit => /\ Under(n, S, current)
                             /\ \A k \in T : LatestIn(S, k) = current.head => k \in Texts(current)
      /\ \A k \in T : LatestIn(S, k) \notin {0, current.head} /\ LatestIn(S, k) \in W =>
            \E u \in ToSet(results) : u.head = LatestIn(S, k) /\ k \in Texts(u)
  BY DEF Kept
<1>4. TextUnderItsHeading
  <2>1. ASSUME NEW u \in Units, NEW i \in DOMAIN u.text, u.text[i][1] \notin {"psday", "number"}
        PROVE  HeadingOf(u.text[i][2]) = u.head
    <3>1. Under(n, S, u)
      BY <1>3, UnitsAre
    <3>2. u.text[i][2] \in Texts(u)
      BY <2>1, UnitsAre DEF Unplaced
    <3>3. u.text[i][2] \in 1 .. n /\ LatestIn(S, u.text[i][2]) = u.head
      BY <3>1, <3>2 DEF Under
    <3> QED BY <1>2, <3>3
  <2> QED BY <2>1 DEF TextUnderItsHeading
<1>5. NoTextLost
  <2>1. ASSUME NEW k \in 1 .. n, HeadingOf(k) # 0, HasText(k), IsKept(HeadingOf(k))
        PROVE  \E u \in Units : u.head = HeadingOf(k) /\ \E i \in DOMAIN u.text : u.text[i][2] = k
    <3>1. k \in T /\ (HeadingOf(k) = current.head \/ HeadingOf(k) \in W) /\ HeadingOf(k) = LatestIn(S, k)
      BY <1>2, <2>1
    <3>2. CASE HeadingOf(k) = current.head
      <4>1. current # NoUnit
        BY <2>1, <3>2 DEF NoUnit
      <4>2. k \in Texts(current)
        BY <1>3, <3>1, <3>2, <4>1
      <4>3. current \in Units /\ \E i \in DOMAIN current.text : current.text[i][2] = k
        BY <4>1, <4>2, UnitsAre
      <4> QED BY <3>2, <4>3
    <3>3. CASE HeadingOf(k) # current.head
      <4>1. PICK u \in ToSet(results) : u.head = LatestIn(S, k) /\ k \in Texts(u)
        BY <1>3, <2>1, <3>1, <3>3
      <4>2. u \in Units /\ \E i \in DOMAIN u.text : u.text[i][2] = k
        BY <4>1, UnitsAre
      <4> QED BY <3>1, <4>1, <4>2
    <3> QED BY <3>2, <3>3
  <2> QED BY <1>1, <2>1 DEF NoTextLost
<1> QED BY <1>4, <1>5

\* Kept units have no number of a psalm.
LEMMA NumbersMean ==
    ASSUME NEW n, NEW S, NEW T, NEW W, Kept(n, S, T, W, current, ToSet(results))
    PROVE  \A u \in Units : /\ u.head \in 1 .. n
                            /\ \A i \in DOMAIN u.text : u.text[i][1] # "number"
<1>1. \A u \in Units : Under(n, S, u)
  BY UnitsAre DEF Kept
<1>2. \A u : ~HasPart(u, {"number"}) => \A i \in DOMAIN u.text : u.text[i][1] # "number"
  BY DEF HasPart
<1> QED BY <1>1, <1>2 DEF Under

\* The page a unit is given is the one printed.
LEMMA PagesMean ==
    ASSUME PageRead, NEW S, NEW M, NEW A, PagesRight(S, M, A),
           M \in SUBSET (1 .. at - 1), book # "proper_liturgies",
           \A k \in 1 .. at - 1 : Opens(k) <=> k \in S,
           \A k \in 1 .. at - 1 : k \in M <=> html[k] = "marker" /\ (book \in Offices => ~JumpedOver(k)),
           \A k \in 1 .. at - 1 :
               \/ k \in A <=> html[k] \in {"season", "lone_season"}
               \/ k \notin A /\ k \notin S
    PROVE  PageIsPrinted
<1> DEFINE n == at - 1
<1>1. ReadSoFar = 1 .. n /\ n \in Nat
  BY SoFarIs
<1>2. \A u \in Units : u.head \in 1 .. n /\ u.page = PageOf(S, M, A, u.head)
  BY UnitsAre DEF PagesRight, Paged
<1>3. ASSUME NEW u \in Units
      PROVE  u.page = IF LastBefore(u.head, {"marker"}) # 0 THEN LastBefore(u.head, {"marker"})
                      ELSE IF html[u.head] \in {"season", "lone_season"} THEN 0
                      ELSE FirstBelowHeading(u.head)
  <2> DEFINE h == u.head
  <2>1. h \in 1 .. n /\ u.page = PageOf(S, M, A, h)
    BY <1>2, <1>3
  <2> HIDE DEF h
  <2>2. \A j \in 1 .. h : j \in 1 .. n
    BY <1>1, <2>1
  <2>3. LastBefore(h, {"marker"}) = LatestIn(M, h)
    <3>1. \A j \in 1 .. h : j \in M <=> html[j] \in {"marker"} /\ (book \in Offices => ~JumpedOver(j))
      BY <2>2
    <3> QED BY <3>1, LastBeforeIs
  <2>4. \A j \in 1 .. n : HeadingOf(j) = LatestIn(S, j)
    BY HeadingsAre
  <2> DEFINE seen == {j \in M : j > h /\ LatestIn(S, j) = h}
             below == {j \in ReadSoFar : j > h /\ html[j] = "marker" /\ HeadingOf(j) = h
                                         /\ (book \in Offices => ~JumpedOver(j))}
  <2>5. below = seen
    <3>1. \A j \in M : j \in 1 .. n
      OBVIOUS
    <3>2. \A j : j \in below <=> j \in seen
      BY <1>1, <2>4, <3>1
    <3> QED BY <3>2
  <2>6. FirstBelowHeading(h) = IF seen = {} THEN 0 ELSE Min(seen)
    BY <2>5 DEF FirstBelowHeading
  <2>7. u.page = IF LatestIn(M, h) # 0 THEN LatestIn(M, h)
                 ELSE IF h \in A THEN 0 ELSE IF seen = {} THEN 0 ELSE Min(seen)
    BY <2>1 DEF PageOf
  <2>8. h \notin S => seen = {}
    <3>1. ASSUME NEW j \in M, LatestIn(S, j) = h PROVE h \in S
      <4>1. j \in Nat /\ h # 0
        BY <2>1, <3>1
      <4> QED BY <3>1, <4>1, LatestIs
    <3> QED BY <3>1
  <2> HIDE DEF seen
  <2> QED BY <2>1, <2>3, <2>6, <2>7, <2>8 DEF h
<1> QED BY <1>3 DEF PageIsPrinted

\* A book whose parser keeps place by the kinds of the elements.
LEMMA PlaceMeans ==
    ASSUME PageRead, NEW H, NEW Z, NEW X, NEW part, KeepsPlace(H, Z, X, part),
           book \in {"collects", "psalter", "prayers"}, \A k \in H : k \notin {"season", "lone_season"},
           \A k : Opens(k) <=> html[k] \in H,
           \A k \in 1 .. at - 1 :
               HeadingOf(k) # 0 /\ HasText(k) => html[k] \in X /\ html[HeadingOf(k)] \notin Z
    PROVE  /\ TextUnderItsHeading /\ NoTextLost /\ PageIsPrinted
           /\ \A u \in Units : /\ u.head \in 1 .. at - 1
                               /\ \A i \in DOMAIN u.text : u.text[i][1] # "number"
<1> DEFINE n == at - 1
           S == Of(H)
           T == Of(X)
           B == Of(Bodies)
           W == HeadsOf(S, B) \ Of(Z)
           M == Of({"marker"})
<1>0. book \notin Offices /\ book # "proper_liturgies" /\ book # "lff_2024"
  BY DEF Offices
<1>1. Kept(n, S, T, W, current, ToSet(results)) /\ PagesRight(S, M, {})
  BY DEF KeepsPlace
<1>2. \A k \in 1 .. n : Opens(k) <=> k \in S
  BY DEF Of
<1>3. \A k \in 1 .. n : HeadingOf(k) = LatestIn(S, k)
  BY <1>2, HeadingsAre
<1>4. ASSUME NEW k \in 1 .. n, HeadingOf(k) # 0, HasText(k), IsKept(HeadingOf(k))
      PROVE  k \in T /\ (HeadingOf(k) = current.head \/ HeadingOf(k) \in W)
  <2> DEFINE h == HeadingOf(k)
  <2>1. html[k] \in X /\ html[h] \notin Z
    BY <1>4
  <2>2. k \in T
    BY <2>1 DEF Of
  <2>3. h # current.head => h \in HeadsOf(S, B)
    <3>1. SUFFICES ASSUME h # current.head PROVE h \in HeadsOf(S, B)
      OBVIOUS
    <3>2. PICK j \in ReadSoFar : HeadingOf(j) = h /\ html[j] \in BodyKinds
      BY <1>0, <1>4, <3>1 DEF IsKept
    <3>3. j \in 1 .. n /\ j \in B /\ LatestIn(S, j) = h
      BY <1>0, <1>3, <3>2, SoFarIs DEF BodyKinds, Bodies, Of
    <3> QED BY <3>3 DEF HeadsOf
  <2>4. h \notin Of(Z)
    BY <2>1 DEF Of
  <2> QED BY <2>2, <2>3, <2>4
<1>5. TextUnderItsHeading /\ NoTextLost
  <2> HIDE DEF n, S, T, W
  <2>1. Kept(at - 1, S, T, W, current, ToSet(results))
    BY <1>1 DEF n
  <2> QED BY <1>2, <1>4, <2>1, KeptMeans DEF n
<1>6. \A u \in Units : u.head \in 1 .. n /\ \A i \in DOMAIN u.text : u.text[i][1] # "number"
  <2> HIDE DEF n, S, T, W
  <2> QED BY <1>1, NumbersMean
<1>7. PageIsPrinted
  <2>1. M \in SUBSET (1 .. n) /\ \A k \in 1 .. n : k \in M <=> html[k] = "marker"
    BY DEF Of
  <2>2. \A k \in 1 .. n : k \in S => html[k] \notin {"season", "lone_season"}
    BY DEF Of
  <2> HIDE DEF S, M
  <2>3. \A k \in 1 .. at - 1 : \/ k \in {} <=> html[k] \in {"season", "lone_season"}
                               \/ k \notin {} /\ k \notin S
    BY <2>2
  <2> QED BY <1>0, <1>1, <1>2, <2>1, <2>3, PagesMean
<1> QED BY <1>5, <1>6, <1>7

InPlace == TextInItsPlace /\ NoTextLost

\* The collects.
LEMMA CollectsMean ==
    ASSUME PageRead, book = "collects", CollectsPlaced PROVE InPlace
<1> DEFINE H == CollectHeadings
           Z == {"blank_strong"}
           X == CollectTexts
<1>1. book \notin Offices
  BY DEF Offices
<1>2. \A k : Opens(k) <=> html[k] \in H
  BY <1>1 DEF Opens, CollectOpens, CollectHeadings
<1>3. ASSUME NEW k \in 1 .. at - 1, HeadingOf(k) # 0, HasText(k)
      PROVE  html[k] \in X /\ html[HeadingOf(k)] \notin Z
  <2> DEFINE h == HeadingOf(k)
             m == Max({h, 1})
  <2>1. html[k] \in X /\ html[m] \notin Z
    BY <1>1, <1>3 DEF HasText, CollectTexts
  <2>2. h \in Nat /\ h >= 1
    <3>1. \A j \in 1 .. k : Opens(j) <=> j \in Of(H)
      BY <1>2, SoFarIs DEF Of
    <3>2. h = LatestIn(Of(H), k) /\ k \in Nat
      BY <3>1, HeadingIs
    <3>3. LatestIn(Of(H), k) \in 0 .. k
      BY <3>2, LatestIs
    <3> QED BY <1>3, <3>2, <3>3
  <2> HIDE DEF h
  <2>3. m = h
    <3>1. {h, 1} \in SUBSET (1 .. h) /\ {h, 1} # {}
      BY <2>2
    <3>2. m \in {h, 1} /\ \A y \in {h, 1} : y <= m
      BY <2>2, <3>1, MaxIsThere
    <3> QED BY <2>2, <3>2
  <2> QED BY <2>1, <2>3 DEF h
<1>4. \A k \in H : k \notin {"season", "lone_season"}
  BY DEF CollectHeadings
<1>5. KeepsPlace(H, Z, X, "body")
  BY DEF CollectsPlaced
<1> HIDE DEF H, X
<1>6. /\ TextUnderItsHeading /\ NoTextLost /\ PageIsPrinted
      /\ \A u \in Units : /\ u.head \in 1 .. at - 1
                          /\ \A i \in DOMAIN u.text : u.text[i][1] # "number"
  BY <1>2, <1>3, <1>4, <1>5, PlaceMeans
<1>7. RitesApart /\ SectionIsPrinted /\ DateIsPrinted
  BY <1>6 DEF RitesApart, SectionIsPrinted, DateIsPrinted
<1> QED BY <1>6, <1>7 DEF InPlace, TextInItsPlace

\* The psalter.
LEMMA PsalterMeans ==
    ASSUME PageRead, book = "psalter", PsalterPlaced PROVE InPlace
<1> DEFINE H == PsalmHeadings
<1>1. book \notin Offices
  BY DEF Offices
<1>2. \A k : Opens(k) <=> html[k] \in H
  BY <1>1 DEF Opens, PsalterOpens, PsalmHeadings
<1>3. \A k : HasText(k) => html[k] \in {"verse"}
  BY <1>1 DEF HasText
<1>4. \A k \in H : k \notin {"season", "lone_season"}
  BY DEF PsalmHeadings
<1>5. KeepsPlace(H, {}, {"verse"}, "verse")
  BY DEF PsalterPlaced
<1> HIDE DEF H
<1>6. /\ TextUnderItsHeading /\ NoTextLost /\ PageIsPrinted
      /\ \A u \in Units : /\ u.head \in 1 .. at - 1
                          /\ \A i \in DOMAIN u.text : u.text[i][1] # "number"
  <2> DEFINE X == {"verse"}
             Z == {}
  <2>1. /\ \A k \in 1 .. at - 1 :
               HeadingOf(k) # 0 /\ HasText(k) => html[k] \in X /\ html[HeadingOf(k)] \notin Z
        /\ KeepsPlace(H, Z, X, "verse")
    BY <1>3, <1>5
  <2> HIDE DEF X, Z
  <2> QED BY <1>2, <1>4, <2>1, PlaceMeans
<1>7. RitesApart /\ SectionIsPrinted /\ DateIsPrinted
  BY <1>6 DEF RitesApart, SectionIsPrinted, DateIsPrinted
<1> QED BY <1>6, <1>7 DEF InPlace, TextInItsPlace

\* The prayers.
LEMMA PrayersMean ==
    ASSUME PageRead, book = "prayers", PrayersPlaced PROVE InPlace
<1> DEFINE H == PrayerHeadings
           X == PrayerTexts
           C == Of(Sections)
<1>1. book \notin Offices
  BY DEF Offices
<1>2. \A k : Opens(k) <=> html[k] \in H
  BY <1>1 DEF Opens, PrayerOpens, PrayerHeadings
<1>3. \A k : HasText(k) => html[k] \in X
  BY <1>1 DEF HasText, PrayerTexts
<1>4. \A k \in H : k \notin {"season", "lone_season"}
  BY DEF PrayerHeadings
<1>5. KeepsPlace(H, {}, X, "body") /\ SectionsRight(C)
  BY DEF PrayersPlaced
<1>6. /\ TextUnderItsHeading /\ NoTextLost /\ PageIsPrinted
      /\ \A u \in Units : /\ u.head \in 1 .. at - 1
                          /\ \A i \in DOMAIN u.text : u.text[i][1] # "number"
  <2> DEFINE Z == {}
  <2> HIDE DEF H, X
  <2>1. /\ \A k \in 1 .. at - 1 :
               HeadingOf(k) # 0 /\ HasText(k) => html[k] \in X /\ html[HeadingOf(k)] \notin Z
        /\ KeepsPlace(H, Z, X, "body")
    BY <1>3, <1>5
  <2> HIDE DEF Z
  <2> QED BY <1>2, <1>4, <2>1, PlaceMeans
<1>7. \A u \in Units : u.section = LastBefore(u.head, {"section", "section_beside"})
  <2>1. ASSUME NEW u \in Units PROVE u.section = LastBefore(u.head, {"section", "section_beside"})
    <3>1. u.head \in 1 .. at - 1 /\ u.section = LatestIn(C, u.head)
      BY <1>5, <1>6, <2>1, UnitsAre DEF SectionsRight
    <3> DEFINE h == u.head
    <3>2. \A j \in 1 .. h : j \in 1 .. at - 1
      BY <3>1, SoFarIs
    <3>3. \A j \in 1 .. h : j \in C <=> html[j] \in Sections /\ (book \in Offices => ~JumpedOver(j))
      BY <1>1, <3>2 DEF Of
    <3> HIDE DEF h, C
    <3>4. LastBefore(h, Sections) = LatestIn(C, h)
      BY <3>3, LastBeforeIs
    <3> QED BY <3>1, <3>4 DEF h, Sections
  <2> QED BY <2>1
<1>8. RitesApart /\ SectionIsPrinted /\ DateIsPrinted
  BY <1>6, <1>7 DEF RitesApart, SectionIsPrinted, DateIsPrinted
<1> QED BY <1>6, <1>8 DEF InPlace, TextInItsPlace

\* What was read last up to an element, of elements of some kinds.
LEMMA LastReadIs ==
    ASSUME PageRead, book \notin Offices, NEW kinds, NEW k \in 1 .. at - 1
    PROVE  LastBefore(k, kinds) = LatestIn(Of(kinds), k)
<1> DEFINE C == Of(kinds)
<1>1. \A j \in 1 .. k : j \in 1 .. at - 1
  BY SoFarIs
<1>2. \A j \in 1 .. k : j \in C <=> html[j] \in kinds /\ (book \in Offices => ~JumpedOver(j))
  BY <1>1 DEF Of
<1> HIDE DEF C
<1>3. LastBefore(k, kinds) = LatestIn(C, k)
  BY <1>2, LastBeforeIs
<1> QED BY <1>3 DEF C

\* The proper liturgies.
LEMMA ProperMeans ==
    ASSUME PageRead, book = "proper_liturgies", ProperInv, ProperPlaced PROVE InPlace
<1> DEFINE n == at - 1
           S == Of(ProperHeadings)
           M == Of({"marker"})
           C == Of(ProperSections)
           One == Of({"h1"})
           P == Of({"psalm"})
<1>1. book \notin Offices /\ book \notin {"collects", "psalter", "prayers", "lff_2024"}
  BY DEF Offices
<1>2. n \in Nat /\ ReadSoFar = 1 .. n
  BY SoFarIs
<1>3. ASSUME NEW k \in 1 .. n PROVE Opens(k) <=> k \in S
  <2>1. k \in Of(ProperKinds)
    BY DEF ProperPlaced
  <2>2. html[k] \in ProperKinds
    BY <2>1 DEF Of
  <2>3. Opens(k) <=> html[k] \notin {"marker", "skip", "h1", "h2"}
    BY <1>1 DEF Opens, ProperOpens
  <2> QED BY <2>2, <2>3 DEF Of, ProperHeadings
<1>4. \A k \in 1 .. n : HeadingOf(k) = LatestIn(S, k)
  BY <1>3, HeadingsAre
<1>5. \A k \in S : k \in 1 .. n /\ HeadingOf(k) = k
  <2>1. ASSUME NEW k \in S PROVE k \in 1 .. n /\ HeadingOf(k) = k
    <3>1. k \in 1 .. n
      BY DEF Of
    <3>2. k \in Nat \ {0} /\ HeadingOf(k) = LatestIn(S, k)
      BY <1>4, <3>1
    <3> HIDE DEF S
    <3>3. LatestIn(S, k) = k
      BY <2>1, <3>2, LatestHere
    <3> QED BY <3>1, <3>2, <3>3
  <2> QED BY <2>1
<1>6. \A u : u \in Units <=> u \in ToSet(results)
  BY UnitsAre DEF ProperInv
<1>7. /\ \A u \in Units : u.head \in S /\ ProperRight(u, M, C, One, P)
      /\ \A h \in S : \E u \in Units : u.head = h
  BY <1>6 DEF ProperPlaced, ShelfRight
<1> HIDE DEF S, n
<1>8. TextUnderItsHeading
  <2>1. ASSUME NEW u \in Units, NEW i \in DOMAIN u.text, u.text[i][1] \notin {"psday", "number"}
        PROVE  HeadingOf(u.text[i][2]) = u.head
    <3>1. u.text[i][2] \in Texts(u) /\ Texts(u) = {u.head} /\ u.head \in S
      BY <1>7, <2>1, UnitsAre DEF Unplaced, ProperRight
    <3> QED BY <1>5, <3>1
  <2> QED BY <2>1 DEF TextUnderItsHeading
<1>9. NoTextLost
  <2>1. ASSUME NEW k \in 1 .. n, HasText(k)
        PROVE  \E u \in Units : u.head = HeadingOf(k) /\ \E i \in DOMAIN u.text : u.text[i][2] = k
    <3>1. Opens(k)
      BY <1>1, <2>1 DEF HasText, Opens, ProperOpens
    <3>2. k \in S
      BY <1>3, <2>1, <3>1
    <3>3. PICK u \in Units : u.head = k
      BY <1>7, <3>2
    <3>4. k \in Texts(u)
      BY <1>7, <3>3 DEF ProperRight
    <3> QED BY <1>5, <3>2, <3>3, <3>4, UnitsAre
  <2> QED BY <1>2, <2>1 DEF NoTextLost
<1>10. ASSUME NEW u \in Units
       PROVE  /\ u.page = LastBefore(u.head, {"marker"})
              /\ LET h == LastBefore(u.head, {"h1", "h2", "h2_id", "strong"})
                 IN  u.section = IF h # 0 /\ html[h] = "h1" THEN 0 ELSE h
              /\ \A i \in DOMAIN u.text :
                    u.text[i][1] = "number" => u.text[i][2] = LastBefore(u.head, {"psalm"})
  <2> DEFINE k == u.head
             x == LatestIn(C, k)
  <2>1. k \in 1 .. n /\ ProperRight(u, M, C, One, P) /\ k \in Nat
    BY <1>2, <1>5, <1>7, <1>10
  <2>2. /\ u.page = LatestIn(M, k) /\ u.section = SectionAt(C, One, k)
        /\ \A i \in DOMAIN u.text : u.text[i][1] = "number" => u.text[i][2] = LatestIn(P, k)
    BY <2>1, UnitsAre DEF ProperRight
  <2> HIDE DEF k
  <2>3. /\ LastBefore(k, {"marker"}) = LatestIn(M, k)
        /\ LastBefore(k, ProperSections) = x
        /\ LastBefore(k, {"psalm"}) = LatestIn(P, k)
    BY <1>1, <2>1, LastReadIs DEF n
  <2>4. x \in One <=> x # 0 /\ html[x] = "h1"
    <3>1. x \in 0 .. k /\ (x # 0 => x \in C)
      <4> HIDE DEF C
      <4> QED BY <2>1, LatestIs
    <3>2. x # 0 => x \in 1 .. n
      BY <3>1 DEF Of, n
    <3>3. x \in One <=> x \in 1 .. n /\ html[x] \in {"h1"}
      BY DEF Of, n
    <3>4. 0 \notin 1 .. n
      BY <1>2
    <3> HIDE DEF x, One, C
    <3> QED BY <3>2, <3>3, <3>4
  <2>5. u.section = IF x # 0 /\ html[x] = "h1" THEN 0 ELSE x
    BY <2>2, <2>4 DEF SectionAt
  <2> HIDE DEF x
  <2>6. LastBefore(k, {"h1", "h2", "h2_id", "strong"}) = x
    BY <2>3 DEF ProperSections
  <2> QED BY <2>2, <2>3, <2>5, <2>6 DEF k
<1>11. PageIsPrinted
  BY <1>10 DEF PageIsPrinted
<1>12. SectionIsPrinted
  BY <1>1, <1>10 DEF SectionIsPrinted
<1>13. RitesApart /\ DateIsPrinted
  BY <1>1 DEF RitesApart, DateIsPrinted
<1> QED BY <1>8, <1>9, <1>11, <1>12, <1>13 DEF InPlace, TextInItsPlace

\* The daily office.
LEMMA OfficesMean ==
    ASSUME PageRead, book \in Offices, OfficePlaced PROVE InPlace
<1> DEFINE n == at - 1
           S == OfficeHeads
           T == OfficeTexts
           W == Wanted
           M == OfficeMarks
           A == Alone
<1>1. book \notin {"collects", "psalter", "prayers", "proper_liturgies", "lff_2024"}
  BY DEF Offices
<1>2. Kept(n, S, T, W, current, ToSet(results)) /\ PagesRight(S, M, A)
  BY DEF OfficePlaced
<1>3. n \in Nat /\ IsSequence(html) /\ \A k \in 1 .. n : k \in 1 .. Len(html)
  BY SoFarIs, AppendIs DEF PageRead
<1>4. \A k : Opens(k) <=> OfficeOpens(k)
  BY <1>1 DEF Opens, OfficeOpens
<1>5. \A k : HeadingOf(k) = HeadAt(k)
  <2>1. ASSUME NEW k PROVE HeadingOf(k) = HeadAt(k)
    <3> DEFINE heads == {j \in 1 .. k : OfficeOpens(j)}
    <3>1. \A j \in 1 .. k : Opens(j) <=> j \in heads
      BY <1>4
    <3>2. HeadAt(k) = LatestIn(heads, k)
      BY DEF HeadAt
    <3> HIDE DEF heads
    <3> QED BY <3>1, <3>2, HeadingIs
  <2> QED BY <2>1
<1>6. \A k \in 1 .. n : Opens(k) <=> k \in S
  BY <1>4 DEF OfficeHeads
<1>7. ASSUME NEW k \in 1 .. n, HeadingOf(k) # 0, HasText(k)
      PROVE  k \in T /\ HeadingOf(k) \in W
  <2>1. \/ TakenBySeason[k] /\ html[k] # "blank"
        \/ /\ html[k] \in {"table", "rubric", "text", "collect"}
           /\ html[k] = "collect" => ~PrayerBelow(k)
           /\ ~JumpedOver(k)
           /\ html[HeadingOf(k)] \notin {"season", "lone_season", "blank_strong"}
    BY <1>1, <1>7 DEF HasText
  <2>2. OfficeHasText(k)
    BY <1>5, <2>1 DEF OfficeHasText
  <2>3. k \in T
    BY <2>2 DEF OfficeTexts
  <2>4. html[HeadingOf(k)] # "blank_strong"
    <3>1. TakenBySeason[k] => html[HeadingOf(k)] = "lone_season"
      BY <1>3, <1>5, TakenStandsUnder
    <3> QED BY <2>1, <3>1
  <2>5. HeadingOf(k) \in 1 .. Len(html)
    <3>1. HeadingOf(k) = LatestIn(S, k) /\ k \in Nat
      BY <1>6, HeadingsAre
    <3> HIDE DEF S
    <3>2. LatestIn(S, k) \in 0 .. k
      BY <3>1, LatestIs
    <3>3. HeadingOf(k) \in 1 .. n
      BY <1>3, <1>7, <3>1, <3>2
    <3> QED BY <1>3, <3>3
  <2> QED BY <2>3, <2>4, <2>5 DEF Wanted
<1>8. M \in SUBSET (1 .. n) /\ \A k \in 1 .. n : k \in M <=> html[k] = "marker" /\ ~JumpedOver(k)
  BY DEF OfficeMarks
<1>9. \A k \in 1 .. n : k \in A <=> html[k] \in {"season", "lone_season"}
  BY <1>3 DEF Alone
<1> HIDE DEF S, T, W, M, A
<1>10. TextUnderItsHeading /\ NoTextLost
  <2>1. Kept(at - 1, S, T, W, current, ToSet(results))
    BY <1>2 DEF n
  <2>2. \A k \in 1 .. at - 1 :
               HeadingOf(k) # 0 /\ HasText(k) /\ IsKept(HeadingOf(k)) =>
                   k \in T /\ (HeadingOf(k) = current.head \/ HeadingOf(k) \in W)
    BY <1>7
  <2> QED BY <1>6, <2>1, <2>2, KeptMeans
<1>11. \A u \in Units : u.head \in 1 .. n /\ \A i \in DOMAIN u.text : u.text[i][1] # "number"
  BY <1>2, NumbersMean
<1>12. PageIsPrinted
  BY <1>1, <1>2, <1>6, <1>8, <1>9, PagesMean
<1>13. RitesApart /\ SectionIsPrinted /\ DateIsPrinted
  BY <1>1, <1>11 DEF RitesApart, SectionIsPrinted, DateIsPrinted
<1> QED BY <1>10, <1>12, <1>13 DEF InPlace, TextInItsPlace

\* The page of the properties.
LEMMA PagesBeforeAre ==
    ASSUME PageRead, NEW k \in 1 .. at - 1
    PROVE  /\ PagesBefore(k) = {} => PageAt(k) = 0
           /\ PagesBefore(k) # {} => PageAt(k) # 0 /\ PageAt(k) = Max(PagesBefore(k))
<1> DEFINE i == k - 1
           P == FeastPagesRead
           seen == {j \in 1 .. i : j \in P}
<1>1. i \in Nat /\ k \in Nat /\ \A j \in 1 .. i : j \in 1 .. at - 1
  BY SoFarIs
<1>2. seen = PagesBefore(k)
  BY <1>1 DEF FeastPagesRead, Of, PagesBefore
<1>3. PageAt(k) = IF seen = {} THEN 0 ELSE Max(seen)
  BY DEF PageAt, LatestIn
<1>4. seen # {} => PageAt(k) # 0
  <2>1. PageAt(k) = LatestIn(P, i)
    BY DEF PageAt
  <2> HIDE DEF i, P
  <2>2. \A j \in 1 .. i : j \in P => LatestIn(P, i) # 0
    BY <1>1, LatestIs
  <2> QED BY <2>1, <2>2
<1> HIDE DEF seen
<1> QED BY <1>2, <1>3, <1>4

\* A life begins, for the property, where it begins for the proof.
LEMMA FeastOpensIs ==
    ASSUME PageRead, book = "lff_2024", NEW k \in 1 .. at - 1
    PROVE  Opens(k) <=> k \in LifeHeads
<1>1. book \notin Offices
  BY DEF Offices
<1>2. Opens(k) <=> FeastOpens(k)
  BY <1>1 DEF Opens, FeastOpens
<1>3. FeastOpens(k) <=> LifeOpens(k)
  BY PagesBeforeAre DEF FeastOpens, LifeOpens
<1> QED BY <1>2, <1>3 DEF LifeHeads

\* The texts of the properties, on the page they stand on.
LEMMA FeastTextIs ==
    ASSUME PageRead, book = "lff_2024", NEW k \in 1 .. at - 1, HeadingOf(k) # 0, HasText(k)
    PROVE  k \in LifeTexts
<1> DEFINE h == HeadingOf(k)
           a == PageAt(k)
           S == LifeHeads
<1>1. book \notin Offices
  BY DEF Offices
<1>2. \/ html[k] = "name" /\ FirstName(k)
      \/ html[k] \in SmallPrint /\ html[Max(PagesBefore(k))] = "bio_page"
      \/ html[k] \in WithText /\ FirstLabel(k)
  BY <1>1 DEF HasText
<1>3. h \in S /\ h \in 1 .. k /\ k \in Nat
  <2>1. h = LatestIn(S, k) /\ k \in Nat
    BY FeastOpensIs, HeadingsAre
  <2> HIDE DEF h, S
  <2>2. LatestIn(S, k) \in 0 .. k /\ (LatestIn(S, k) # 0 => LatestIn(S, k) \in S)
    BY <2>1, LatestIs
  <2> QED BY <2>1, <2>2 DEF h
<1>4. h # k
  <2>1. html[k] \notin FeastPages
    BY <1>2 DEF FeastPages, SmallPrint, WithText
  <2>2. html[h] \in FeastPages
    BY <1>3 DEF LifeHeads, LifeOpens
  <2> QED BY <2>1, <2>2
<1>5. h \in PagesBefore(k)
  <2>1. html[h] \in FeastPages /\ h \in 1 .. k - 1
    BY <1>3, <1>4 DEF LifeHeads, LifeOpens
  <2> QED BY <2>1 DEF PagesBefore
<1>6. a # 0 /\ a = Max(PagesBefore(k))
  BY <1>5, PagesBeforeAre
<1> HIDE DEF a, h
<1>7. FirstName(k) => ~RowEnds(html, a, k)
  BY <1>6 DEF FirstName, RowEnds
<1>8. FirstLabel(k) => /\ html[k - 1] # "name" /\ Seen(html, a, k, {"name"})
                       /\ ~Seen(html, a, k - 1, EarlierLabels(html[k]))
  BY <1>6 DEF FirstLabel, Seen, EarlierLabels
<1>9. LifeHasText(k)
  BY <1>2, <1>6, <1>7, <1>8 DEF LifeHasText, a
<1> QED BY <1>9 DEF LifeTexts

\* RitesKept is what RitesApart says.
LEMMA RitesMean ==
    ASSUME PageRead, LivesKept, RitesKept PROVE RitesApart
<1> DEFINE n == at - 1
<1>1. n \in Nat
  BY SoFarIs
<1>2. ASSUME book = "lff_2024", NEW u \in Units, NEW i \in DOMAIN u.text, NEW j \in DOMAIN u.text
      PROVE  LET p == u.text[i] q == u.text[j]
             IN  /\ p[1] = "rite_ii" /\ q[1] = "rite_i" => p[2] > q[2]
                 /\ p[1] = "rite_i" => \A m \in LastBefore(p[2], {"name"}) .. p[2] :
                       html[m] \in RiteII => html[m] = "II_text" /\ html[m - 1] = "name"
                 /\ p[1] = "rite_ii" => \E m \in u.head .. p[2] : html[m] \in RiteII
                 /\ p[1] = "lessons" /\ q[1] \in {"rite_i", "rite_ii"} => p[2] > q[2]
  <2> DEFINE p == u.text[i]
             q == u.text[j]
             x == LatestIn(LifeNames, p[2])
  <2>1. RitesRight(u) /\ Under(n, LifeHeads, u) /\ p \in Pieces(u) /\ q \in Pieces(u)
    BY <1>2, UnitsAre DEF RitesKept, LivesKept, Kept
  <2>2. /\ p[1] = "rite_ii" /\ q[1] = "rite_i" => p[2] > q[2]
        /\ p[1] = "rite_i" => x # 0 /\ NoRiteTwo(html, x, p[2])
        /\ p[1] = "rite_ii" => Seen(html, u.head, p[2], RiteII)
        /\ p[1] = "lessons" /\ q[1] \in Rites => p[2] > q[2]
    BY <2>1 DEF RitesRight
  <2>3. p[1] = "rite_i" => p[2] \in 1 .. n
    <3>1. p[1] = "rite_i" => p[2] \in Texts(u)
      BY <1>2, UnitsAre DEF Unplaced
    <3> QED BY <2>1, <3>1 DEF Under
  <2>4. ASSUME p[1] = "rite_i", NEW m \in LastBefore(p[2], {"name"}) .. p[2], html[m] \in RiteII
        PROVE  html[m] = "II_text" /\ html[m - 1] = "name"
    <3> DEFINE k == p[2]
    <3>1. k \in 1 .. n /\ book \notin Offices /\ k \in Nat
      BY <1>1, <1>2, <2>3, <2>4 DEF Offices
    <3> HIDE DEF p
    <3>2. LastBefore(k, {"name"}) = x
      BY <3>1, LastReadIs DEF LifeNames, n
    <3>3. x \in LifeNames /\ x \in 0 .. k
      <4> HIDE DEF k
      <4>1. LatestIn(LifeNames, k) \in 0 .. k /\ (LatestIn(LifeNames, k) # 0 => LatestIn(LifeNames, k) \in LifeNames)
        BY <3>1, LatestIs
      <4> QED BY <2>2, <2>4, <4>1 DEF k
    <3>4. html[x] = "name"
      BY <3>3 DEF LifeNames, Of
    <3> HIDE DEF k, x
    <3>5. m # x
      BY <2>4, <3>4 DEF RiteII
    <3>6. m \in x .. k /\ m \in x + 1 .. k
      <4>1. m \in x .. k
        BY <2>4, <3>2 DEF k
      <4> QED BY <3>1, <3>3, <3>5, <4>1
    <3> QED BY <2>2, <2>4, <3>6 DEF NoRiteTwo, k
  <2>5. p[1] = "rite_ii" => \E m \in u.head .. p[2] : html[m] \in RiteII
    BY <2>2 DEF Seen
  <2>6. p[1] = "lessons" /\ q[1] \in {"rite_i", "rite_ii"} => p[2] > q[2]
    BY <2>2 DEF Rites
  <2> QED BY <2>2, <2>4, <2>5, <2>6
<1> QED BY <1>2 DEF RitesApart

\* DatesKept is what DateIsPrinted says.
LEMMA DatesMean ==
    ASSUME PageRead, book = "lff_2024", LivesKept, DatesKept, LivesBegin PROVE DateIsPrinted
<1> DEFINE n == at - 1
           P == FeastPagesRead
           D == LifeDates
           S == LifeHeads
<1>1. n \in Nat /\ ReadSoFar = 1 .. n
  BY SoFarIs
<1>2. \A u \in Units : u.head \in 1 .. n /\ DateRight(u) /\ u.head \in P
  BY UnitsAre DEF DatesKept, LivesKept, Kept, Under, LivesBegin
<1>3. \A k \in 1 .. n : HeadingOf(k) = LatestIn(S, k)
  BY FeastOpensIs, HeadingsAre
<1>4. ASSUME NEW u \in Units, u.section # 0
      PROVE  /\ html[u.section] = "date"
             /\ HeadingOf(u.section) = u.head \/ u.section < u.head
             /\ \A j \in u.head .. EndOfFirstPage(u.head) : html[j] = "date" => u.section \in u.head .. j
  <2> DEFINE h == u.head
             next == {j \in ReadSoFar : j > h /\ html[j] \in FeastPages}
             last == EndOfFirstPage(h)
  <2>1. /\ u.section \in D /\ (LatestIn(S, u.section) = h \/ u.section < h)
        /\ \A j \in D : LatestIn(P, j) = h => u.section \in h .. j
    BY <1>2, <1>4 DEF DateRight
  <2>2. u.section \in 1 .. n /\ html[u.section] = "date"
    BY <2>1 DEF LifeDates, Of
  <2>3. h \in 1 .. n /\ h \in P /\ h \in Nat /\ h # 0
    BY <1>1, <1>2, <1>4
  <2>4. last = IF next = {} THEN Max(ReadSoFar) ELSE Min(next) - 1
    BY DEF EndOfFirstPage
  <2>5. next \in SUBSET Nat /\ next \in SUBSET (1 .. n)
    BY <1>1
  <2>6. \A j \in 1 .. n : j \in next <=> j > h /\ j \in P
    BY <1>1 DEF FeastPagesRead, Of
  <2> HIDE DEF h, next, last
  <2>7. last \in Nat /\ last <= n /\ \A i \in next : last < i
    <3>1. CASE next = {}
      <4>1. Max(1 .. n) \in 1 .. n
        <5>1. 1 .. n \in SUBSET (1 .. n) /\ 1 .. n # {}
          BY <2>3
        <5> DEFINE all == 1 .. n
        <5>2. all \in SUBSET (1 .. n) /\ all # {}
          BY <5>1
        <5> HIDE DEF all
        <5>3. Max(all) \in all
          BY <1>1, <5>2, MaxIsThere
        <5> QED BY <5>3 DEF all
      <4>2. last = Max(1 .. n)
        BY <1>1, <2>4, <3>1
      <4> QED BY <1>1, <3>1, <4>1, <4>2
    <3>2. CASE next # {}
      <4> DEFINE m == Min(next)
      <4>1. m \in next /\ \A i \in next : m <= i
        BY <2>5, <3>2, MinIsThere
      <4>2. m \in 1 .. n /\ last = m - 1
        BY <2>4, <2>5, <3>2, <4>1
      <4> HIDE DEF m
      <4>3. \A i \in next : i \in Nat
        BY <2>5
      <4> QED BY <1>1, <4>1, <4>2, <4>3
    <3> QED BY <3>1, <3>2
  <2>8. ASSUME NEW j \in h .. last, html[j] = "date" PROVE u.section \in h .. j
    <3>1. j \in 1 .. n /\ j \in Nat /\ h <= j
      BY <1>1, <2>3, <2>7, <2>8
    <3>2. j \in D
      BY <2>8, <3>1 DEF LifeDates, Of
    <3>3. \A i \in 1 .. j : i \in P => i <= h
      <4>1. ASSUME NEW i \in 1 .. j, i \in P, i > h PROVE FALSE
        <5>1. i \in 1 .. n
          BY <1>1, <3>1, <4>1
        <5>2. i \in next
          BY <2>6, <4>1, <5>1
        <5>3. last < i /\ i <= j /\ j <= last
          BY <2>7, <2>8, <3>1, <4>1, <5>2
        <5> QED BY <2>7, <3>1, <4>1, <5>3
      <4> QED BY <2>3, <3>1, <4>1
    <3>4. h \in 0 .. j
      BY <2>3, <3>1
    <3> HIDE DEF P, D
    <3>5. LatestIn(P, j) = h
      BY <2>3, <3>1, <3>3, <3>4, LatestUnique
    <3> QED BY <2>1, <3>2, <3>5
  <2> QED BY <1>3, <2>1, <2>2, <2>8 DEF h, last
<1> QED BY <1>4 DEF DateIsPrinted

\* The lives.
LEMMA LivesMean ==
    ASSUME PageRead, book = "lff_2024", LivesPlaced PROVE InPlace
<1> DEFINE n == at - 1
           S == LifeHeads
           T == LifeTexts
           W == LifeNamed
<1>1. book \notin Offices
  BY DEF Offices
<1>2. Kept(n, S, T, W, current, ToSet(results)) /\ LivesKept /\ RitesKept /\ DatesKept /\ LivesBegin
  BY DEF LivesPlaced, LivesKept
<1>3. \A k \in 1 .. n : Opens(k) <=> k \in S
  BY FeastOpensIs
<1>4. \A k \in 1 .. n : HeadingOf(k) = LatestIn(S, k)
  BY <1>3, HeadingsAre
<1>5. ASSUME NEW h, IsKept(h) PROVE h = current.head \/ h \in W
  <2>1. SUFFICES ASSUME h # current.head PROVE h \in W
    OBVIOUS
  <2>2. PICK j \in ReadSoFar : HeadingOf(j) = h /\ html[j] \in BodyKinds
    BY <1>1, <1>5, <2>1 DEF IsKept
  <2>3. j \in 1 .. n /\ j \in Of({"name"}) /\ LatestIn(S, j) = h
    BY <1>4, <2>2, SoFarIs DEF BodyKinds, Of
  <2> QED BY <2>3 DEF LifeNamed
<1> HIDE DEF S, W
<1>6. TextUnderItsHeading /\ NoTextLost
  <2>1. \A k \in 1 .. n :
               HeadingOf(k) # 0 /\ HasText(k) /\ IsKept(HeadingOf(k)) =>
                   k \in T /\ (HeadingOf(k) = current.head \/ HeadingOf(k) \in W)
    BY <1>5, FeastTextIs
  <2> HIDE DEF T
  <2> QED BY <1>2, <1>3, <2>1, KeptMeans
<1>7. \A u \in Units : \A i \in DOMAIN u.text : u.text[i][1] # "number"
  <2> HIDE DEF n, T
  <2> QED BY <1>2, NumbersMean
<1>8. RitesApart /\ DateIsPrinted
  BY <1>2, RitesMean, DatesMean
<1>9. PageIsPrinted /\ SectionIsPrinted
  BY <1>7 DEF PageIsPrinted, SectionIsPrinted
<1> QED BY <1>6, <1>8, <1>9 DEF InPlace, TextInItsPlace

-----------------------------------------------------------------------------
(* The invariant, and the two theorems.                                     *)

PlaceInv ==
    /\ book \in Offices => OfficePlaced
    /\ book = "collects" => CollectsPlaced
    /\ book = "psalter" => PsalterPlaced
    /\ book = "proper_liturgies" => ProperPlaced
    /\ book = "prayers" => PrayersPlaced
    /\ book = "lff_2024" => LivesPlaced
    /\ book \notin Offices \cup {"collects", "psalter", "proper_liturgies", "prayers", "lff_2024"} =>
           at = 1 /\ current = NoUnit /\ results = <<>>

\* It holds of a page that is not read yet,
LEMMA PlaceInitially == BookInit => PlaceInv
<1> SUFFICES ASSUME BookInit PROVE PlaceInv
  OBVIOUS
<1>1. /\ at = 1 /\ state = "idle" /\ current = NoUnit /\ page = 0 /\ section = 0
      /\ pending = <<>> /\ results = <<>> /\ at - 1 = 0 /\ state # "done"
  BY DEF BookInit
<1>2. ToSet(results) = {} /\ ToSet(pending) = {}
  BY <1>1 DEF ToSet
<1>3. 1 .. at - 1 = {} /\ 0 \in Nat
  BY <1>1
<1>4. \A kinds : Of(kinds) = {}
  BY <1>3 DEF Of
<1>5. \A S : LatestIn(S, 0) = 0
  <2>1. ASSUME NEW S PROVE LatestIn(S, 0) = 0
    <3>1. LatestIn(S, 0) \in 0 .. 0
      BY <1>3, LatestIs
    <3> QED BY <3>1
  <2> QED BY <2>1
<1>6. \A S, W : Kept(at - 1, S, {}, W, current, ToSet(results))
  BY <1>1, <1>2 DEF Kept
<1>7. \A S, M, A : PagesRight(S, M, A)
  BY <1>1, <1>2, <1>5 DEF PagesRight, Paged
<1>8. \A H, Z, X, part : KeepsPlace(H, Z, X, part)
  BY <1>1, <1>4, <1>5, <1>6, <1>7 DEF KeepsPlace
<1>9. CollectsPlaced
  BY <1>8 DEF CollectsPlaced
<1>10. PsalterPlaced
  BY <1>1, <1>2, <1>8 DEF PsalterPlaced, Waiting
<1>11. PrayersPlaced
  BY <1>1, <1>2, <1>5, <1>8 DEF PrayersPlaced, SectionsRight
<1>12. ProperPlaced
  <2>1. PsalmNumber = 0
    BY <1>1 DEF PsalmNumber
  <2>2. \A S, M, C, One, P : ShelfRight({}, M, C, One, P, ToSet(results))
    BY <1>2 DEF ShelfRight
  <2>3. \A C : SectionAt(C, {}, 0) = 0
    BY <1>5 DEF SectionAt
  <2> QED BY <1>1, <1>3, <1>4, <1>5, <2>1, <2>2, <2>3 DEF ProperPlaced
<1>13. book \in Offices => OfficePlaced
  <2>1. SUFFICES ASSUME book \in Offices PROVE OfficePlaced
    OBVIOUS
  <2>2. Len(html) = Longest[book]
    BY <2>1, OfficeAssumption DEF BookInit
  <2>3. SeasonsOver(at) /\ OfficeTexts = {}
    BY <1>3 DEF SeasonsOver, OfficeTexts
  <2> QED BY <1>1, <1>5, <1>6, <1>7, <2>2, <2>3 DEF OfficePlaced
<1>14. LivesPlaced
  <2>1. PageKnown
    BY <1>1, <1>5 DEF PageKnown
  <2>2. Machine
    BY <1>1, <2>1 DEF Machine
  <2>3. LifeTexts = {} /\ LifeDates = {}
    BY <1>3, <1>4 DEF LifeTexts, LifeDates
  <2>4. LivesKept
    BY <1>1, <1>6, <2>3 DEF LivesKept
  <2>5. RitesKept /\ DatesKept /\ LivesBegin
    BY <1>1, <1>2, <2>3 DEF RitesKept, DatesKept, LivesBegin
  <2> QED BY <2>2, <2>4, <2>5 DEF LivesPlaced
<1> QED BY <1>1, <1>9, <1>10, <1>11, <1>12, <1>13, <1>14 DEF PlaceInv

\* when nothing happens,
LEMMA PlaceStays == PlaceInv /\ UNCHANGED bookVars => PlaceInv'
<1> SUFFICES ASSUME PlaceInv, UNCHANGED bookVars PROVE PlaceInv'
  OBVIOUS
<1>1. UNCHANGED <<book, html, at, state, current, page, section, pending, results>>
  BY DEF bookVars
<1>2. \A kinds : Of(kinds)' = Of(kinds)
  BY <1>1, OfStays
<1>3. \A S, M, A : PagesRight(S, M, A)' <=> PagesRight(S, M, A)
  BY <1>1 DEF PagesRight
<1>4. CollectsPlaced => CollectsPlaced'
  BY <1>1, <1>2, <1>3 DEF CollectsPlaced, KeepsPlace
<1>5. PsalterPlaced => PsalterPlaced'
  BY <1>1, <1>2, <1>3 DEF PsalterPlaced, KeepsPlace, Waiting
<1>6. PrayersPlaced => PrayersPlaced'
  BY <1>1, <1>2, <1>3 DEF PrayersPlaced, KeepsPlace, SectionsRight
<1>7. ProperPlaced => ProperPlaced'
  BY <1>1, <1>2 DEF ProperPlaced, PsalmNumber
<1>8. OfficePlaced => OfficePlaced'
  <2>1. /\ TakenBySeason' = TakenBySeason
        /\ \A k : /\ OfficeOpens(k)' <=> OfficeOpens(k)
                  /\ JumpedOver(k)' <=> JumpedOver(k)
                  /\ OfficeHasText(k)' <=> OfficeHasText(k)
                  /\ SentenceBelow(k)' = SentenceBelow(k)
        /\ Alone' = Alone /\ Wanted' = Wanted
    BY <1>1, SamePage
  <2>2. OfficeHeads' = OfficeHeads /\ OfficeMarks' = OfficeMarks /\ OfficeTexts' = OfficeTexts
    BY <1>1, <2>1 DEF OfficeHeads, OfficeMarks, OfficeTexts
  <2>3. SeasonsOver(at)' <=> SeasonsOver(at)
    BY <1>1, <2>1 DEF SeasonsOver
  <2> QED BY <1>1, <1>3, <2>1, <2>2, <2>3 DEF OfficePlaced
<1>9. LivesPlaced => LivesPlaced'
  <2>1. UNCHANGED <<LifeHeads, LifeTexts, LifeNames, LifeNamed, FeastPagesRead, LifeDates>>
    BY <1>1, <1>2, LifeStill DEF LifeDates
  <2>2. Machine => Machine'
    BY <1>1, <2>1 DEF Machine, PageKnown
  <2>3. LivesKept => LivesKept'
    BY <1>1, <2>1 DEF LivesKept
  <2>4. RitesKept => RitesKept'
    BY <1>1, <2>1 DEF RitesKept, RitesRight
  <2>5. DatesKept => DatesKept'
    BY <1>1, <2>1 DEF DatesKept, DateRight
  <2>6. LivesBegin => LivesBegin'
    BY <1>1, <2>1 DEF LivesBegin
  <2> QED BY <2>2, <2>3, <2>4, <2>5, <2>6 DEF LivesPlaced
<1> QED BY <1>1, <1>4, <1>5, <1>6, <1>7, <1>8, <1>9 DEF PlaceInv

\* and after every step of every parser;
LEMMA PlaceKeeps == BookInv /\ PlaceInv /\ [ParserNext]_bookVars => PlaceInv'
<1> SUFFICES ASSUME BookInv, PlaceInv, ParserNext PROVE PlaceInv'
  BY PlaceStays
<1>1. PageRead
  BY DEF BookInv
<1>2. CASE book \in Offices /\ OfficeNext
  <2>1. OfficePlaced' /\ book' = book
    BY <1>1, <1>2, OfficePlace, OfficeKeep DEF PlaceInv
  <2> QED BY <1>2, <2>1 DEF PlaceInv, Offices
<1>3. CASE book = "collects" /\ CollectsNext
  <2>1. CollectsPlaced' /\ book' = book
    BY <1>1, <1>3, CollectsPlace, CollectsKeep DEF PlaceInv, BookInv
  <2> QED BY <1>3, <2>1 DEF PlaceInv, Offices
<1>4. CASE book = "psalter" /\ PsalterNext
  <2>1. PsalterPlaced' /\ book' = book
    BY <1>1, <1>4, PsalterPlace, PsalterKeep DEF PlaceInv, BookInv
  <2> QED BY <1>4, <2>1 DEF PlaceInv, Offices
<1>5. CASE book = "proper_liturgies" /\ ProperNext
  <2>1. ProperPlaced' /\ book' = book
    BY <1>1, <1>5, ProperPlace, ProperKeep DEF PlaceInv, BookInv
  <2> QED BY <1>5, <2>1 DEF PlaceInv, Offices
<1>6. CASE book = "prayers" /\ PrayersNext
  <2>1. PrayersPlaced' /\ book' = book
    BY <1>1, <1>6, PrayersPlace, PrayersKeep DEF PlaceInv, BookInv
  <2> QED BY <1>6, <2>1 DEF PlaceInv, Offices
<1>7. CASE book = "lff_2024" /\ FeastsNext
  <2>1. LivesPlaced' /\ book' = book
    BY <1>1, <1>7, LivesPlace, LivesKeep DEF PlaceInv, BookInv
  <2> QED BY <1>7, <2>1 DEF PlaceInv, Offices
<1> QED BY <1>2, <1>3, <1>4, <1>5, <1>6, <1>7 DEF ParserNext

\* and it says what the properties say.
LEMMA PlaceIsRight == BookInv /\ PlaceInv => InPlace
<1> SUFFICES ASSUME BookInv, PlaceInv PROVE InPlace
  OBVIOUS
<1>1. PageRead
  BY DEF BookInv
<1>2. CASE book \in Offices
  BY <1>1, <1>2, OfficesMean DEF PlaceInv
<1>3. CASE book = "collects"
  BY <1>1, <1>3, CollectsMean DEF PlaceInv
<1>4. CASE book = "psalter"
  BY <1>1, <1>4, PsalterMeans DEF PlaceInv
<1>5. CASE book = "proper_liturgies"
  BY <1>1, <1>5, ProperMeans DEF PlaceInv, BookInv
<1>6. CASE book = "prayers"
  BY <1>1, <1>6, PrayersMean DEF PlaceInv
<1>7. CASE book = "lff_2024"
  BY <1>1, <1>7, LivesMean DEF PlaceInv
<1>8. CASE book \notin Offices \cup {"collects", "psalter", "proper_liturgies", "prayers", "lff_2024"}
  <2>1. at = 1 /\ current = NoUnit /\ results = <<>>
    BY <1>8 DEF PlaceInv
  <2>2. Units = {}
    BY <2>1 DEF Units, ToSet
  <2>3. ReadSoFar = {}
    BY <1>1, <2>1, SoFarIs
  <2>4. TextInItsPlace
    BY <2>2 DEF TextInItsPlace, TextUnderItsHeading, RitesApart, PageIsPrinted, SectionIsPrinted, DateIsPrinted
  <2>5. NoTextLost
    BY <2>3 DEF NoTextLost
  <2> QED BY <2>4, <2>5 DEF InPlace
<1> QED BY <1>2, <1>3, <1>4, <1>5, <1>6, <1>7, <1>8

\* so that the properties hold at any time.
LEMMA AlwaysPlaced == ParserSpec => []InPlace
<1>1. BookInit => BookInv
  BY BookInitially
<1>2. BookInv /\ [ParserNext]_bookVars => BookInv'
  BY ParserStep
<1> QED BY <1>1, <1>2, PlaceInitially, PlaceKeeps, PlaceIsRight, PTL DEF ParserSpec

\* Of any page, however long, every text a parser keeps goes to the unit whose heading
\* it stands under, in the lives to its rite, and what a unit says of its page, its section
\* and its date is what is printed: for the six parsers, with the page markers, seasonal
\* sentences and running dates that are taken from elsewhere.
THEOREM TextIsInItsPlace == ParserSpec => []TextInItsPlace
<1>1. InPlace => TextInItsPlace
  BY DEF InPlace
<1> QED BY <1>1, AlwaysPlaced, PTL

\* Of any page, however long, no text under a heading is lost: it is at any time in the
\* unit of that heading, in hand or emitted, if the heading has a name and its unit a body
\* where the parser asks for one.
THEOREM TextIsNeverLost == ParserSpec => []NoTextLost
<1>1. InPlace => NoTextLost
  BY DEF InPlace
<1> QED BY <1>1, AlwaysPlaced, PTL
=============================================================================
