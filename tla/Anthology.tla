------------------------------ MODULE Anthology ------------------------------
(***************************************************************************)
(* What a parser promises of a book it reads once, from the first element  *)
(* to the last: it works on one unit at a time and adds to it only what it *)
(* has just read. A finished unit is on the shelf and stays as it is.      *)
(***************************************************************************)
EXTENDS Integers, FiniteSets

CONSTANTS Element, Nobody

VARIABLES
    read,    \* elements read so far
    open,    \* the unit being put together, [head |-> ..., text |-> set of elements]
    shelf    \* the set of finished units

Unit == [head : Element, text : SUBSET Element]

AnthologyInit == read = 0 /\ open = Nobody /\ shelf = {}

JustRead == read + 1 .. read'

\* The unit put together grows by nothing but what was just read.
Continues(unit) ==
    /\ unit.head = open.head
    /\ open.text \subseteq unit.text
    /\ unit.text \ open.text \subseteq JustRead

\* A unit that began with what was just read.
IsNew(unit) == unit.head \in JustRead /\ unit.text \subseteq JustRead

ReadOn ==
    /\ read' >= read
    /\ \/ open' = Nobody
       \/ open' # Nobody /\ IsNew(open')
       \/ open # Nobody /\ open' # Nobody /\ Continues(open')
    /\ shelf \subseteq shelf'
    /\ \A unit \in shelf' \ shelf : unit = open \/ IsNew(unit)
    \* a unit that holds a text is not thrown away
    /\ open # Nobody /\ (open' = Nobody \/ open'.head # open.head)
         => open.text = {} \/ open \in shelf'

AnthologySpec == AnthologyInit /\ [][ReadOn]_<<read, open, shelf>>
=============================================================================
