------------------------------ MODULE Genealogy ------------------------------
(***************************************************************************)
(* What a fired schedule does to a family (application/macro/genealogy.py):*)
(* births, deaths, and the passing of focus slots to an heir, as operators *)
(* on a house: who lives, since and until when, and the rows of each focus *)
(* slot in the order they were inserted.                                   *)
(***************************************************************************)
EXTENDS Naturals, Sequences, FiniteSets, SequencesExt

CONSTANTS
    Persons, Slots,
    Parents,       \* parents of each person, in the birth's payload
    Eligible,      \* persons whose record says succession_eligible
    Recorded       \* persons with a lineage record once they are born

ASSUME GenealogyAssumption ==
    /\ IsFiniteSet(Persons) /\ IsFiniteSet(Slots)
    /\ Parents \in [Persons -> SUBSET Persons]
    /\ Eligible \subseteq Recorded /\ Recorded \subseteq Persons

Life == {"unborn", "alive", "dead"}

House == [life : [Persons -> Life], born : [Persons -> Nat], died : [Persons -> Nat],
          focus : [Slots -> Seq([to : Persons, effective : Nat])]]

\* list_focus orders by effective_absolute alone: of rows with the same one the
\* database may give the newest first or the oldest.
Holders(rows, newest) ==
    LET latest == {k \in DOMAIN rows : \A j \in DOMAIN rows : rows[j].effective <= rows[k].effective}
    IN  {rows[k].to : k \in {k \in latest : \A j \in latest : IF newest THEN j <= k ELSE k <= j}}

Holds(house, slot, p, newest) == p \in Holders(house.focus[slot], newest)

\* Mutant: the search does not pass through who is not eligible.
Linked_Eligible(house) == {c \in Eligible : house.life[c] # "unborn"}

\* Links are made with the child.
Linked(house) == {c \in Recorded : house.life[c] # "unborn"}

\* Lines of descent from p, through persons of S: each member is a child of the
\* one before.  A line that meets nobody twice is no longer than there are persons.
Lines(p, S) ==
    UNION {{line \in [1..n -> S] :
                \A k \in 1..n : (IF k = 1 THEN p ELSE line[k - 1]) \in Parents[line[k]]}
           : n \in 1..Cardinality(Persons)}

\* The search goes generation by generation, within one by the order of the
\* parents, then by birth.
Sooner(house, a, b) ==
    \/ Len(a) < Len(b)
    \/ /\ Len(a) = Len(b)
       /\ \E k \in DOMAIN a : /\ house.born[a[k]] < house.born[b[k]]
                              /\ \A j \in 1..(k - 1) : a[j] = b[j]

\* find_heir: who is found first; more than one only among those born at once,
\* whom the database may list in any order.
Heirs(house, p) ==
    LET fit == {line \in Lines(p, Linked(house)) :
                    Last(line) \in Eligible /\ house.life[Last(line)] = "alive"}
    IN  {Last(line) : line \in {a \in fit : \A b \in fit : ~Sooner(house, b, a)}}

Assigned(house, slot, p, at) ==
    [house EXCEPT !.focus[slot] = Append(@, [to |-> p, effective |-> at])]

\* _apply_birth: a child that is there already is left alone.
Birth(house, p, at) ==
    IF house.life[p] # "unborn" THEN house
    ELSE [house EXCEPT !.life[p] = "alive", !.born[p] = at]

\* _succeed_focus: every slot held by the dead goes to the heir, if there is one.
Succeeded(house, p, at, newest) ==
    [house EXCEPT !.focus = [slot \in Slots |->
        IF Holds(house, slot, p, newest) /\ Heirs(house, p) # {}
        THEN Append(@[slot], [to |-> CHOOSE h \in Heirs(house, p) : TRUE, effective |-> at])
        ELSE @[slot]]]

\* _apply_death: who is dead already dies no second time.
Death(house, p, at, newest) ==
    IF house.life[p] = "dead" THEN house
    ELSE Succeeded([house EXCEPT !.life[p] = "dead", !.died[p] = at], p, at, newest)

\* The rows of its parents must be there for the links of a child.
Orphan(house, p) == \E q \in Parents[p] : house.life[q] = "unborn"

\* A death needs a lineage record (a record, a birth), and may not be dated
\* before the birth.
Raises(house, kind, p, at) ==
    \/ kind = "birth" /\ house.life[p] = "unborn" /\ Orphan(house, p)
    \/ /\ kind = "death"
       /\ \/ p \notin Recorded \/ house.life[p] = "unborn"
          \/ house.life[p] = "alive" /\ at < house.born[p]

\* apply_schedule_consequence
Consequence(house, kind, p, at, newest) ==
    CASE kind = "birth" -> Birth(house, p, at)
      [] kind = "death" -> Death(house, p, at, newest)
      [] OTHER -> house

\* _assign_focus: recorded characters need eligibility, and a succession must
\* change the holder.
MayAssign(house, slot, p, newest) ==
    /\ house.life[p] # "unborn"
    /\ p \in Recorded /\ slot # "companion" => p \in Eligible
    /\ ~Holds(house, slot, p, newest)

\* Descendants of p, whoever lives.
Descendants(p) == {Last(line) : line \in Lines(p, Recorded)}
=============================================================================
