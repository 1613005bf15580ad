---------------------------- MODULE MCMacroPeriod ----------------------------
(* Model values for the macro engine. *)
EXTENDS MacroPeriod, TLC

CONSTANTS ada, bo, cy, birth, death, raid

MCPersons == {ada, bo, cy}
MCSlots == {"main"}
MCParents == (ada :> {}) @@ (bo :> {ada}) @@ (cy :> {bo})
MCEligible == {ada, cy}

\* Ada holds the slot; her child Bo is not eligible, Bo's child Cy is to be born
\* in the first day; Ada dies in the second; a raid is a major event.
MCSchedules == {birth, death, raid}
MCSchedule ==
    (birth :> [due |-> 1, kind |-> "birth", who |-> cy, salient |-> FALSE])
    @@ (death :> [due |-> 2, kind |-> "death", who |-> ada, salient |-> FALSE])
    @@ (raid :> [due |-> 3, kind |-> "note", who |-> ada, salient |-> TRUE])
MCFounding ==
    [life |-> (ada :> "alive") @@ (bo :> "alive") @@ (cy :> "unborn"),
     born |-> [p \in MCPersons |-> 0], died |-> [p \in MCPersons |-> 0],
     focus |-> [s \in MCSlots |-> <<[to |-> ada, effective |-> 0]>>]]

ASSUME MCDated == Dated
=============================================================================
