--------------------------- MODULE MCExecutionSlot ---------------------------
(* Model values for the admission of one phase scope. *)
EXTENDS ExecutionSlot, TLC

CONSTANTS o1, o2, o3

MCOwners == {o1, o2, o3}

\* Everywhere a request can die.
AnyStep == {"create", "claim", "reset", "reclaim"} \cup Holding
=============================================================================
