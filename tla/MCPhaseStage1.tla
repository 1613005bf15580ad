---------------------------- MODULE MCPhaseStage1 ----------------------------
(* Model values for the Stage 1 phase runner. *)
EXTENDS PhaseStage1, TLC

CONSTANTS wren, ash, hearth, market

MCCharacters == {wren, ash}
MCPlaces == {hearth, market}

\* A patrol and a journey that end in the first phase, or later when interrupted.
Journey(due) == [kind |-> "travel", to |-> market, due |-> due, status |-> "active", version |-> 0]
Patrol == [kind |-> "patrol", to |-> Nothing, due |-> 1, status |-> "active", version |-> 0]
MCUndertakings == {Patrol, Journey(1)}
MCNoUndertakings == {NoActivity}

MCOfferedOne == <<{"wait", "move"}>>
MCOffered == <<{"wait", "move", "spar"}, {"wait", "talk"}>>
=============================================================================
