---------------------------- MODULE MCPhaseStage0 ----------------------------
(* Model values for the Stage 0 phase runner. *)
EXTENDS PhaseStage0, TLC

CONSTANTS c1, c2, k1, k2, k3, orchestrator

MCOneCall == {c1}
MCTwoCalls == {c1, c2}
MCKeys == {k1, k2, k3}
MCOwners == {orchestrator}

\* Overlapping calls are followed through the first phase, without faults;
\* calls one after the other through both.
\* Two calls need two keys.
MCBound ==
    overlapped => /\ clock < MaxIndex /\ faults = 0 /\ edits = 0
                  /\ \A c \in Calls : call[c].key # k3
=============================================================================
