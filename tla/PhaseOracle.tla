----------------------------- MODULE PhaseOracle -----------------------------
(***************************************************************************)
(* What a phase expects of its models, whatever they do: the decisions of  *)
(* a stage are all taken before the next stage looks at them, a call that  *)
(* is at work ends, and one that broke off starts over (or, when all that  *)
(* is canon was done, only reports).                                       *)
(***************************************************************************)
EXTENDS Naturals, Sequences

CONSTANT Stages  \* the sets of decisions, in order

VARIABLES stage, given

vars == <<stage, given>>

Working == stage \in 1..Len(Stages)

Init == stage = 1 /\ given = {}

Give == \E d \in Stages[stage] \ given : given' = given \cup {d} /\ UNCHANGED stage

Proceed == given = Stages[stage] /\ stage' = stage + 1 /\ given' = {}

BreakOff == stage' = 0 /\ given' = {}

StartOver == stage = 0 /\ stage' \in {1, Len(Stages) + 1} /\ given' = {}

Next == (Working /\ (Give \/ Proceed \/ BreakOff)) \/ StartOver

Spec == Init /\ [][Next]_vars /\ WF_vars(Working /\ (Give \/ Proceed))
=============================================================================
