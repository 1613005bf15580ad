------------------------------ MODULE Judgement ------------------------------
(***************************************************************************)
(* What the code makes of a model's answer, role by role (the graphs of    *)
(* application/graphs and the pure rules they call).  An answer is parsed  *)
(* against a schema, then judged by a deterministic check; what is not     *)
(* accepted is repaired while the budget lasts or replaced by a fallback   *)
(* that asks nobody.                                                       *)
(*                                                                         *)
(* An answer is a record with a field ok: FALSE for text no schema accepts *)
(* and for a provider that gave none.  Prompts and wording are left out.   *)
(***************************************************************************)
EXTENDS Integers, FiniteSets, SequencesExt

CONSTANTS
    Characters, Places, Nobody,  \* Nobody: an optional identifier left out
    Where,          \* place of each character in the sealed snapshot
    Routes,         \* pairs of places joined by a route
    RepairBudget,   \* repair_budget of every graph
    BeatBudget,     \* beat_budget of a scene
    MaxHooks, Cooldown

ASSUME JudgementAssumption ==
    /\ Nobody \notin Characters \cup Places
    /\ Where \in [Characters -> Places] /\ Routes \subseteq Places \X Places
    /\ {RepairBudget, BeatBudget, MaxHooks, Cooldown} \subseteq Nat

Broken == [ok |-> FALSE, error |-> FALSE]
NoReply == [ok |-> FALSE, error |-> TRUE]

Wait(c) == [ok |-> TRUE, family |-> "wait", who |-> c, to |-> Nobody]

\* precheck_action: the answer names only what its author may name.
Precheck(a) ==
    /\ a.family = "move" => a.to \in Places
    /\ a.family \in {"communicate", "spar", "transfer"} => a.to \in Characters
    /\ a.family = "appeal" => a.to \in Places \cup {Nobody}

CharacterAnswer_Unchecked(c, reply) == IF reply.ok THEN reply ELSE Wait(c)

CharacterAnswer(c, reply) ==
    IF reply.ok /\ Precheck(reply) THEN reply ELSE Wait(c)

\* check_eligibility; absent perceivers are reactors only where the event is.
Eligible(reactor, actor, beats, participants) ==
    /\ reactor # actor /\ beats >= 1
    /\ reactor \in participants \/ Where[reactor] = Where[actor]

ReactionRepairs(beats) == IF beats >= 2 THEN RepairBudget ELSE 0

ReactionAnswer(reply) == IF reply.ok /\ Precheck(reply) THEN {reply} ELSE {}

-----------------------------------------------------------------------------
(* Resolution: what each intent allows, and what the resolver may add. *)

Feasible(a) ==
    /\ a.family \in {"communicate", "spar", "transfer"} => a.to # a.who
    /\ a.family \in {"spar", "transfer"} => Where[a.to] = Where[a.who]
    /\ a.family = "move" => <<Where[a.who], a.to>> \in Routes

\* plan_effects: a move may cost stamina, rest may find room to recover.
PlannedTypes(family) ==
    {t \in {"move", "adjust", "observe"} :
        \/ family = "move" /\ t \in {"move", "adjust"}
        \/ family = "rest" /\ t = "adjust"
        \/ family = "observe" /\ t = "observe"}

Planned(a) == {[type |-> t, whom |-> a.who] : t \in PlannedTypes(a.family)}

Envelope(a) ==
    IF ~Feasible(a) THEN
        [determined |-> TRUE, outcomes |-> {"impossible"}, effects |-> {}, touched |-> {a.who}]
    ELSE IF a.family = "communicate" THEN
        [determined |-> FALSE, outcomes |-> {"success", "partial", "failure"}, effects |-> {},
         touched |-> {a.who, a.to}]
    ELSE [determined |-> TRUE, outcomes |-> {"success"}, effects |-> Planned(a),
          touched |-> {a.who}]

Rank == [success |-> 0, partial |-> 1, failure |-> 2, impossible |-> 3]

Worst(outcomes) ==
    CHOOSE o \in outcomes : \A other \in outcomes : Rank[other] <= Rank[o]

Merged(envelopes) ==
    [outcome |-> Worst({"success"} \cup UNION {e.outcomes : e \in envelopes}),
     effects |-> UNION {e.effects : e \in envelopes}]

Packet(envelopes) ==
    [outcomes |-> UNION {e.outcomes : e \in envelopes},
     touched |-> UNION {e.touched : e \in envelopes}]

FeasibleEffects == {"move", "observe", "remember", "adjust"}

EffectsValid(proposal, packet) ==
    /\ \A e \in proposal.effects : e.type \in FeasibleEffects /\ e.whom \in packet.touched
    /\ proposal.outcome \in packet.outcomes

\* route: the resolver is asked only when some intent is ambiguous.
Automatic(envelopes) == envelopes # {} /\ \A e \in envelopes : e.determined

ResolverFallback(envelopes) ==
    LET determined == {e \in envelopes : e.determined}
    IN  IF determined = {} THEN [outcome |-> "failure", effects |-> {}] ELSE Merged(determined)

ResolverAnswer(envelopes, reply) ==
    IF reply.ok /\ EffectsValid(reply, Packet(envelopes))
    THEN [outcome |-> reply.outcome, effects |-> reply.effects]
    ELSE ResolverFallback(envelopes)

-----------------------------------------------------------------------------
(* Narration: beats, each citing facts of the committed scene. *)

BeatsValid(beats, facts, audience) ==
    /\ Len(beats) \in 1..BeatBudget
    /\ \A b \in Range(beats) :
          b.cited # {} /\ b.cited \subseteq facts /\ b.speaker \in audience \cup {Nobody}

FallbackBeats(facts) ==
    LET listed == SetToSeq(facts)
        many == IF Len(listed) < BeatBudget THEN Len(listed) ELSE BeatBudget
    IN  IF facts = {} THEN <<[cited |-> {}, speaker |-> Nobody]>>
        ELSE [i \in 1..many |-> [cited |-> {listed[i]}, speaker |-> Nobody]]

NarratorAnswer(facts, audience, reply) ==
    IF reply.ok /\ BeatsValid(reply.beats, facts, audience)
    THEN reply.beats ELSE FallbackBeats(facts)

-----------------------------------------------------------------------------
(* The director, and the account of a day. *)

ShouldTrigger(index, last) == last = 0 \/ index - last >= (IF Cooldown > 1 THEN Cooldown ELSE 1)

SupportedPowers == {"spawn_npc", "new_location"}

ProposalValid(p, hooks) ==
    /\ p.action # "noop" /\ p.titled
    /\ p.powers \subseteq SupportedPowers /\ p.participants \subseteq Characters
    /\ hooks < MaxHooks

\* The hook that is accepted, or none.
DirectorAnswer(hooks, reply) == {p \in {reply} : p.ok /\ ProposalValid(p, hooks)}

SummaryValid(p, sources) == p.cited \subseteq sources

\* What the account cites: a fallback cites every source of the day.
SummaryAnswer(sources, reply) ==
    IF reply.ok /\ SummaryValid(reply, sources) /\ reply.cited # {}
    THEN reply.cited ELSE sources
=============================================================================
