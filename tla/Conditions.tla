------------------------------ MODULE Conditions ------------------------------
(***************************************************************************)
(* World conditions (application/conditions.py) between the request of a   *)
(* phase and the phase itself: a deity's intervention creates an illness,  *)
(* every request to advance ticks the active ones with characters it read  *)
(* once, and a phase that runs moves the clock.  Requests overlap when a   *)
(* lease lapses; characters change under them by overrides and scenes.     *)
(***************************************************************************)
EXTENDS Integers, Sequences, FiniteSetsExt

CONSTANTS
    Characters, Places,
    Home, Strength,     \* character -> where it begins, and its stamina
    Afflictions,        \* labels of illnesses a deity orders
    Severity, Scope,    \* label -> stamina taken at a tick, places it reaches
    Duration,           \* phases an illness lasts
    Calls,              \* requests to advance that may overlap
    Indices,            \* phases that a request names
    LastPhase,          \* bound: no phase after it is run
    MaxChanges,         \* bound: changes of characters by others
    MaxDeaths           \* bound: requests that die

ConditionsAssumption ==
    /\ {Duration, LastPhase, MaxChanges, MaxDeaths} \subseteq Nat
    /\ Indices \subseteq Nat /\ 1..LastPhase \subseteq Indices
    /\ Strength \in [Characters -> Nat] /\ Severity \in [Afflictions -> Nat]

VARIABLES
    clock,       \* the world's phase
    conditions,  \* in the order of their creation
    people,      \* character -> place, stamina and version
    keys,        \* <<condition, phase>>: ticks whose command exists
    call,        \* what each request is doing, with what it read
    changes, deaths,
    ticks        \* history: commits of each tick

vars == <<clock, conditions, people, keys, call, changes, deaths, ticks>>

Idle == [pc |-> "idle"]

Init ==
    /\ clock = 0 /\ conditions = <<>>
    /\ people = [c \in Characters |-> [at |-> Home[c], stamina |-> Strength[c], version |-> 0]]
    /\ keys = {} /\ ticks = <<>>
    /\ call = [c \in Calls |-> Idle]
    /\ changes = 0 /\ deaths = 0

WorldCondition ==
    [label : Afflictions, status : {"active", "recovered"}, start : 1..LastPhase,
     end : 1..LastPhase + Duration]

TypeOK ==
    /\ clock \in 0..LastPhase
    /\ \A n \in DOMAIN conditions : conditions[n] \in WorldCondition
    /\ \A c \in Characters : people[c].at \in Places \union {Home[c]} /\ people[c].stamina \in Nat
    /\ keys \subseteq (DOMAIN conditions) \X Indices
    /\ changes \in 0..MaxChanges /\ deaths \in 0..MaxDeaths

Active(n) == conditions[n].status = "active"

-----------------------------------------------------------------------------
\* An admitted request: the queue of interventions comes first, then the ticks.
Begin(c) ==
    /\ call[c] = Idle
    /\ \E i \in Indices :
        /\ clock < LastPhase \/ i <= clock
        /\ call' = [call EXCEPT ![c] = [pc |-> "queue", index |-> i]]
    /\ UNCHANGED <<clock, conditions, people, keys, changes, deaths, ticks>>

\* It lasts for a number of phases, both ends included.
Illness(label, from) ==
    [label |-> label, status |-> "active", start |-> from, end |-> from + Duration]

\* _create_condition_step: one active illness of a label at a time (bound: one ever).
Afflict(c) ==
    /\ call[c].pc = "queue" /\ call[c].index \in 1..LastPhase
    /\ \E label \in Afflictions :
        /\ ~\E n \in DOMAIN conditions : conditions[n].label = label
        /\ conditions' = Append(conditions, Illness(label, call[c].index))
    /\ UNCHANGED <<clock, people, keys, call, changes, deaths, ticks>>

\* tick_conditions reads the active conditions and the characters.
ReadAll(c) ==
    /\ call[c].pc = "queue"
    /\ call' = [call EXCEPT ![c] =
                 [pc |-> "tick", index |-> call[c].index, people |-> people,
                  due |-> {n \in DOMAIN conditions : Active(n)}]]
    /\ UNCHANGED <<clock, conditions, people, keys, changes, deaths, ticks>>

-----------------------------------------------------------------------------
(* The ticks, one condition at a time, the oldest first.                   *)
Ticking(c) == call[c].pc = "tick" /\ call[c].due # {}
Current(c) == Min(call[c].due)
Condition(c) == conditions[Current(c)]
Next1(c) == call' = [call EXCEPT ![c].due = @ \ {Current(c)}]
Stop(c) == call' = [call EXCEPT ![c] = Idle]

NotYet(c) ==
    /\ Ticking(c) /\ call[c].index < Condition(c).start
    /\ Next1(c)
    /\ UNCHANGED <<clock, conditions, people, keys, changes, deaths, ticks>>

\* _recover compares the version with the one its own session has just read.
Recover(c) ==
    /\ Ticking(c) /\ call[c].index > Condition(c).end
    /\ conditions' = [conditions EXCEPT ![Current(c)].status = "recovered"]
    /\ Next1(c)
    /\ UNCHANGED <<clock, people, keys, changes, deaths, ticks>>

InWindow(c) == Ticking(c) /\ call[c].index \in Condition(c).start .. Condition(c).end

\* The characters as the request read them, wherever they are by now.
Victims(c) ==
    {v \in Characters : /\ call[c].people[v].at \in Scope[Condition(c).label]
                        /\ call[c].people[v].stamina > 0}

Lesser(a, b) == IF a < b THEN a ELSE b
Taken(c, v) == Lesser(Severity[Condition(c).label], call[c].people[v].stamina)

\* A key for every call (a mutant): condition and phase do not identify a tick.
Key_Random(c) == <<Len(ticks) + 1, call[c].index>>
Key(c) == <<Current(c), call[c].index>>
\* A tick that is there already is an error (a mutant).
Replays_Never(c) == FALSE
\* The command's key is looked up before the versions are compared.
Replays(c) == Key(c) \in keys

Pass(c) ==
    /\ InWindow(c) /\ (Victims(c) = {} \/ Replays(c))
    /\ Next1(c)
    /\ UNCHANGED <<clock, conditions, people, keys, changes, deaths, ticks>>

Stale(c) == \E v \in Victims(c) : people[v].version # call[c].people[v].version

Tick(c) ==
    /\ InWindow(c) /\ Victims(c) # {} /\ Key(c) \notin keys /\ ~Stale(c)
    /\ people' = [v \in Characters |->
                    IF v \in Victims(c)
                    THEN [people[v] EXCEPT !.stamina = @ - Taken(c, v), !.version = @ + 1] ELSE people[v]]
    /\ keys' = keys \union {Key(c)}
    /\ ticks' = Append(ticks, [condition |-> Current(c), index |-> call[c].index,
                               took |-> [v \in Victims(c) |-> Taken(c, v)]])
    /\ Next1(c)
    /\ UNCHANGED <<clock, conditions, changes, deaths>>

\* VERSION_CONFLICT ends the request; what was ticked before stays.
Refuse(c) ==
    /\ InWindow(c) /\ Victims(c) # {} /\ ~Replays(c)
    /\ Key(c) \in keys \/ Stale(c)
    /\ Stop(c)
    /\ UNCHANGED <<clock, conditions, people, keys, changes, deaths, ticks>>

-----------------------------------------------------------------------------
\* advance_phase: a phase that is done is reported, the next one runs, and any
\* other index is refused, after all of the above.
Advance(c) ==
    /\ call[c].pc = "tick" /\ call[c].due = {}
    /\ clock' = IF call[c].index = clock + 1 THEN clock + 1 ELSE clock
    /\ Stop(c)
    /\ UNCHANGED <<conditions, people, keys, changes, deaths, ticks>>

\* An override, a scene, a journey: somebody's stamina or place is another.
Change ==
    /\ changes < MaxChanges /\ changes' = changes + 1
    /\ \E v \in Characters, p \in Places : \E s \in {0, Strength[v]} :
        people' = [people EXCEPT ![v] = [at |-> p, stamina |-> s, version |-> @.version + 1]]
    /\ UNCHANGED <<clock, conditions, keys, call, deaths, ticks>>

Die(c) ==
    /\ call[c] # Idle /\ deaths < MaxDeaths /\ deaths' = deaths + 1
    /\ Stop(c)
    /\ UNCHANGED <<clock, conditions, people, keys, changes, ticks>>

CallStep(c) == Begin(c) \/ ReadAll(c) \/ NotYet(c) \/ Recover(c) \/ Pass(c) \/ Tick(c) \/ Refuse(c) \/ Advance(c)
Next == Change \/ \E c \in Calls : CallStep(c) \/ Afflict(c) \/ Die(c)
Spec == Init /\ [][Next]_vars

\* Whoever runs the world keeps asking for the phase after the clock, and a
\* request that was admitted goes on (Fairness of Upkeep).
BeginNext(c) == Begin(c) /\ call'[c].index = clock + 1
GoesOn(c) == CallStep(c) /\ ~Begin(c)

-----------------------------------------------------------------------------
\* A condition strikes once at a phase, however often the phase is asked for and
\* however the requests overlap, and takes no more than its severity nor than
\* what is there (test_revamp_p09: ticks are canonical commits, not silent edits).
TickedOnce ==
    /\ \A i, j \in DOMAIN ticks :
          i # j => <<ticks[i].condition, ticks[i].index>> # <<ticks[j].condition, ticks[j].index>>
    /\ \A v \in Characters : people[v].stamina >= 0

\* Conditions never keep a world from advancing: each repeated request gets one
\* of those that strike the same victim through.
PhasesPass == <>(clock = LastPhase)

\* "Recovery and expiry are deterministic functions of the phase index"
\* (conditions.py:5): a condition lasts until the world's phase is past its end.
RecoversInTime ==
    \A n \in DOMAIN conditions : conditions[n].status = "recovered" => clock >= conditions[n].end
=============================================================================
