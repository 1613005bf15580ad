----------------------------- MODULE PhaseStage1 -----------------------------
(***************************************************************************)
(* The Stage 1 phase runner (application/orchestration/stage1.py).  A      *)
(* phase ticks the clock, fires schedules, completes activities, lets      *)
(* every character decide, groups the intents into scenes and commits      *)
(* scene after scene.  Nothing is written when a call fails: the next call *)
(* of the phase runs it again from the start, and derived identities and   *)
(* command keys decide what of it is a repetition.                         *)
(*                                                                         *)
(* One call advances at a time (ExecutionSlot); pauses, resumptions and    *)
(* other commands run beside it.  A canonical transaction is one atomic    *)
(* step (CanonicalCommit).  A model call may answer anything.              *)
(***************************************************************************)
EXTENDS Naturals, FiniteSets

CONSTANTS
    Characters, Places,
    Undertakings,  \* activities that may be under way in the first phase
    MaxIndex,      \* bound: the phases of the model's world
    Offered,       \* bound: the families of action chosen in each phase
    MaxDisturbances,  \* bound on failing calls and on commands of other routes
    Nothing        \* no target, no scene, no result

ASSUME Stage1Assumption ==
    /\ IsFiniteSet(Characters) /\ IsFiniteSet(Places)
    /\ Characters \cap Places = {} /\ Nothing \notin Characters \cup Places
    /\ MaxIndex \in Nat \ {0} /\ MaxDisturbances \in Nat
    /\ Offered \in [1..MaxIndex -> SUBSET {"wait", "move", "spar", "talk"}]

VARIABLES
    \* the database
    clock,         \* the world's absolute index
    runs,          \* phase_run.state by index
    pending,       \* schedules that have not fired, by due index
    fired,         \* SCHEDULE_FIRED events by due index
    place, version,\* location and version of each character
    activity,      \* activity row of each character
    credited,      \* completion command of each activity: its effects, and how
                   \* often they were committed
    stored,        \* committed scenes by index
    bouts,         \* settled verbs by index and author, each with its gate
    \* the caller
    call,
    \* bookkeeping of the model
    disturbances,
    torn           \* a phase is to be run again that has committed something

characters == <<place, version>>
activities == <<activity, credited>>
scenes == <<stored, bouts>>
vars == <<clock, runs, pending, fired, characters, activities, scenes, call, disturbances, torn>>

Index == 1..MaxIndex

\* world_ticked to scenes_committed are one state: nothing reads them apart.
RunState == {"absent", "created", "working", "paused", "completed"}

\* spar stands for the verbs settled after the commit (spar, appeal, transfer),
\* talk for those a model resolves, wait for those without effect.
Action == [family : {"wait", "move", "spar", "talk"}, target : Characters \cup Places \cup {Nothing}]

Wait == [family |-> "wait", target |-> Nothing]
Move(p) == [family |-> "move", target |-> p]
With(verb, c) == [family |-> verb, target |-> c]

\* precheck_action: known characters and places; nothing about feasibility.
Actions(c, families) ==
    {a \in {Wait} \cup {Move(p) : p \in Places}
           \cup {With(verb, d) : verb \in {"spar", "talk"}, d \in Characters \ {c}} :
        a.family \in families}

\* An effect carries the version its author planned with; the versions in a
\* model's effects are the model's and mean nothing.
Effect == [who : Characters, to : Places \cup {Nothing}, version : Nat]

\* Of the stored intents only the verbs to settle are kept apart.
Scene == [members : SUBSET Characters, spars : SUBSET Characters, effects : SUBSET Effect]

ActivityStatus == {"none", "active", "interrupted", "cancelled", "completed"}
Activity == [kind : {"patrol", "travel"}, to : Places \cup {Nothing}, due : Nat,
             status : ActivityStatus, version : Nat]

NoActivity == [kind |-> "patrol", to |-> Nothing, due |-> 0, status |-> "none", version |-> 0]

ASSUME UndertakingsAssumption == Undertakings \subseteq Activity

Steps == {"idle", "create", "previous", "tick", "ticked", "fire", "due", "activity", "credit",
          "save", "seal", "decide", "scene", "commit", "settle"}

\* todo: the activities or scenes still to come, each by its characters;
\* read: what the present one was planned with.
Idle == [pc |-> "idle", target |-> 0, todo |-> {}, subject |-> {}, rows |-> Nothing,
         intents |-> Nothing, read |-> Nothing]

TypeOK ==
    /\ clock \in 0..MaxIndex
    /\ runs \in [Index -> RunState]
    /\ pending \subseteq Index /\ fired \in [Index -> Nat]
    /\ place \in [Characters -> Places] /\ version \in [Characters -> Nat]
    /\ activity \in [Characters -> Activity \cup {NoActivity}]
    /\ credited \in [Characters -> [effects : SUBSET Effect, times : Nat] \cup {Nothing}]
    /\ \A i \in Index : \A s \in stored[i] :
          s.members \cup s.spars \subseteq Characters /\ s.effects \subseteq Effect
    /\ bouts \in [Index \X Characters -> Nat]
    /\ call.pc \in Steps /\ call.target \in 0..MaxIndex /\ call.todo \subseteq SUBSET Characters
    /\ disturbances \in 0..MaxDisturbances /\ torn \in BOOLEAN

Init ==
    /\ clock = 0
    /\ runs = [i \in Index |-> "absent"]
    /\ pending = Index /\ fired = [i \in Index |-> 0]
    /\ place \in [Characters -> Places] /\ version = [c \in Characters |-> 0]
    /\ \E c \in Characters, a \in Undertakings :
          activity = [[d \in Characters |-> NoActivity] EXCEPT ![c] = a]
    /\ credited = [c \in Characters |-> Nothing]
    /\ stored = [i \in Index |-> {}]
    /\ bouts = [at \in Index \X Characters |-> 0]
    /\ call = Idle
    /\ disturbances = 0 /\ torn = FALSE

-----------------------------------------------------------------------------
At(step) == call.pc = step /\ UNCHANGED disturbances
Goto(step) == call' = [call EXCEPT !.pc = step]
Target == call.target
Working(step, next) == At(step) /\ runs' = [runs EXCEPT ![Target] = "working"] /\ Goto(next)

\* A completion whose command is in and whose activity row is not.
HalfDone == \E c \in Characters : activity[c].status = "active" /\ credited[c] # Nothing

\* What a call leaves behind when it raises or dies.
Ends == call' = Idle
Torn == torn' = (torn \/ stored[Target] # {} \/ HalfDone)
Fails == Ends /\ Torn

-----------------------------------------------------------------------------
(* advance_phase up to the snapshot                                        *)

\* Mutant: only the phase after the clock is taken.
Start_OnlyNext(i) ==
    /\ At("idle")
    /\ runs[i] \notin {"completed", "paused"}
    /\ clock = i - 1
    /\ call' = [Idle EXCEPT !.pc = "create", !.target = i]
    /\ UNCHANGED <<clock, runs, pending, fired, characters, activities, scenes, torn>>

\* A completed phase is answered from its rows, a paused one refused.
Start(i) ==
    /\ At("idle")
    /\ runs[i] \notin {"completed", "paused"}
    /\ clock \in {i - 1, i}
    /\ call' = [Idle EXCEPT !.pc = "create", !.target = i]
    /\ UNCHANGED <<clock, runs, pending, fired, characters, activities, scenes, torn>>

\* The row is created where get_run finds none, and otherwise left.
Existing(state) == IF state = "absent" THEN "created" ELSE state

CreateRun ==
    /\ At("create") /\ Goto("previous")
    /\ runs' = [runs EXCEPT ![Target] = Existing(@)]
    /\ UNCHANGED <<clock, pending, fired, characters, activities, scenes, torn>>

\* Mutant: a run that exists is enough.
RequirePrevious_Exists ==
    /\ At("previous")
    /\ IF Target = 1 \/ runs[Target - 1] # "absent"
       THEN Goto("tick") /\ UNCHANGED torn
       ELSE Fails
    /\ UNCHANGED <<clock, runs, pending, fired, characters, activities, scenes>>

\* _require_previous_complete; no macro run covers the phase before.
RequirePrevious ==
    /\ At("previous")
    /\ IF Target = 1 \/ runs[Target - 1] = "completed"
       THEN Goto("tick") /\ UNCHANGED torn
       ELSE Fails
    /\ UNCHANGED <<clock, runs, pending, fired, characters, activities, scenes>>

\* get_clock and set_clock: the clock is set, not counted up.
SetClock(i) == clock' = i

Tick ==
    /\ At("tick") /\ Goto("ticked") /\ SetClock(Target)
    /\ UNCHANGED <<runs, pending, fired, characters, activities, scenes, torn>>

MarkTicked ==
    /\ Working("ticked", "fire")
    /\ UNCHANGED <<clock, pending, fired, characters, activities, scenes, torn>>

\* Mutant: a fired schedule is not marked applied.
FireSchedules_StayPending ==
    /\ At("fire") /\ Goto("due")
    /\ fired' = [i \in Index |-> IF i \in pending /\ i <= Target THEN fired[i] + 1 ELSE fired[i]]
    /\ UNCHANGED <<clock, runs, pending, characters, activities, scenes, torn>>

\* One transaction for every schedule that is due.
FireSchedules ==
    /\ At("fire") /\ Goto("due")
    /\ pending' = {i \in pending : i > Target}
    /\ fired' = [i \in Index |-> IF i \in pending /\ i <= Target THEN fired[i] + 1 ELSE fired[i]]
    /\ UNCHANGED <<clock, runs, characters, activities, scenes, torn>>

-----------------------------------------------------------------------------
(* _advance_activities: a list read once, then two transactions each       *)

Due == {c \in Characters : activity[c].status = "active" /\ activity[c].due <= Target}

\* The rows are kept as they were read, with their versions ...
ReadDue ==
    /\ At("due")
    /\ call' = [call EXCEPT !.pc = "activity", !.todo = {{c} : c \in Due}, !.rows = activity]
    /\ UNCHANGED <<clock, runs, pending, fired, characters, activities, scenes, torn>>

Row(c) == call.rows[c]

\* ... and a row that has changed since it was read is not written.
Save(c, read, row) ==
    activity' = IF activity[c].version # read.version THEN activity
                ELSE [activity EXCEPT ![c] = [row EXCEPT !.version = read.version + 1]]

\* The characters' rows, as they are when the effects are planned.
Planned(effects, ok) == [version |-> version, effects |-> effects, ok |-> ok]

\* A patrol is observed, a traveller moved; a move to where the traveller
\* already is cannot be built and raises.
ReadTraveller(c) ==
    /\ At("activity") /\ {c} \in call.todo
    /\ IF Row(c).kind = "travel" /\ Row(c).to = place[c]
       THEN Ends /\ torn' = TRUE
       ELSE /\ call' = [call EXCEPT
                  !.pc = "credit", !.todo = @ \ {{c}}, !.subject = {c},
                  !.read = Planned(IF Row(c).kind = "patrol" THEN {}
                                   ELSE {[who |-> c, to |-> Row(c).to, version |-> version[c]]},
                                   TRUE)]
            /\ UNCHANGED torn
    /\ UNCHANGED <<clock, runs, pending, fired, characters, activities, scenes>>

\* Exhausted travellers stall with their progress (stamina is not modelled);
\* a row that has changed since is left alone.
Stall(c) ==
    /\ At("activity") /\ {c} \in call.todo
    /\ Row(c).kind = "travel"
    /\ Save(c, Row(c), [Row(c) EXCEPT !.status = "interrupted", !.due = 0])
    /\ call' = [call EXCEPT !.todo = @ \ {{c}}]
    /\ UNCHANGED <<clock, runs, pending, fired, characters, credited, scenes, torn>>

Moved(effects) == {e \in effects : e.to # Nothing}
Apply(effects) ==
    /\ place' = [c \in Characters |->
          IF \E e \in Moved(effects) : e.who = c
          THEN (CHOOSE e \in Moved(effects) : e.who = c).to ELSE place[c]]
    /\ version' = [c \in Characters |->
          IF \E e \in effects : e.who = c THEN version[c] + 1 ELSE version[c]]

Credited(c) == credited' = [credited EXCEPT ![c] =
    [effects |-> call.read.effects, times |-> IF @ = Nothing THEN 1 ELSE @.times + 1]]

\* Mutant: the completion has a fresh key each time.
Credit_FreshKey(c) ==
    /\ At("credit") /\ call.subject = {c}
    /\ IF call.read.version[c] = version[c]
       THEN /\ Credited(c)
            /\ Apply(call.read.effects) /\ Goto("save") /\ UNCHANGED torn
       ELSE Fails /\ UNCHANGED <<credited, characters>>
    /\ UNCHANGED <<clock, runs, pending, fired, activity, scenes>>

\* The completion's canonical transaction: its key is the activity, its input
\* hash the effects with their versions.
Credit(c) ==
    /\ At("credit") /\ call.subject = {c}
    /\ IF credited[c] = Nothing /\ call.read.version[c] = version[c]
       THEN /\ Credited(c)
            /\ Apply(call.read.effects) /\ Goto("save") /\ UNCHANGED torn
       ELSE /\ IF credited[c] # Nothing /\ credited[c].effects = call.read.effects
               THEN Goto("save") /\ UNCHANGED torn ELSE Fails
            /\ UNCHANGED <<credited, characters>>
    /\ UNCHANGED <<clock, runs, pending, fired, activity, scenes>>

\* A version conflict on the activity row is swallowed.
SaveActivity(c) ==
    /\ At("save") /\ call.subject = {c} /\ Goto("activity")
    /\ Save(c, Row(c), [Row(c) EXCEPT !.status = "completed"])
    /\ UNCHANGED <<clock, runs, pending, fired, characters, credited, scenes, torn>>

\* _seal; a snapshot that is there already is kept.
Seal ==
    /\ call.todo = {} /\ Working("activity", "decide")
    /\ UNCHANGED <<clock, pending, fired, characters, activities, scenes, torn>>

-----------------------------------------------------------------------------
(* Deciding and assembling                                                 *)

Linked(intents, a, b) ==
    LET x == intents[a]
        y == intents[b]
    IN  \/ x.target = y.target /\ x.target # Nothing
        \/ place[a] = place[b] /\ (x.family # "wait" \/ y.family # "wait")
        \/ x = Move(place[b]) \/ y = Move(place[a])
        \/ x.target = b \/ y.target = a

\* The scene of a character: what the links reach from it.
SceneOf(intents, c) ==
    LET Closed(S) == \A a \in S, b \in Characters : Linked(intents, a, b) => b \in S
    IN  {d \in Characters : \A S \in SUBSET Characters : c \in S /\ Closed(S) => d \in S}

Answers(i) ==
    {intents \in [Characters -> UNION {Actions(c, Offered[i]) : c \in Characters}] :
        \A c \in Characters : intents[c] \in Actions(c, Offered[i])}

\* _director_phase, _decide_all and assemble_scenes: the intents come from
\* the models or the players and are kept in memory only.
Decide(intents) ==
    /\ At("decide") /\ intents \in Answers(Target)
    /\ runs' = [runs EXCEPT ![Target] = "working"]
    /\ call' = [call EXCEPT !.pc = "scene", !.intents = intents,
                            !.todo = {SceneOf(intents, c) : c \in Characters}]
    /\ UNCHANGED <<clock, pending, fired, characters, activities, scenes, torn>>

-----------------------------------------------------------------------------
(* One scene after the other                                               *)

Intent(c) == call.intents[c]
Members == call.subject

\* mutable_aggregates: the characters whose versions the commit checks.
Touches(c) == IF Intent(c).family = "wait" THEN {}
              ELSE {c} \cup ({Intent(c).target} \cap Characters)

Feasible(c) ==
    CASE Intent(c).family = "move" -> Intent(c).target # place[c]
      [] Intent(c).family = "spar" -> place[Intent(c).target] = place[c]
      [] OTHER -> TRUE

PlannedMoves(S) ==
    {[who |-> c, to |-> Intent(c).target, version |-> version[c]] :
        c \in {d \in S : Intent(d).family = "move" /\ Feasible(d)}}

\* A scene without dialogue is determined: the worst outcome, all the effects.
\* Otherwise the model chooses an outcome and effects on the characters
\* touched, or the determined intents decide.
Resolutions(S) ==
    LET talkers == {c \in S : Intent(c).family = "talk"}
        determined(ok) == [effects |-> PlannedMoves(S), ok |-> ok]
        adjusted == {[who |-> d, to |-> p, version |-> 0] :
                        d \in UNION {Touches(c) : c \in S}, p \in Places \cup {Nothing}}
    IN  IF talkers = {} THEN {determined(\A c \in S : Feasible(c))}
        ELSE {determined(talkers # S /\ \A c \in S : Feasible(c))}
             \cup {[effects |-> {}, ok |-> ok] : ok \in BOOLEAN}
             \cup {[effects |-> {e}, ok |-> TRUE] : e \in adjusted}

Resolve ==
    /\ At("scene")
    /\ \E S \in call.todo :
          /\ \E r \in Resolutions(S) :
                call' = [call EXCEPT !.pc = "commit", !.todo = @ \ {S}, !.subject = S,
                                     !.read = Planned(r.effects, r.ok)]
    /\ UNCHANGED <<clock, runs, pending, fired, characters, activities, scenes, torn>>

\* The scene's key is its set of intents, the hash its effects; an intent is
\* stored once per phase, in whatever scene.
SceneStored == {s \in stored[Target] : s.members = Members}
IntentStored == \E s \in stored[Target] : s.members \cap Members # {}
Spars == {c \in Members : Intent(c).family = "spar"}
VersionsHold == \A c \in UNION {Touches(d) : d \in Members} : call.read.version[c] = version[c]

\* The scene with its intents, attempts, reactions and resolution.
SaveScene == stored' = [stored EXCEPT ![Target] = @ \cup
    {[members |-> Members, effects |-> call.read.effects, spars |-> Spars]}]

\* Mutant: an intent may be stored again in another scene.
CommitScene_IntentsAgain ==
    /\ At("commit")
    /\ IF SceneStored = {} /\ VersionsHold
       THEN /\ SaveScene
            /\ Apply(call.read.effects) /\ Goto("settle") /\ UNCHANGED torn
       ELSE /\ IF \E s \in SceneStored : s.effects = call.read.effects
               THEN Goto("settle") /\ UNCHANGED torn ELSE Fails
            /\ UNCHANGED <<stored, characters>>
    /\ UNCHANGED <<clock, runs, pending, fired, activities, bouts>>

CommitScene ==
    /\ At("commit")
    /\ IF ~IntentStored /\ VersionsHold
       THEN /\ SaveScene
            /\ Apply(call.read.effects) /\ Goto("settle") /\ UNCHANGED torn
       ELSE /\ IF \E s \in SceneStored : s.effects = call.read.effects
               THEN Goto("settle") /\ UNCHANGED torn ELSE Fails
            /\ UNCHANGED <<stored, characters>>
    /\ UNCHANGED <<clock, runs, pending, fired, activities, bouts>>

\* Mutant: every intent of the scene is settled.
Verbs_All == IF call.read.ok THEN Members ELSE {}

\* The verbs that are left to settle, when the scene came out as a success.
Verbs == IF call.read.ok THEN Spars ELSE {}

\* Mutant: the work does not ask its gate.
Unsettled_NoGate == {c \in Verbs : bouts[Target, c] < 2}

Unsettled == {c \in Verbs : bouts[Target, c] = 0}

\* Gate and work in one transaction for each verb.
Settle ==
    /\ At("settle")
    /\ \E c \in Unsettled : bouts' = [bouts EXCEPT ![<<Target, c>>] = @ + 1]
    /\ UNCHANGED <<clock, runs, pending, fired, characters, activities, stored, call, torn>>

\* A bout without seated sheets or a carried weapon, or whose scene has had
\* its combat, raises (SceneTail says when).
SettleRaises ==
    /\ At("settle") /\ Unsettled # {}
    /\ Fails
    /\ UNCHANGED <<clock, runs, pending, fired, characters, activities, scenes>>

NextScene ==
    /\ At("settle") /\ Unsettled = {}
    /\ call' = [call EXCEPT !.pc = "scene", !.subject = {}, !.read = Nothing]
    /\ UNCHANGED <<clock, runs, pending, fired, characters, activities, scenes, torn>>

\* SCENES_COMMITTED, COMPLETED, and back to the caller.
Finish ==
    /\ At("scene") /\ call.todo = {} /\ Ends
    /\ runs' = [runs EXCEPT ![Target] = "completed"]
    /\ UNCHANGED <<clock, pending, fired, characters, activities, scenes, torn>>

-----------------------------------------------------------------------------
(* Faults and the routes beside                                            *)

Disturbance == disturbances < MaxDisturbances /\ disturbances' = disturbances + 1

\* A statement, a model or the process fails: the run row keeps its state.
Fault ==
    /\ call.pc # "idle" /\ Disturbance
    /\ Fails
    /\ UNCHANGED <<clock, runs, pending, fired, characters, activities, scenes>>

Edit == Disturbance /\ UNCHANGED <<clock, pending, fired, call>>

\* pause_phase and resume_phase write whatever the run is.
Gate(i, state) == runs[i] # "absent" /\ runs' = [runs EXCEPT ![i] = state]
Reopens(i) == torn' = (torn \/ runs[i] = "completed")

Pause(i) == Gate(i, "paused") /\ Reopens(i) /\ Edit
            /\ UNCHANGED <<characters, activities, scenes>>

Resume(i) == Gate(i, "created") /\ Reopens(i) /\ Edit
             /\ UNCHANGED <<characters, activities, scenes>>

\* A command changes a character.
Override(c) ==
    /\ version' = [version EXCEPT ![c] = @ + 1] /\ Edit
    /\ UNCHANGED <<runs, place, activities, scenes, torn>>

SetActivity(c, from, status, due) ==
    /\ activity[c].status \in from
    /\ Save(c, activity[c], [activity[c] EXCEPT !.status = status, !.due = due])
    /\ torn' = (torn \/ credited[c] # Nothing) /\ Edit
    /\ UNCHANGED <<runs, characters, credited, scenes>>

\* While an activity is interrupted, due counts the phases it still takes.
Interrupt(c) == SetActivity(c, {"active"}, "interrupted",
                            IF activity[c].due > clock THEN activity[c].due - clock ELSE 0)
Continue(c) == SetActivity(c, {"interrupted"}, "active", clock + activity[c].due)
Cancel(c) == SetActivity(c, {"active", "interrupted"}, "cancelled", activity[c].due)

\* The operator resumes what is paused.
ResumePaused ==
    /\ \E i \in Index : runs[i] = "paused" /\ Gate(i, "created")
    /\ UNCHANGED <<clock, pending, fired, characters, activities, scenes, call, disturbances, torn>>

-----------------------------------------------------------------------------
Decides == call.pc = "decide" /\ \E intents \in Answers(Target) : Decide(intents)

CallStep ==
    \/ CreateRun \/ RequirePrevious \/ Tick \/ MarkTicked \/ FireSchedules \/ ReadDue
    \/ \E c \in Characters : ReadTraveller(c) \/ Stall(c) \/ Credit(c) \/ SaveActivity(c)
    \/ Seal \/ Decides \/ Resolve \/ CommitScene \/ Settle \/ SettleRaises
    \/ NextScene \/ Finish

Command ==
    \/ \E i \in Index : Pause(i) \/ Resume(i)
    \/ \E c \in Characters : Override(c) \/ Interrupt(c) \/ Continue(c) \/ Cancel(c)

Next == (\E i \in Index : Start(i)) \/ CallStep \/ Fault \/ Command \/ ResumePaused

Spec == Init /\ [][Next]_vars

\* Calls run on and are made again; what is paused is resumed.
Fairness ==
    /\ WF_vars(CallStep)
    /\ \A i \in Index : SF_vars(Start(i))
    /\ WF_vars(ResumePaused)

FairSpec == Spec /\ Fairness

\* ... and sooner or later every answer is given.
AnswersVary == \A i \in Index : \A intents \in Answers(i) : SF_vars(Target = i /\ Decide(intents))

VariedSpec == FairSpec /\ AnswersVary

-----------------------------------------------------------------------------
(* Properties                                                              *)

\* "Instead of doubling canon" (stage1.py:5-8): however often a phase is run
\* again, with whatever answers, a character's intent of it is in one scene.
OneScenePerIntent ==
    \A i \in Index : \A s, t \in stored[i] : s # t => s.members \cap t.members = {}

\* The clock passes a phase only when every character's intent of it has been
\* committed, also when runs are paused, resumed or run again.
PhasesAreWhole ==
    \A i \in Index : i < clock => UNION {s.members : s \in stored[i]} = Characters

\* "A crash between scenes can never double-apply a bout" (stage1.py:1516-1521).
SettledOnce == \A at \in Index \X Characters : bouts[at] <= 1

\* Until a phase is run again, what is settled is what the scene committed.
SettledIsCanon ==
    ~torn => \A i \in Index, c \in Characters : bouts[i, c] > 0 =>
                \E s \in stored[i] : c \in s.spars

\* "Completion commits once per activity" (stage1.py:579): however the
\* activity is interrupted, cancelled or run again, its effects are applied once.
CompletesOnce == \A c \in Characters : credited[c] # Nothing => credited[c].times = 1

\* Schedules fire once, before anybody decides in the phase they are due in.
SchedulesFireInTime ==
    \A i \in Index : fired[i] <= 1 /\ (stored[i] # {} => fired[i] = 1)

\* What a phase makes canon it makes canon once (stage1.py:5-8): its scenes,
\* the settlement of their verbs and the activities that end in it.
CanonOnce == OneScenePerIntent /\ SettledOnce /\ SettledIsCanon /\ CompletesOnce

\* Time passes in whole phases: everybody has acted in a phase, and what was
\* due in it has happened, before the clock goes on.
TimeIsWhole == PhasesAreWhole /\ SchedulesFireInTime

\* "Re-running a phase replays stored results" (stage1.py:5-8).
Heals == <>[](\A i \in Index : runs[i] = "completed")

\* ... which holds as long as no phase is run again that has committed a scene
\* or half an activity, and no traveller arrives before the end of the journey.
HealsUntorn == []~torn => Heals
=============================================================================
