-------------------------- MODULE PhaseStage1Proofs --------------------------
(***************************************************************************)
(* Proofs about the Stage 1 phase runner, for any characters, places,      *)
(* number of phases, failing calls and commands beside them:               *)
(*   TypeInv      what a call remembers has the type its step relies on.   *)
(*   ScheduleInv  a call past its schedules has fired those of its phase.  *)
(*   WholeInv     the scenes to come, the present one and those stored are *)
(*                everybody; a completed run has stored them all.          *)
(*   OnceInv      gates and keys count to one.                             *)
(*   UntornInv    until a phase is run again, the scenes stored of an open *)
(*                run are those its call has been through.                 *)
(***************************************************************************)
EXTENDS PhaseStage1, TLAPS

\* The actions precheck_action lets through: only a move has a place for target.
Sane == {a \in Action : a.family = "move" => a.target \in Places}

Plan == [version : [Characters -> Nat], effects : SUBSET Effect, ok : BOOLEAN]

CallRow == [pc : Steps, target : 0..MaxIndex, todo : SUBSET SUBSET Characters,
            subject : SUBSET Characters, rows : [Characters -> Activity] \cup {Nothing},
            intents : [Characters -> Sane] \cup {Nothing}, read : Plan \cup {Nothing}]

InActivities == {"activity", "credit", "save"}
InScenes == {"scene", "commit", "settle"}
PastFiring == {"due", "seal", "decide"} \cup InActivities \cup InScenes

TypeInv ==
    /\ clock \in 0..MaxIndex
    /\ runs \in [Index -> RunState]
    /\ pending \subseteq Index /\ fired \in [Index -> Nat]
    /\ place \in [Characters -> Places] /\ version \in [Characters -> Nat]
    /\ activity \in [Characters -> Activity]
    /\ credited \in [Characters -> [effects : SUBSET Effect, times : Nat] \cup {Nothing}]
    /\ stored \in [Index -> SUBSET Scene]
    /\ bouts \in [Index \X Characters -> Nat]
    /\ call \in CallRow
    /\ call.pc # "idle" => Target \in Index
    /\ call.pc \in InActivities => call.rows \in [Characters -> Activity]
    /\ call.pc \in InScenes => call.intents \in [Characters -> Sane]
    /\ call.pc \in {"credit", "commit", "settle"} => call.read \in Plan
    /\ disturbances \in 0..MaxDisturbances /\ torn \in BOOLEAN

ScheduleInv ==
    /\ \A i \in Index : fired[i] = IF i \in pending THEN 0 ELSE 1
    /\ call.pc \in PastFiring => Target \notin pending
    /\ \A i \in Index : stored[i] # {} => i \notin pending

Covered(i) == UNION {s.members : s \in stored[i]}

WholeInv ==
    /\ \A i \in Index : runs[i] = "completed" => Covered(i) = Characters
    /\ \A i \in Index : i < clock => Covered(i) = Characters
    /\ call.pc \in {"create", "previous", "tick"} => clock \in {Target - 1, Target}
    /\ call.pc = "tick" => Target = 1 \/ Covered(Target - 1) = Characters
    /\ call.pc \in InScenes =>
          Characters \subseteq Covered(Target) \cup (UNION call.todo)
                               \cup (IF call.pc = "commit" THEN Members ELSE {})

OnceInv == OneScenePerIntent /\ SettledOnce /\ CompletesOnce

\* The scenes still to come are apart from each other and from the present one.
Apart ==
    call.pc \in InScenes =>
        /\ \A S \in call.todo : S # {}
        /\ \A S, T \in call.todo : S # T => S \cap T = {}
        /\ call.pc # "scene" => Members # {} /\ \A S \in call.todo : S \cap Members = {}

\* Until a phase is run again: what is stored is of a closed run or of this call,
StoredIsClosed ==
    \A i \in Index : stored[i] # {} =>
        runs[i] = "completed" \/ (call.pc \in InScenes /\ i = Target)

\* which has yet to come to the others,
StoredIsApart ==
    call.pc \in InScenes => \A s \in stored[Target] :
        /\ \A S \in call.todo : s.members \cap S = {}
        /\ call.pc = "commit" => s.members \cap Members = {}

\* and the scene whose verbs are settled is stored as it was decided.
SceneIsStored ==
    call.pc = "settle" => \E s \in stored[Target] : s.members = Members /\ s.spars = Spars

UntornInv ==
    /\ Apart
    /\ call.pc # "idle" => runs[Target] # "completed"
    /\ ~torn => SettledIsCanon /\ StoredIsClosed /\ StoredIsApart /\ SceneIsStored

-----------------------------------------------------------------------------
(* Types                                                                   *)

LEMMA EndsType == Ends => call' \in CallRow /\ call'.pc = "idle"
  BY Stage1Assumption DEF Ends, Idle, CallRow, Steps

LEMMA FailsType ==
    ASSUME Fails
    PROVE  call' \in CallRow /\ call'.pc = "idle" /\ torn' \in BOOLEAN
  <1>1. torn' \in BOOLEAN
    BY DEF Fails, Torn
  <1>2. QED
    BY <1>1, EndsType DEF Fails

LEMMA SaveType ==
    ASSUME activity \in [Characters -> Activity], NEW c \in Characters,
           NEW read, read.version \in Nat, NEW row \in Activity, Save(c, read, row)
    PROVE  activity' \in [Characters -> Activity]
  BY DEF Save, Activity

\* Whatever effects are applied, characters stay in places and versions numbers.
LEMMA ApplyType ==
    ASSUME place \in [Characters -> Places], version \in [Characters -> Nat],
           NEW effects \in SUBSET Effect, Apply(effects)
    PROVE  place' \in [Characters -> Places] /\ version' \in [Characters -> Nat]
  <1>1. ASSUME NEW c \in Characters, \E e \in Moved(effects) : e.who = c
        PROVE  (CHOOSE e \in Moved(effects) : e.who = c).to \in Places
    <2>1. PICK e \in Moved(effects) : e = CHOOSE f \in Moved(effects) : f.who = c
      BY <1>1
    <2>2. QED
      BY <2>1 DEF Moved, Effect
  <1>2. QED
    BY <1>1 DEF Apply

\* What a scene may be resolved to is typed by its intents.
LEMMA ResolutionType ==
    ASSUME version \in [Characters -> Nat], call.intents \in [Characters -> Sane],
           NEW S \in SUBSET Characters, NEW r \in Resolutions(S)
    PROVE  r.effects \in SUBSET Effect /\ r.ok \in BOOLEAN
  <1>1. PlannedMoves(S) \in SUBSET Effect
    <2>1. ASSUME NEW c \in S, Feasible(c), Intent(c).family = "move"
          PROVE  [who |-> c, to |-> Intent(c).target, version |-> version[c]] \in Effect
      BY <2>1 DEF Effect, Intent, Action, Sane
    <2>2. QED
      BY <2>1 DEF PlannedMoves
  <1>2. ASSUME NEW c \in S PROVE Touches(c) \subseteq Characters
    BY DEF Touches
  <1>3. ASSUME NEW d \in UNION {Touches(c) : c \in S}, NEW q \in Places \cup {Nothing}
        PROVE  [who |-> d, to |-> q, version |-> 0] \in Effect
    BY <1>2, <1>3 DEF Effect
  <1> DEFINE adjusted == {[who |-> d, to |-> q, version |-> 0] :
                             d \in UNION {Touches(c) : c \in S}, q \in Places \cup {Nothing}}
  <1>4. adjusted \in SUBSET Effect
    BY <1>3
  <1>5. \/ \E ok \in BOOLEAN : r = [effects |-> PlannedMoves(S), ok |-> ok]
        \/ \E ok \in BOOLEAN : r = [effects |-> {}, ok |-> ok]
        \/ \E e \in adjusted : r = [effects |-> {e}, ok |-> TRUE]
    <2> DEFINE talkers == {c \in S : Intent(c).family = "talk"}
               some == talkers # S /\ \A c \in S : Feasible(c)
               all == \A c \in S : Feasible(c)
    <2>1. some \in BOOLEAN /\ all \in BOOLEAN
      OBVIOUS
    <2>2. \/ r = [effects |-> PlannedMoves(S), ok |-> all]
          \/ r = [effects |-> PlannedMoves(S), ok |-> some]
          \/ r \in {[effects |-> {}, ok |-> ok] : ok \in BOOLEAN}
          \/ r \in {[effects |-> {e}, ok |-> TRUE] : e \in adjusted}
      <3>1. CASE talkers = {}
        BY <3>1 DEF Resolutions
      <3>2. CASE talkers # {}
        BY <3>2 DEF Resolutions
      <3>3. QED
        BY <3>1, <3>2
    <2> HIDE DEF some, all, adjusted
    <2>3. QED
      BY <2>1, <2>2
  <1> HIDE DEF adjusted
  <1>6. ASSUME NEW E \in SUBSET Effect, NEW ok \in BOOLEAN, r = [effects |-> E, ok |-> ok]
        PROVE  r.effects \in SUBSET Effect /\ r.ok \in BOOLEAN
    BY <1>6
  <1>7. \A e \in adjusted : {e} \in SUBSET Effect
    BY <1>4
  <1>8. {} \in SUBSET Effect /\ TRUE \in BOOLEAN
    OBVIOUS
  <1>9. QED
    BY ONLY <1>1, <1>5, <1>6, <1>7, <1>8, Zenon

LEMMA AnswerType ==
    ASSUME NEW i, NEW intents \in Answers(i)
    PROVE  intents \in [Characters -> Sane]
  <1>1. ASSUME NEW c \in Characters PROVE Actions(c, Offered[i]) \subseteq Sane
    BY DEF Actions, Action, Wait, Move, With, Sane
  <1>2. QED
    BY <1>1 DEF Answers

LEMMA InitType == Init => TypeInv
  <1>1. NoActivity \in Activity
    BY DEF NoActivity, Activity, ActivityStatus
  <1>2. Init => activity \in [Characters -> Activity]
    BY <1>1, UndertakingsAssumption DEF Init
  <1>3. Init => stored \in [Index -> SUBSET Scene] /\ bouts \in [Index \X Characters -> Nat]
    BY DEF Init
  <1>4. Init => call \in CallRow /\ call.pc = "idle"
    BY Stage1Assumption DEF Init, Idle, CallRow, Steps
  <1>5. Init => /\ clock \in 0..MaxIndex /\ runs \in [Index -> RunState]
                /\ pending \subseteq Index /\ fired \in [Index -> Nat]
                /\ place \in [Characters -> Places] /\ version \in [Characters -> Nat]
                /\ disturbances \in 0..MaxDisturbances
    BY Stage1Assumption DEF Init, RunState
  <1>6. Init => credited \in [Characters -> [effects : SUBSET Effect, times : Nat] \cup {Nothing}]
    BY DEF Init
  <1>7. Init => torn \in BOOLEAN
    BY DEF Init
  <1>8. QED
    BY <1>2, <1>3, <1>4, <1>5, <1>6, <1>7 DEF TypeInv, InActivities, InScenes

LEMMA CallType ==
    ASSUME TypeInv, CallStep
    PROVE  TypeInv'
  <1> USE DEF At, Goto, Target, Index, characters, activities, scenes
  <1>1. CASE CreateRun
    BY <1>1 DEF TypeInv, CreateRun, Existing, CallRow, Steps, RunState, InActivities, InScenes
  <1>2. CASE RequirePrevious
    <2>1. CASE Target = 1 \/ runs[Target - 1] = "completed"
      <3>1. /\ call.pc = "previous" /\ call' = [call EXCEPT !.pc = "tick"]
            /\ UNCHANGED <<clock, runs, pending, fired, characters, activities, scenes,
                           disturbances, torn>>
        BY <1>2, <2>1 DEF RequirePrevious
      <3>2. QED
        BY <3>1 DEF TypeInv, CallRow, Steps, InActivities, InScenes
    <2>2. CASE ~(Target = 1 \/ runs[Target - 1] = "completed")
      BY <1>2, <2>2, FailsType DEF TypeInv, RequirePrevious, InActivities, InScenes
    <2>3. QED
      BY <2>1, <2>2
  <1>3. CASE Tick
    BY <1>3 DEF TypeInv, Tick, SetClock, CallRow, Steps, InActivities, InScenes
  <1>4. CASE MarkTicked
    BY <1>4 DEF TypeInv, MarkTicked, Working, RunState, CallRow, Steps, InActivities, InScenes
  <1>5. CASE FireSchedules
    <2>1. pending' \subseteq Index /\ fired' \in [Index -> Nat]
      BY <1>5 DEF TypeInv, FireSchedules
    <2>2. QED
      BY <1>5, <2>1 DEF TypeInv, FireSchedules, CallRow, Steps, InActivities, InScenes
  <1>6. CASE ReadDue
    <2>1. {{c} : c \in Due} \in SUBSET SUBSET Characters
      BY DEF TypeInv, Due
    <2>2. QED
      BY <1>6, <2>1 DEF TypeInv, ReadDue, CallRow, Steps, InActivities, InScenes
  <1>7. ASSUME NEW c \in Characters, ReadTraveller(c) PROVE TypeInv'
    <2>1. {[who |-> c, to |-> Row(c).to, version |-> version[c]]} \in SUBSET Effect
      BY <1>7 DEF TypeInv, ReadTraveller, Row, Activity, Effect, InActivities
    <2>2. CASE Row(c).kind = "travel" /\ Row(c).to = place[c]
      BY <1>7, <2>2, EndsType DEF TypeInv, ReadTraveller, InActivities, InScenes
    <2>3. CASE ~(Row(c).kind = "travel" /\ Row(c).to = place[c])
      <3>1. PICK E \in SUBSET Effect :
               call' = [call EXCEPT !.pc = "credit", !.todo = @ \ {{c}}, !.subject = {c},
                                    !.read = Planned(E, TRUE)]
        BY <1>7, <2>1, <2>3 DEF TypeInv, ReadTraveller
      <3>2. Planned(E, TRUE) \in Plan
        BY DEF TypeInv, Planned, Plan
      <3>3. QED
        BY <1>7, <2>3, <3>1, <3>2 DEF TypeInv, ReadTraveller, CallRow, Steps, InActivities, InScenes
    <2>4. QED
      BY <2>2, <2>3
  <1>8. ASSUME NEW c \in Characters, Stall(c) PROVE TypeInv'
    <2>1. Row(c) \in Activity /\ [Row(c) EXCEPT !.status = "interrupted", !.due = 0] \in Activity
      <3>1. Row(c) \in Activity
        BY <1>8 DEF TypeInv, Stall, Row, InActivities
      <3>2. QED
        BY <3>1 DEF TypeInv, Activity, ActivityStatus
    <2>2. activity' \in [Characters -> Activity]
      <3>1. Row(c).version \in Nat
        BY <2>1 DEF TypeInv, Activity
      <3>2. QED
        BY <1>8, <2>1, <3>1, SaveType DEF TypeInv, Stall
    <2>3. QED
      BY <1>8, <2>2 DEF TypeInv, Stall, CallRow, Steps, InActivities, InScenes
  <1>9. ASSUME NEW c \in Characters, Credit(c) PROVE TypeInv'
    <2>1. call.read.effects \in SUBSET Effect
      BY <1>9 DEF TypeInv, Credit, Plan
    <2>2. CASE credited[c] = Nothing /\ call.read.version[c] = version[c]
      <3>1. place' \in [Characters -> Places] /\ version' \in [Characters -> Nat]
        BY <1>9, <2>1, <2>2, ApplyType DEF TypeInv, Credit
      <3>2. credited' \in [Characters -> [effects : SUBSET Effect, times : Nat] \cup {Nothing}]
        <4>1. [effects |-> call.read.effects, times |-> 1] \in [effects : SUBSET Effect, times : Nat]
          BY <2>1
        <4>2. QED
          BY <1>9, <2>2, <4>1 DEF TypeInv, Credit, Credited
      <3>3. QED
        <4>1. /\ call.pc = "credit" /\ call' = [call EXCEPT !.pc = "save"]
              /\ UNCHANGED <<clock, runs, pending, fired, activity, scenes, disturbances, torn>>
          BY <1>9, <2>2 DEF Credit
        <4>2. QED
          BY <3>1, <3>2, <4>1 DEF TypeInv, CallRow, Steps, InActivities, InScenes
    <2>3. CASE ~(credited[c] = Nothing /\ call.read.version[c] = version[c])
      <3>1. /\ call.pc = "credit"
            /\ (call' = [call EXCEPT !.pc = "save"] /\ UNCHANGED torn) \/ Fails
            /\ UNCHANGED <<clock, runs, pending, fired, activity, credited, characters, scenes,
                           disturbances>>
        BY <1>9, <2>3 DEF Credit
      <3>2. QED
        BY <3>1, FailsType DEF TypeInv, CallRow, Steps, InActivities, InScenes
    <2>4. QED
      BY <2>2, <2>3
  <1>10. ASSUME NEW c \in Characters, SaveActivity(c) PROVE TypeInv'
    <2>1. Row(c) \in Activity /\ [Row(c) EXCEPT !.status = "completed"] \in Activity
      <3>1. Row(c) \in Activity
        BY <1>10 DEF TypeInv, SaveActivity, Row, InActivities
      <3>2. QED
        BY <3>1 DEF TypeInv, Activity, ActivityStatus
    <2>2. activity' \in [Characters -> Activity]
      <3>1. Row(c).version \in Nat
        BY <2>1 DEF TypeInv, Activity
      <3>2. QED
        BY <1>10, <2>1, <3>1, SaveType DEF TypeInv, SaveActivity
    <2>3. QED
      BY <1>10, <2>2 DEF TypeInv, SaveActivity, CallRow, Steps, InActivities, InScenes
  <1>11. CASE Seal
    BY <1>11 DEF TypeInv, Seal, Working, RunState, CallRow, Steps, InActivities, InScenes
  <1>12. CASE Decides
    <2>1. PICK intents \in Answers(Target) : Decide(intents)
      BY <1>12 DEF TypeInv, Decides
    <2>2. intents \in [Characters -> Sane]
      BY AnswerType
    <2>3. {SceneOf(intents, c) : c \in Characters} \subseteq SUBSET Characters
      BY DEF TypeInv, SceneOf
    <2>4. QED
      BY <2>1, <2>2, <2>3 DEF TypeInv, Decide, RunState, CallRow, Steps, InActivities, InScenes
  <1>13. CASE Resolve
    <2>1. PICK S \in call.todo : \E r \in Resolutions(S) :
             call' = [call EXCEPT !.pc = "commit", !.todo = @ \ {S}, !.subject = S,
                                  !.read = Planned(r.effects, r.ok)]
      BY <1>13 DEF TypeInv, Resolve
    <2>2. PICK r \in Resolutions(S) :
             call' = [call EXCEPT !.pc = "commit", !.todo = @ \ {S}, !.subject = S,
                                  !.read = Planned(r.effects, r.ok)]
      BY <2>1
    <2>3. S \in SUBSET Characters /\ call.intents \in [Characters -> Sane]
      BY <1>13 DEF TypeInv, Resolve, CallRow, InScenes
    <2>4. Planned(r.effects, r.ok) \in Plan
      BY <2>3, ResolutionType DEF TypeInv, Planned, Plan
    <2>5. QED
      BY <1>13, <2>2, <2>3, <2>4 DEF TypeInv, Resolve, CallRow, Steps, InActivities, InScenes
  <1>14. CASE CommitScene
    <2>1. call.read.effects \in SUBSET Effect
      BY <1>14 DEF TypeInv, CommitScene, Plan
    <2>2. CASE ~IntentStored /\ VersionsHold
      <3>1. place' \in [Characters -> Places] /\ version' \in [Characters -> Nat]
        BY <1>14, <2>1, <2>2, ApplyType DEF TypeInv, CommitScene
      <3>2. [members |-> Members, effects |-> call.read.effects, spars |-> Spars] \in Scene
        BY <2>1 DEF TypeInv, Scene, Members, Spars, CallRow
      <3>3. stored' \in [Index -> SUBSET Scene]
        <4>1. stored' = [stored EXCEPT ![Target] = @ \cup
                 {[members |-> Members, effects |-> call.read.effects, spars |-> Spars]}]
          BY <1>14, <2>2 DEF CommitScene, SaveScene
        <4>2. stored \in [Index -> SUBSET Scene]
          BY DEF TypeInv
        <4>3. QED
          BY <3>2, <4>1, <4>2
      <3>4. /\ call.pc = "commit" /\ call' = [call EXCEPT !.pc = "settle"]
            /\ UNCHANGED <<clock, runs, pending, fired, activities, bouts, disturbances, torn>>
        BY <1>14, <2>2 DEF CommitScene
      <3>5. QED
        BY <3>1, <3>3, <3>4 DEF TypeInv, CallRow, Steps, InActivities, InScenes
    <2>3. CASE ~(~IntentStored /\ VersionsHold)
      <3>1. /\ call.pc = "commit"
            /\ (call' = [call EXCEPT !.pc = "settle"] /\ UNCHANGED torn) \/ Fails
            /\ UNCHANGED <<clock, runs, pending, fired, activities, stored, characters, bouts,
                           disturbances>>
        BY <1>14, <2>3 DEF CommitScene
      <3>2. QED
        BY <3>1, FailsType DEF TypeInv, CallRow, Steps, InActivities, InScenes
    <2>4. QED
      BY <2>2, <2>3
  <1>15. CASE Settle
    <2>1. PICK c \in Characters : bouts' = [bouts EXCEPT ![<<Target, c>>] = @ + 1]
      BY <1>15 DEF TypeInv, Settle, Unsettled, Verbs, Spars, Members, CallRow
    <2>2. bouts' \in [Index \X Characters -> Nat]
      <3>1. bouts \in [Index \X Characters -> Nat]
        BY DEF TypeInv
      <3>2. \A at \in Index \X Characters : bouts[at] + 1 \in Nat
        BY <3>1
      <3> DEFINE at == <<Target, c>>
      <3>3. bouts' = [bouts EXCEPT ![at] = bouts[at] + 1]
        BY <2>1
      <3> HIDE DEF at
      <3>4. QED
        BY <3>1, <3>2, <3>3
    <2>3. QED
      BY <1>15, <2>2 DEF TypeInv, Settle
  <1>16. CASE SettleRaises
    BY <1>16, FailsType DEF TypeInv, SettleRaises, InActivities, InScenes
  <1>17. CASE NextScene
    BY <1>17 DEF TypeInv, NextScene, CallRow, Steps, InActivities, InScenes
  <1>18. CASE Finish
    BY <1>18, EndsType DEF TypeInv, Finish, RunState, InActivities, InScenes
  <1>19. QED
    BY <1>1, <1>2, <1>3, <1>4, <1>5, <1>6, <1>7, <1>8, <1>9, <1>10, <1>11, <1>12, <1>13,
       <1>14, <1>15, <1>16, <1>17, <1>18 DEF TypeInv, CallStep

LEMMA StepType == TypeInv /\ [Next]_vars => TypeInv'
  <1> SUFFICES ASSUME TypeInv, [Next]_vars PROVE TypeInv'
    OBVIOUS
  <1> USE DEF At, Goto, Target, Index, characters, activities, scenes
  <1>1. ASSUME NEW i \in Index, Start(i) PROVE TypeInv'
    <2>1. Idle \in CallRow
      BY Stage1Assumption DEF Idle, CallRow, Steps
    <2>2. call' \in CallRow /\ call'.pc = "create" /\ call'.target = i
      <3>1. call' = [Idle EXCEPT !.pc = "create", !.target = i]
        BY <1>1 DEF Start
      <3>2. i \in 0..MaxIndex
        BY Stage1Assumption
      <3> DEFINE start == "create"
      <3>3. start \in Steps
        BY DEF Steps
      <3>4. QED
        BY <2>1, <3>1, <3>2, <3>3 DEF CallRow
    <2>3. QED
      BY <1>1, <2>2 DEF Start, TypeInv, InActivities, InScenes
  <1>2. CASE CallStep
    BY <1>2, CallType
  <1>3. CASE Fault
    BY <1>3, FailsType, Stage1Assumption DEF Fault, Disturbance, TypeInv, InActivities, InScenes
  <1>4. ASSUME NEW i \in Index, Pause(i) \/ Resume(i) PROVE TypeInv'
    <2>1. runs' \in [Index -> RunState] /\ torn' \in BOOLEAN
      BY <1>4 DEF Pause, Resume, Gate, Reopens, TypeInv, RunState
    <2>2. QED
      <3>1. disturbances' \in 0..MaxDisturbances
        BY <1>4, Stage1Assumption DEF Pause, Resume, Edit, Disturbance, TypeInv
      <3>2. UNCHANGED <<clock, pending, fired, call, characters, activities, scenes>>
        BY <1>4 DEF Pause, Resume, Edit
      <3>3. QED
        BY <2>1, <3>1, <3>2 DEF TypeInv
  <1>5. ASSUME NEW c \in Characters, Override(c) PROVE TypeInv'
    BY <1>5, Stage1Assumption DEF Override, Edit, Disturbance, TypeInv
  <1>6. ASSUME NEW c \in Characters, NEW from, NEW status \in ActivityStatus, NEW due \in Nat,
               SetActivity(c, from, status, due)
        PROVE  TypeInv'
    <2>1. activity[c] \in Activity
      BY DEF TypeInv
    <2>2. /\ activity[c].version \in Nat
          /\ [activity[c] EXCEPT !.status = status, !.due = due] \in Activity
      BY <2>1 DEF Activity
    <2>3. activity' \in [Characters -> Activity]
      BY <1>6, <2>2, SaveType DEF SetActivity, TypeInv
    <2>4. torn' \in BOOLEAN
      BY <1>6 DEF SetActivity
    <2>5. QED
      BY <1>6, <2>3, <2>4, Stage1Assumption DEF SetActivity, Edit, Disturbance, TypeInv
  <1>7. ASSUME NEW c \in Characters, Interrupt(c) \/ Continue(c) \/ Cancel(c) PROVE TypeInv'
    <2>1. activity[c].due \in Nat /\ clock \in Nat
      BY Stage1Assumption DEF TypeInv, Activity
    <2>2. CASE Interrupt(c)
      BY <1>6, <2>1, <2>2 DEF Interrupt, ActivityStatus
    <2>3. CASE Continue(c)
      <3>1. clock + activity[c].due \in Nat /\ "active" \in ActivityStatus
        BY <2>1 DEF ActivityStatus
      <3>2. QED
        BY <1>6, <2>3, <3>1 DEF Continue
    <2>4. CASE Cancel(c)
      BY <1>6, <2>1, <2>4 DEF Cancel, ActivityStatus
    <2>5. QED
      BY <1>7, <2>2, <2>3, <2>4
  <1>8. CASE ResumePaused
    BY <1>8 DEF ResumePaused, Gate, TypeInv, RunState
  <1>9. CASE UNCHANGED vars
    BY <1>9 DEF vars, TypeInv, Members, CallRow
  <1>10. QED
    BY <1>1, <1>2, <1>3, <1>4, <1>5, <1>7, <1>8, <1>9 DEF Next, Command

(* Every variable of the runner keeps its type: what a call remembers of   *)
(* its phase is there when a step of it reads it.                          *)
THEOREM Stage1TypeCorrect == Spec => []TypeOK
  <1>1. TypeInv => TypeOK
    BY DEF TypeInv, TypeOK, Scene, CallRow, Target
  <1>2. QED
    BY <1>1, InitType, StepType, PTL DEF Spec

-----------------------------------------------------------------------------
(* Who writes what                                                         *)

\* The steps a call goes through, as pairs.
Flow == {<<"create", "previous">>, <<"previous", "tick">>, <<"tick", "ticked">>,
         <<"ticked", "fire">>, <<"fire", "due">>, <<"due", "activity">>,
         <<"activity", "activity">>, <<"activity", "credit">>, <<"credit", "save">>,
         <<"save", "activity">>, <<"activity", "decide">>, <<"decide", "scene">>,
         <<"scene", "commit">>, <<"commit", "settle">>, <<"settle", "scene">>}

\* A call goes on with its phase, or it ends, or it starts.
CallFlow ==
    \/ UNCHANGED call
    \/ call'.pc = "idle"
    \/ \E i \in Index : Start(i)
    \/ call'.target = Target /\ <<call.pc, call'.pc>> \in Flow

\* Each part of the database has few writers ...
Writers ==
    /\ FireSchedules \/ UNCHANGED <<pending, fired>>
    /\ CommitScene \/ UNCHANGED stored
    /\ Settle \/ UNCHANGED bouts
    /\ (\E c \in Characters : Credit(c)) \/ UNCHANGED credited
    /\ Tick \/ UNCHANGED clock
    /\ Finish \/ \A i \in Index : runs'[i] = "completed" => runs[i] = "completed"

\* ... and so have the scenes and the step of a call.
SceneWriters ==
    /\ call'.pc \in InScenes =>
          Decides \/ Resolve \/ CommitScene \/ NextScene \/ UNCHANGED call
    /\ call'.pc = "tick" => RequirePrevious \/ UNCHANGED call
    /\ call'.pc = "due" => FireSchedules \/ UNCHANGED call
    /\ call'.pc = "create" => (\E i \in Index : Start(i)) \/ UNCHANGED call
    /\ call'.pc \in {"previous", "tick"} => CreateRun \/ RequirePrevious \/ UNCHANGED call

Frame == CallFlow /\ Writers /\ SceneWriters

LEMMA StepFrame == TypeInv /\ [Next]_vars => Frame
  <1> SUFFICES ASSUME TypeInv, [Next]_vars PROVE Frame
    OBVIOUS
  <1>a. call \in CallRow /\ runs \in [Index -> RunState] /\ (call.pc # "idle" => Target \in Index)
    BY DEF TypeInv
  <1> USE DEF Frame, CallFlow, Writers, SceneWriters, At, Goto, Target, characters, activities,
              scenes, InScenes
  <1>1. ASSUME NEW i \in Index, Start(i) PROVE Frame
    BY <1>1 DEF Start, Idle
  <1>2. CASE CreateRun
    BY <1>2, <1>a DEF CreateRun, Existing, Flow, CallRow
  <1>3. CASE RequirePrevious
    BY <1>3, <1>a DEF RequirePrevious, Fails, Ends, Idle, Flow, CallRow
  <1>4. CASE Tick
    BY <1>4, <1>a DEF Tick, Flow, CallRow
  <1>5. CASE MarkTicked
    BY <1>5, <1>a DEF MarkTicked, Working, Flow, CallRow
  <1>6. CASE FireSchedules
    BY <1>6, <1>a DEF FireSchedules, Flow, CallRow
  <1>7. CASE ReadDue
    BY <1>7, <1>a DEF ReadDue, Flow, CallRow
  <1>8. ASSUME NEW c \in Characters, ReadTraveller(c) PROVE Frame
    <2>1. CASE Row(c).kind = "travel" /\ Row(c).to = place[c]
      BY <1>8, <2>1 DEF ReadTraveller, Ends, Idle
    <2>2. CASE ~(Row(c).kind = "travel" /\ Row(c).to = place[c])
      BY <1>8, <1>a, <2>2 DEF ReadTraveller, Flow, CallRow
    <2>3. QED
      BY <2>1, <2>2
  <1>9. ASSUME NEW c \in Characters, Stall(c) PROVE Frame
    BY <1>9, <1>a DEF Stall, Flow, CallRow
  <1>10. ASSUME NEW c \in Characters, Credit(c) PROVE Frame
    BY <1>10, <1>a DEF Credit, Fails, Ends, Idle, Flow, CallRow
  <1>11. ASSUME NEW c \in Characters, SaveActivity(c) PROVE Frame
    BY <1>11, <1>a DEF SaveActivity, Flow, CallRow
  <1>12. CASE Seal
    BY <1>12, <1>a DEF Seal, Working, Flow, CallRow
  <1>13. CASE Decides
    BY <1>13, <1>a DEF Decides, Decide, Flow, CallRow
  <1>14. CASE Resolve
    BY <1>14, <1>a DEF Resolve, Flow, CallRow
  <1>15. CASE CommitScene
    BY <1>15, <1>a DEF CommitScene, Fails, Ends, Idle, Flow, CallRow
  <1>16. CASE Settle
    BY <1>16, <1>a DEF Settle
  <1>17. CASE SettleRaises
    BY <1>17, <1>a DEF SettleRaises, Fails, Ends, Idle
  <1>18. CASE NextScene
    BY <1>18, <1>a DEF NextScene, Flow, CallRow
  <1>19. CASE Finish
    BY <1>19, <1>a DEF Finish, Ends, Idle
  <1>20. CASE Fault
    BY <1>20, <1>a DEF Fault, Fails, Ends, Idle
  <1>21. CASE Command
    BY <1>21, <1>a DEF Command, Pause, Resume, Gate, Override, Interrupt, Continue, Cancel,
                       SetActivity, Edit
  <1>22. CASE ResumePaused
    BY <1>22, <1>a DEF ResumePaused, Gate
  <1>23. CASE UNCHANGED vars
    BY <1>23 DEF vars
  <1>24. QED
    BY <1>1, <1>2, <1>3, <1>4, <1>5, <1>6, <1>7, <1>8, <1>9, <1>10, <1>11, <1>12, <1>13, <1>14,
       <1>15, <1>16, <1>17, <1>18, <1>19, <1>20, <1>21, <1>22, <1>23 DEF Next, CallStep

-----------------------------------------------------------------------------
(* Schedules                                                               *)

LEMMA ScheduleInit == Init => ScheduleInv
  BY DEF Init, ScheduleInv, Idle, PastFiring, InActivities, InScenes

LEMMA ScheduleStep == TypeInv /\ ScheduleInv /\ [Next]_vars => ScheduleInv'
  <1> SUFFICES ASSUME TypeInv, ScheduleInv, [Next]_vars PROVE ScheduleInv'
    OBVIOUS
  <1>1. Frame
    BY StepFrame
  <1>2. CASE FireSchedules
    <2>1. /\ pending' = {i \in pending : i > Target} /\ UNCHANGED stored
          /\ fired' = [i \in Index |-> IF i \in pending /\ i <= Target THEN fired[i] + 1 ELSE fired[i]]
          /\ call'.target = Target /\ call.pc = "fire"
      BY <1>2 DEF FireSchedules, scenes, Goto, TypeInv, CallRow, Target, At
    <2>2. Target \in Index /\ Index \subseteq Nat
      BY <2>1 DEF TypeInv, Index
    <2>3. Target' \notin pending'
      <3>1. Target' = Target
        BY <2>1 DEF Target
      <3>2. ~(Target > Target)
        BY <2>2
      <3>3. QED
        BY <2>1, <3>1, <3>2
    <2>4. \A i \in Index : fired'[i] = IF i \in pending' THEN 0 ELSE 1
      BY <2>1, <2>2 DEF ScheduleInv
    <2>5. QED
      BY <2>1, <2>3, <2>4 DEF ScheduleInv
  <1>3. CASE ~FireSchedules
    <2>1. UNCHANGED <<pending, fired>>
      BY <1>1, <1>3 DEF Frame, Writers
    <2>2. call'.pc \in PastFiring => call.pc \in PastFiring /\ Target' = Target
      <3>1. CASE UNCHANGED call
        BY <3>1 DEF Target
      <3>2. CASE \E i \in Index : Start(i)
        BY <3>2 DEF Start, Idle, PastFiring, InActivities, InScenes
      <3>3. CASE call'.target = Target /\ <<call.pc, call'.pc>> \in Flow
        BY <1>1, <1>3, <3>3
        DEF Frame, SceneWriters, Flow, Target, PastFiring, InActivities, InScenes
      <3>4. QED
        BY <1>1, <3>1, <3>2, <3>3 DEF Frame, CallFlow, PastFiring, InActivities, InScenes
    <2>3. \A i \in Index : stored'[i] # {} => i \notin pending
      <3>1. CASE CommitScene
        <4>1. Target \in Index /\ Target \notin pending
          BY <3>1 DEF CommitScene, At, TypeInv, ScheduleInv, PastFiring, InScenes
        <4>2. \A i \in Index : i # Target => stored'[i] = stored[i]
          BY <3>1 DEF CommitScene, SaveScene, TypeInv
        <4>3. QED
          BY <4>1, <4>2 DEF ScheduleInv
      <3>2. QED
        BY <1>1, <3>1 DEF Frame, Writers, ScheduleInv
    <2>4. QED
      BY <2>1, <2>2, <2>3 DEF ScheduleInv
  <1>4. QED
    BY <1>2, <1>3

-----------------------------------------------------------------------------
(* Scenes                                                                  *)

LEMMA LinkedSymmetric ==
    ASSUME NEW intents, NEW a, NEW b, Linked(intents, a, b)
    PROVE  Linked(intents, b, a)
  BY DEF Linked

\* The scenes of a phase partition the characters.
LEMMA ScenesPartition ==
    ASSUME NEW intents
    PROVE  /\ \A c \in Characters : c \in SceneOf(intents, c)
           /\ \A c, d \in Characters :
                 SceneOf(intents, c) # SceneOf(intents, d)
                 => SceneOf(intents, c) \cap SceneOf(intents, d) = {}
  <1> DEFINE Closed(S) == \A a \in S, b \in Characters : Linked(intents, a, b) => b \in S
             Of(c) == SceneOf(intents, c)
  <1>1. \A c, d \in Characters :
           d \in Of(c) <=> \A S \in SUBSET Characters : c \in S /\ Closed(S) => d \in S
    BY DEF SceneOf
  <1>2. \A c \in Characters : Of(c) \subseteq Characters
    BY DEF SceneOf
  <1> HIDE DEF Of
  <1>3. \A c \in Characters : c \in Of(c)
    BY <1>1
  <1>4. ASSUME NEW c \in Characters PROVE Closed(Of(c))
    <2>1. SUFFICES ASSUME NEW a \in Of(c), NEW b \in Characters, Linked(intents, a, b),
                          NEW S \in SUBSET Characters, c \in S, Closed(S)
                   PROVE  b \in S
      BY <1>1
    <2>2. a \in S
      BY <1>1, <1>2, <2>1
    <2>3. QED
      BY <2>1, <2>2
  <1>5. ASSUME NEW c \in Characters, NEW d \in Of(c) PROVE Of(d) \subseteq Of(c)
    <2>1. d \in Characters /\ Of(c) \in SUBSET Characters
      BY <1>2, <1>5
    <2>2. QED
      BY <1>1, <1>2, <1>4, <1>5, <2>1
  <1>6. ASSUME NEW c \in Characters, NEW d \in Of(c) PROVE c \in Of(d)
    <2>1. d \in Characters
      BY <1>2, <1>6
    <2> DEFINE Rest == Of(c) \ Of(d)
    <2>2. Closed(Rest)
      <3>1. SUFFICES ASSUME NEW a \in Rest, NEW b \in Characters, Linked(intents, a, b)
                     PROVE  b \in Rest
        OBVIOUS
      <3>2. b \in Of(c)
        BY <1>4, <3>1
      <3>3. ASSUME b \in Of(d) PROVE FALSE
        <4>1. Linked(intents, b, a) /\ a \in Characters
          BY <1>2, <3>1, LinkedSymmetric
        <4>2. a \in Of(d)
          BY <1>4, <2>1, <3>3, <4>1
        <4>3. QED
          BY <3>1, <4>2
      <3>4. QED
        BY <3>2, <3>3
    <2>3. ASSUME c \notin Of(d) PROVE FALSE
      <3>1. Rest \in SUBSET Characters /\ c \in Rest
        BY <1>2, <1>3, <2>3
      <3>2. d \in Rest
        BY <1>1, <2>1, <2>2, <3>1, <1>6
      <3>3. QED
        BY <1>3, <2>1, <3>2
    <2>4. QED
      BY <2>3
  <1>7. ASSUME NEW c \in Characters, NEW d \in Characters, NEW e \in Of(c) \cap Of(d)
        PROVE  Of(c) = Of(d)
    <2>1. e \in Characters
      BY <1>2
    <2>2. Of(c) \subseteq Of(e) /\ Of(d) \subseteq Of(e)
      BY <1>5, <1>6, <2>1
    <2>3. Of(e) \subseteq Of(c) /\ Of(e) \subseteq Of(d)
      BY <1>5
    <2>4. QED
      BY <2>2, <2>3
  <1>8. QED
    BY <1>3, <1>7 DEF Of

\* The two ways out of a commit that do not end the call.
LEMMA CommitCases ==
    ASSUME TypeInv, CommitScene
    PROVE  /\ Target \in Index /\ call.pc = "commit"
           /\ \/ /\ ~IntentStored
                 /\ call' = [call EXCEPT !.pc = "settle"] /\ UNCHANGED torn
                 /\ stored' = [stored EXCEPT ![Target] = @ \cup
                       {[members |-> Members, effects |-> call.read.effects, spars |-> Spars]}]
              \/ /\ SceneStored # {}
                 /\ call' = [call EXCEPT !.pc = "settle"]
                 /\ UNCHANGED <<torn, stored>>
              \/ Fails /\ UNCHANGED stored
  <1>1. Target \in Index /\ call.pc = "commit"
    BY DEF CommitScene, At, TypeInv
  <1>2. CASE ~IntentStored /\ VersionsHold
    BY <1>1, <1>2 DEF CommitScene, SaveScene, Goto
  <1>3. CASE ~(~IntentStored /\ VersionsHold)
    BY <1>1, <1>3 DEF CommitScene, Goto
  <1>4. QED
    BY <1>2, <1>3

LEMMA WholeInit == Init => WholeInv
  BY DEF Init, WholeInv, Idle, InScenes, Index

\* Stored scenes stay.
LEMMA CoveredGrows ==
    ASSUME TypeInv, [Next]_vars, NEW i \in Index
    PROVE  /\ stored[i] \subseteq stored'[i]
           /\ Covered(i) \subseteq Covered(i)'
           /\ Covered(i)' \subseteq Characters
  <1>1. stored[i] \subseteq stored'[i]
    <2>1. CASE CommitScene
      BY <2>1, CommitCases DEF TypeInv
    <2>2. CASE UNCHANGED stored
      BY <2>2
    <2>3. QED
      BY <2>1, <2>2, StepFrame DEF Frame, Writers
  <1>2. stored'[i] \subseteq Scene
    BY StepType DEF TypeInv
  <1>3. \A s \in Scene : s.members \subseteq Characters
    BY DEF Scene
  <1>4. QED
    BY <1>1, <1>2, <1>3 DEF Covered

LEMMA WholeScenes ==
    ASSUME TypeInv, WholeInv, [Next]_vars, call'.pc \in InScenes
    PROVE  Characters \subseteq Covered(Target)' \cup (UNION call'.todo)
                                \cup (IF call'.pc = "commit" THEN call'.subject ELSE {})
  <1> DEFINE Rest == (UNION call.todo) \cup (IF call.pc = "commit" THEN call.subject ELSE {})
  <1>1. call.pc \in InScenes => Characters \subseteq Covered(Target) \cup Rest
    BY DEF WholeInv, Members
  <1>2. ASSUME call.pc \in InScenes, call'.target = Target
        PROVE  Characters \subseteq Covered(Target)' \cup Rest
    <2>1. Target \in Index
      BY <1>2 DEF TypeInv, InScenes
    <2>2. Covered(Target) \subseteq Covered(Target)'
      BY <1>2, <2>1, CoveredGrows DEF Covered, Target
    <2>3. QED
      BY <1>1, <1>2, <2>2
  <1>3. call \in CallRow
    BY DEF TypeInv
  <1>4. CASE Decides
    <2>1. PICK intents \in Answers(Target) : Decide(intents)
      BY <1>4 DEF Decides
    <2>2. call'.todo = {SceneOf(intents, c) : c \in Characters}
      BY <1>3, <2>1 DEF Decide, CallRow
    <2>3. QED
      BY <2>2, ScenesPartition
  <1>5. CASE Resolve
    <2>1. PICK S \in call.todo :
             /\ call'.todo = call.todo \ {S} /\ call'.subject = S
             /\ call.pc = "scene" /\ call'.pc = "commit" /\ call'.target = Target
      BY <1>3, <1>5 DEF Resolve, At, CallRow, Target
    <2>2. UNION call.todo \subseteq (UNION call'.todo) \cup call'.subject
      <3>1. SUFFICES ASSUME NEW T \in call.todo, NEW c \in T
                     PROVE  c \in (UNION call'.todo) \cup call'.subject
        OBVIOUS
      <3>2. T = S \/ T \in call'.todo
        BY <2>1
      <3>3. QED
        BY <2>1, <3>2
    <2>3. Rest = UNION call.todo /\ call.pc \in InScenes
      BY <2>1 DEF InScenes
    <2>4. QED
      BY <1>2, <2>1, <2>2, <2>3
  <1>6. CASE CommitScene
    <2>1. /\ call.pc = "commit" /\ call'.pc = "settle" /\ call'.target = Target
          /\ call'.todo = call.todo /\ Target \in Index
          /\ \E s \in stored'[Target] : s.members = Members
      <3>1. ~Fails
        BY DEF Fails, Ends, Idle, InScenes
      <3>2. CASE ~IntentStored /\ call' = [call EXCEPT !.pc = "settle"]
                 /\ stored' = [stored EXCEPT ![Target] = @ \cup
                       {[members |-> Members, effects |-> call.read.effects, spars |-> Spars]}]
        <4> DEFINE new == [members |-> Members, effects |-> call.read.effects, spars |-> Spars]
        <4>1. new \in stored'[Target] /\ new.members = Members /\ Target \in Index
          BY <1>6, <3>2, CommitCases DEF TypeInv
        <4>2. call.pc = "commit" /\ call'.pc = "settle" /\ call'.target = Target
              /\ call'.todo = call.todo
          BY <1>3, <1>6, <3>2, CommitCases DEF CallRow, Target
        <4> HIDE DEF new
        <4>3. QED
          BY <4>1, <4>2
      <3>3. CASE SceneStored # {} /\ call' = [call EXCEPT !.pc = "settle"] /\ UNCHANGED stored
        BY <1>3, <1>6, <3>3, CommitCases DEF SceneStored, CallRow, Target
      <3>4. QED
        BY <1>6, <3>1, <3>2, <3>3, CommitCases
    <2>2. Members \subseteq Covered(Target)'
      BY <2>1 DEF Covered, Target
    <2>3. Rest = (UNION call'.todo) \cup Members /\ call.pc \in InScenes
      BY <2>1 DEF InScenes, Members
    <2>4. Characters \subseteq Covered(Target)' \cup Rest
      BY <1>2, <2>1, <2>3
    <2>5. QED
      BY <2>1, <2>2, <2>3, <2>4
  <1>7. CASE NextScene
    <2>1. /\ call.pc = "settle" /\ call'.pc = "scene" /\ call'.target = Target
          /\ call'.todo = call.todo
      BY <1>3, <1>7 DEF NextScene, At, CallRow, Target
    <2>2. QED
      BY <1>2, <2>1 DEF InScenes
  <1>8. CASE UNCHANGED call
    BY <1>2, <1>8 DEF Target
  <1>9. QED
    BY <1>4, <1>5, <1>6, <1>7, <1>8, StepFrame DEF Frame, SceneWriters

LEMMA WholeStep == TypeInv /\ WholeInv /\ [Next]_vars => WholeInv'
  <1> SUFFICES ASSUME TypeInv, WholeInv, [Next]_vars PROVE WholeInv'
    OBVIOUS
  <1>1. Frame
    BY StepFrame
  <1>2. \A i \in Index : Covered(i) = Characters => Covered(i)' = Characters
    BY CoveredGrows
  <1>3. ASSUME NEW i \in Index, runs'[i] = "completed" PROVE Covered(i)' = Characters
    <2>1. CASE runs[i] = "completed"
      BY <1>2, <2>1 DEF WholeInv
    <2>2. CASE Finish /\ runs[i] # "completed"
      <3>1. i = Target /\ call.pc = "scene" /\ call.todo = {}
        BY <1>3, <2>2 DEF Finish, At, TypeInv
      <3>2. Characters \subseteq Covered(i)
        BY <3>1 DEF WholeInv, InScenes
      <3>3. QED
        BY <3>2, CoveredGrows
    <2>3. QED
      BY <1>1, <1>3, <2>1, <2>2 DEF Frame, Writers
  <1>4. ASSUME NEW i \in Index, i < clock' PROVE Covered(i)' = Characters
    <2>1. CASE Tick
      <3>1. clock' = Target /\ call.pc = "tick" /\ Target \in Index /\ clock \in Nat
        BY <2>1, Stage1Assumption DEF Tick, SetClock, At, TypeInv
      <3>2. i < clock \/ (i = Target - 1 /\ Target # 1)
        BY <1>4, <3>1 DEF WholeInv, Index
      <3>3. QED
        BY <1>2, <3>1, <3>2 DEF WholeInv
    <2>2. CASE UNCHANGED clock
      BY <1>2, <1>4, <2>2 DEF WholeInv
    <2>3. QED
      BY <1>1, <2>1, <2>2 DEF Frame, Writers
  <1>5. ASSUME call'.pc \in {"create", "previous", "tick"}
        PROVE  clock' \in {Target' - 1, Target'}
    <2>1. UNCHANGED clock
      <3>1. Tick => call'.pc = "ticked"
        BY DEF Tick, Goto, TypeInv, CallRow
      <3>2. QED
        BY <1>1, <1>5, <3>1 DEF Frame, Writers
    <2>2. CASE \E i \in Index : Start(i)
      BY <2>1, <2>2 DEF Start, Target, Idle
    <2>3. CASE CreateRun \/ RequirePrevious
      <3>1. call.pc \in {"create", "previous"} /\ call'.target = Target
        BY <1>1, <1>5, <2>3
        DEF Frame, CallFlow, Start, CreateRun, RequirePrevious, At, Target
      <3>2. QED
        BY <2>1, <3>1 DEF WholeInv, Target
    <2>4. CASE UNCHANGED call
      BY <1>5, <2>1, <2>4 DEF WholeInv, Target
    <2>5. QED
      BY <1>1, <1>5, <2>2, <2>3, <2>4 DEF Frame, SceneWriters
  <1>6. ASSUME call'.pc = "tick"
        PROVE  Target' = 1 \/ Covered(Target - 1)' = Characters
    <2>1. CASE RequirePrevious
      <3>1. Target' = Target /\ (Target = 1 \/ runs[Target - 1] = "completed") /\ Target \in Index
        BY <1>6, <2>1 DEF RequirePrevious, Fails, Ends, Idle, Goto, At, Target, TypeInv, CallRow
      <3>2. Target # 1 => Target - 1 \in Index
        BY <3>1, Stage1Assumption DEF Index
      <3>3. Target # 1 => Covered(Target - 1) = Characters
        BY <3>1, <3>2 DEF WholeInv
      <3>4. QED
        BY <1>2, <3>1, <3>2, <3>3
    <2>2. CASE UNCHANGED call
      <3>1. Target' = Target /\ call.pc = "tick" /\ Target \in Index
        BY <1>6, <2>2 DEF Target, TypeInv
      <3>2. Target # 1 => Target - 1 \in Index
        BY <3>1, Stage1Assumption DEF Index
      <3>3. QED
        BY <1>2, <3>1, <3>2 DEF WholeInv
    <2>3. QED
      BY <1>1, <1>6, <2>1, <2>2 DEF Frame, SceneWriters
  <1>7. QED
    BY <1>3, <1>4, <1>5, <1>6, WholeScenes DEF WholeInv, Members, Index

-----------------------------------------------------------------------------
(* Once                                                                    *)

LEMMA OnceInit == Init => OnceInv
  BY DEF Init, OnceInv, OneScenePerIntent, SettledOnce, CompletesOnce

LEMMA OnceStep == TypeInv /\ OnceInv /\ [Next]_vars => OnceInv'
  <1> SUFFICES ASSUME TypeInv, OnceInv, [Next]_vars PROVE OnceInv'
    OBVIOUS
  <1>1. Writers
    BY StepFrame DEF Frame
  <1>2. OneScenePerIntent'
    <2>1. CASE UNCHANGED stored
      BY <2>1 DEF OnceInv, OneScenePerIntent
    <2>2. CASE CommitScene /\ ~UNCHANGED stored
      <3> DEFINE new == [members |-> Members, effects |-> call.read.effects, spars |-> Spars]
      <3>1. ~IntentStored /\ stored' = [stored EXCEPT ![Target] = @ \cup {new}]
        BY <2>2, CommitCases
      <3>2. \A s \in stored[Target] : s.members \cap Members = {}
        BY <3>1 DEF IntentStored
      <3>3. new.members = Members
        OBVIOUS
      <3> HIDE DEF new
      <3>4. ASSUME NEW i \in Index, NEW s \in stored'[i], NEW t \in stored'[i], s # t
            PROVE  s.members \cap t.members = {}
        <4>1. s \in stored[i] /\ t \in stored[i] => s.members \cap t.members = {}
          BY <3>4 DEF OnceInv, OneScenePerIntent
        <4>2. CASE i = Target
          BY <3>1, <3>2, <3>3, <3>4, <4>1, <4>2 DEF TypeInv
        <4>3. CASE i # Target
          BY <3>1, <3>4, <4>1, <4>3 DEF TypeInv
        <4>4. QED
          BY <4>2, <4>3
      <3>5. QED
        BY <3>4 DEF OneScenePerIntent
    <2>3. QED
      BY <1>1, <2>1, <2>2 DEF Writers
  <1>3. SettledOnce'
    <2>1. CASE Settle
      <3>1. PICK at \in Index \X Characters :
               bouts[at] = 0 /\ bouts' = [bouts EXCEPT ![at] = @ + 1]
        <4>1. PICK c \in Unsettled : bouts' = [bouts EXCEPT ![<<Target, c>>] = @ + 1]
          BY <2>1 DEF Settle
        <4>2. Target \in Index /\ c \in Characters /\ bouts[<<Target, c>>] = 0
          BY <2>1, <4>1 DEF Settle, At, Unsettled, Verbs, Spars, Members, TypeInv, CallRow
        <4>3. QED
          BY <4>1, <4>2
      <3>2. bouts \in [Index \X Characters -> Nat]
        BY DEF TypeInv
      <3>3. QED
        BY <3>1, <3>2 DEF OnceInv, SettledOnce
    <2>2. CASE UNCHANGED bouts
      BY <2>2 DEF OnceInv, SettledOnce
    <2>3. QED
      BY <1>1, <2>1, <2>2 DEF Writers
  <1>4. CompletesOnce'
    <2>1. ASSUME NEW c \in Characters, Credit(c) PROVE CompletesOnce'
      <3>1. \/ UNCHANGED credited
            \/ credited' = [credited EXCEPT ![c] = [effects |-> call.read.effects, times |-> 1]]
        BY <2>1 DEF Credit, Credited
      <3>2. QED
        BY <3>1 DEF OnceInv, CompletesOnce, TypeInv
    <2>2. CASE UNCHANGED credited
      BY <2>2 DEF OnceInv, CompletesOnce
    <2>3. QED
      BY <1>1, <2>1, <2>2 DEF Writers
  <1>5. QED
    BY <1>2, <1>3, <1>4 DEF OnceInv

-----------------------------------------------------------------------------
(* Until a phase is run again                                              *)

\* What has been torn stays torn; a call that breaks off with something stored
\* tears its phase, and so does whoever reopens a run.
TornFrame ==
    /\ torn => torn'
    /\ call.pc \in InScenes /\ call'.pc = "idle" => Finish \/ torn' \/ stored[Target] = {}
    /\ \A i \in Index : runs[i] = "completed" =>
          runs'[i] = "completed" \/ torn' \/ (i = Target /\ call.pc # "idle")

LEMMA StepTornFrame == TypeInv /\ [Next]_vars => TornFrame
  <1> SUFFICES ASSUME TypeInv, [Next]_vars PROVE TornFrame
    OBVIOUS
  <1>1. call \in CallRow /\ runs \in [Index -> RunState] /\ (call.pc # "idle" => Target \in Index)
    BY DEF TypeInv
  <1> USE DEF TornFrame, At, Goto, Target, InScenes
  <1>2. CASE \E i \in Index : Start(i)
    BY <1>2 DEF Start, Idle
  <1>3. CASE CreateRun
    BY <1>1, <1>3 DEF CreateRun, Existing
  <1>4. CASE RequirePrevious
    BY <1>1, <1>4 DEF RequirePrevious, Fails, Torn
  <1>5. CASE MarkTicked \/ Seal
    BY <1>1, <1>5 DEF MarkTicked, Seal, Working
  <1>6. CASE Tick \/ FireSchedules \/ ReadDue
    BY <1>1, <1>6 DEF Tick, FireSchedules, ReadDue, CallRow
  <1>7. CASE Decides
    BY <1>1, <1>7 DEF Decides, Decide
  <1>8. CASE Resolve
    BY <1>1, <1>8 DEF Resolve, CallRow
  <1>10. CASE NextScene
    BY <1>1, <1>10 DEF NextScene, CallRow
  <1>9. CASE Settle
    BY <1>9 DEF Settle
  <1>11. ASSUME NEW c \in Characters, ReadTraveller(c) \/ Stall(c) PROVE TornFrame
    BY <1>11 DEF ReadTraveller, Stall
  <1>12. ASSUME NEW c \in Characters, Credit(c) PROVE TornFrame
    <2>1. /\ call.pc = "credit" /\ UNCHANGED runs
          /\ UNCHANGED torn \/ Fails
      BY <1>12 DEF Credit
    <2>2. torn => torn'
      BY <2>1, Zenon DEF Fails, Torn
    <2>3. call.pc \notin InScenes
      BY <2>1
    <2>4. QED
      BY <2>1, <2>2, <2>3
  <1>13. ASSUME NEW c \in Characters, SaveActivity(c) PROVE TornFrame
    BY <1>13 DEF SaveActivity
  <1>14. CASE CommitScene \/ SettleRaises \/ Fault
    BY <1>1, <1>14 DEF CommitScene, SettleRaises, Fault, Fails, Torn, CallRow
  <1>15. CASE Finish
    BY <1>1, <1>15 DEF Finish
  <1>16. ASSUME NEW i \in Index, Pause(i) \/ Resume(i) PROVE TornFrame
    BY <1>1, <1>16 DEF Pause, Resume, Gate, Reopens, Edit
  <1>17. ASSUME NEW c \in Characters, Override(c) \/ Interrupt(c) \/ Continue(c) \/ Cancel(c)
        PROVE  TornFrame
    <2>1. ASSUME NEW from, NEW status, NEW due, SetActivity(c, from, status, due) PROVE TornFrame
      BY <2>1 DEF SetActivity, Edit
    <2>2. QED
      BY <1>17, <2>1 DEF Override, Interrupt, Continue, Cancel, Edit
  <1>18. CASE ResumePaused
    BY <1>1, <1>18 DEF ResumePaused, Gate
  <1>19. CASE UNCHANGED vars
    BY <1>19 DEF vars, activities, characters, scenes
  <1>20. QED
    BY <1>2, <1>3, <1>4, <1>5, <1>6, <1>7, <1>8, <1>9, <1>10, <1>11, <1>12, <1>13, <1>14, <1>15,
       <1>16, <1>17, <1>18, <1>19
    DEF Next, CallStep, Command

LEMMA UntornInit == Init => UntornInv
  <1>1. Init => SettledIsCanon
    <2>1. Init => \A at \in Index \X Characters : ~(bouts[at] > 0)
      BY DEF Init
    <2>2. \A i \in Index, c \in Characters : <<i, c>> \in Index \X Characters
      OBVIOUS
    <2>3. QED
      BY <2>1, <2>2 DEF SettledIsCanon
  <1>2. Init => call.pc = "idle" /\ \A i \in Index : stored[i] = {}
    BY DEF Init, Idle
  <1>3. QED
    BY <1>1, <1>2 DEF UntornInv, Apart, StoredIsClosed, StoredIsApart, SceneIsStored, InScenes

LEMMA ApartStep ==
    ASSUME TypeInv, Apart, [Next]_vars
    PROVE  Apart'
  <1>1. call \in CallRow
    BY DEF TypeInv
  <1>2. CASE Decides
    <2>1. PICK intents \in Answers(Target) : Decide(intents)
      BY <1>2 DEF Decides
    <2>2. call'.todo = {SceneOf(intents, c) : c \in Characters} /\ call'.pc = "scene"
      BY <1>1, <2>1 DEF Decide, CallRow
    <2>3. QED
      BY <2>2, ScenesPartition DEF Apart
  <1>3. CASE Resolve
    <2>1. PICK S \in call.todo :
             /\ call'.todo = call.todo \ {S} /\ call'.subject = S
             /\ call.pc = "scene" /\ call'.pc = "commit"
      BY <1>1, <1>3 DEF Resolve, At, CallRow
    <2>2. QED
      BY <2>1 DEF Apart, Members, InScenes
  <1>4. CASE CommitScene
    <2>1. call'.pc = "idle" \/ call' = [call EXCEPT !.pc = "settle"]
      BY <1>4, CommitCases DEF Fails, Ends, Idle
    <2>2. call.pc = "commit"
      BY <1>4, CommitCases
    <2>3. QED
      BY <1>1, <2>1, <2>2 DEF Apart, Members, InScenes, CallRow
  <1>5. CASE NextScene
    <2>1. call.pc = "settle" /\ call'.pc = "scene" /\ call'.todo = call.todo
      BY <1>1, <1>5 DEF NextScene, At, CallRow
    <2>2. QED
      BY <2>1 DEF Apart, Members, InScenes
  <1>6. CASE UNCHANGED call
    BY <1>6 DEF Apart, Members
  <1>7. CASE call'.pc \notin InScenes
    BY <1>7 DEF Apart
  <1>8. QED
    BY <1>2, <1>3, <1>4, <1>5, <1>6, <1>7, StepFrame DEF Frame, SceneWriters

\* A call that has not ended goes on with the same phase.
LEMMA SamePhase ==
    ASSUME TypeInv, [Next]_vars, call.pc # "idle", call'.pc # "idle"
    PROVE  Target' = Target
  BY StepFrame DEF Frame, CallFlow, Start, At, Target

LEMMA OpenStep ==
    ASSUME TypeInv, call.pc # "idle" => runs[Target] # "completed", [Next]_vars,
           call'.pc # "idle"
    PROVE  runs'[Target'] # "completed"
  <1>1. Target' \in Index
    BY StepType DEF TypeInv
  <1>2. ~Finish
    BY DEF Finish, Ends, Idle
  <1>3. \A i \in Index : runs'[i] = "completed" => runs[i] = "completed"
    BY <1>2, StepFrame DEF Frame, Writers
  <1>4. CASE call.pc # "idle"
    BY <1>1, <1>3, <1>4, SamePhase
  <1>5. CASE call.pc = "idle"
    <2>1. ASSUME UNCHANGED call PROVE FALSE
      BY <1>5, <2>1
    <2>2. <<call.pc, call'.pc>> \notin Flow
      BY <1>5 DEF Flow
    <2>3. PICK i \in Index : Start(i)
      BY <2>1, <2>2, StepFrame DEF Frame, CallFlow
    <2>4. Target' = i /\ runs[i] # "completed"
      BY <2>3 DEF Start, Target, Idle
    <2>5. QED
      BY <1>3, <2>4
  <1>6. QED
    BY <1>4, <1>5

LEMMA UntornStep == TypeInv /\ UntornInv /\ [Next]_vars => UntornInv'
  <1> SUFFICES ASSUME TypeInv, UntornInv, [Next]_vars PROVE UntornInv'
    OBVIOUS
  <1>1. Frame /\ TornFrame
    BY StepFrame, StepTornFrame
  <1>2. Apart' /\ (call'.pc # "idle" => runs'[Target'] # "completed")
    BY ApartStep, OpenStep DEF UntornInv
  <1>3. SUFFICES ASSUME ~torn'
                 PROVE  SettledIsCanon' /\ StoredIsClosed' /\ StoredIsApart' /\ SceneIsStored'
    BY <1>2 DEF UntornInv
  <1>4. SettledIsCanon /\ StoredIsClosed /\ StoredIsApart /\ SceneIsStored
    BY <1>1, <1>3 DEF TornFrame, UntornInv
  <1>5. call \in CallRow /\ stored \in [Index -> SUBSET Scene] /\ (call.pc # "idle" => Target \in Index)
    BY DEF TypeInv
  <1> DEFINE new == [members |-> Members, effects |-> call.read.effects, spars |-> Spars]
  <1>6. ASSUME CommitScene, call'.pc # "idle"
        PROVE  /\ Target \in Index /\ call.pc = "commit" /\ call'.pc = "settle"
               /\ UNCHANGED <<call.target, call.todo, call.subject, call.intents>>
               /\ stored' = [stored EXCEPT ![Target] = @ \cup {new}]
    <2>1. SceneStored = {}
      <3>1. call.pc = "commit" /\ Target \in Index
        BY <1>6, CommitCases
      <3>2. \A s \in stored[Target] : s.members \cap Members = {}
        BY <1>4, <3>1 DEF StoredIsApart, InScenes
      <3>3. Members # {}
        BY <3>1 DEF UntornInv, Apart, InScenes
      <3>4. QED
        BY <3>2, <3>3 DEF SceneStored
    <2>2. ~Fails
      BY <1>6 DEF Fails, Ends, Idle
    <2>3. /\ Target \in Index /\ call.pc = "commit" /\ call' = [call EXCEPT !.pc = "settle"]
          /\ stored' = [stored EXCEPT ![Target] = @ \cup {new}]
      BY <1>6, <2>1, <2>2, CommitCases
    <2>4. QED
      BY <1>5, <2>3 DEF CallRow
  <1>7. new.members = Members /\ new.spars = Spars
    OBVIOUS
  <1> HIDE DEF new
  <1>8. ASSUME CommitScene, call'.pc = "idle" PROVE UNCHANGED stored
    <2>1. call' # [call EXCEPT !.pc = "settle"]
      BY <1>5, <1>8 DEF CallRow
    <2>2. QED
      BY <1>8, <2>1, CommitCases
  <1>9. ASSUME ~CommitScene PROVE UNCHANGED stored
    BY <1>1, <1>9 DEF Frame, Writers
  <1>10. StoredIsClosed'
    <2>1. ASSUME NEW i \in Index, stored'[i] # {}
          PROVE  runs'[i] = "completed" \/ (call'.pc \in InScenes /\ i = Target')
      <3>1. CASE CommitScene /\ call'.pc # "idle" /\ i = Target
        BY <1>6, <3>1 DEF InScenes, Target
      <3>2. CASE stored[i] # {} /\ runs[i] = "completed"
        BY <1>1, <1>3, <3>2 DEF TornFrame, UntornInv
      <3>3. CASE stored[i] # {} /\ call.pc \in InScenes /\ i = Target
        <4>1. CASE call'.pc = "idle"
          <5>1. Finish
            BY <1>1, <1>3, <3>3, <4>1 DEF TornFrame
          <5>2. QED
            BY <3>3, <5>1 DEF Finish, TypeInv
        <4>2. CASE call'.pc # "idle"
          <5>1. Target' = Target
            BY <3>3, <4>2, SamePhase DEF InScenes
          <5>2. call'.pc \in InScenes
            BY <1>1, <3>3, <4>2 DEF Frame, CallFlow, Flow, Start, At, InScenes
          <5>3. QED
            BY <3>3, <5>1, <5>2
        <4>3. QED
          BY <4>1, <4>2
      <3>4. stored[i] # {} \/ (CommitScene /\ call'.pc # "idle" /\ i = Target)
        BY <1>5, <1>6, <1>8, <1>9, <2>1
      <3>5. QED
        BY <1>4, <3>1, <3>2, <3>3, <3>4 DEF StoredIsClosed
    <2>2. QED
      BY <2>1 DEF StoredIsClosed
  <1>11. StoredIsApart'
    <2>1. CASE Decides
      <3>1. /\ call.pc = "decide" /\ call'.target = Target /\ Target \in Index
            /\ call'.pc = "scene" /\ UNCHANGED stored
        BY <1>5, <2>1 DEF Decides, Decide, At, Target, CallRow, scenes
      <3>2. stored[Target] = {}
        BY <1>4, <3>1 DEF StoredIsClosed, UntornInv, InScenes
      <3>3. QED
        BY <3>1, <3>2 DEF StoredIsApart, Target
    <2>2. CASE Resolve
      <3>1. PICK S \in call.todo :
               /\ call'.todo = call.todo \ {S} /\ call'.subject = S
               /\ call.pc = "scene" /\ call'.target = Target /\ UNCHANGED stored
        BY <1>5, <2>2 DEF Resolve, At, Target, CallRow, scenes
      <3>2. QED
        BY <1>4, <3>1 DEF StoredIsApart, Members, Target, InScenes
    <2>3. CASE CommitScene /\ call'.pc # "idle"
      <3>1. ASSUME NEW s \in stored'[Target], NEW S \in call.todo PROVE s.members \cap S = {}
        <4>1. s = new \/ s \in stored[Target]
          BY <1>5, <1>6, <2>3
        <4>2. new.members \cap S = {}
          BY <1>6, <1>7, <2>3 DEF UntornInv, Apart, InScenes
        <4>3. QED
          BY <1>4, <1>6, <2>3, <4>1, <4>2 DEF StoredIsApart, InScenes
      <3>2. QED
        BY <1>6, <2>3, <3>1 DEF StoredIsApart, Target
    <2>4. CASE NextScene
      <3>1. /\ call.pc = "settle" /\ call'.pc = "scene" /\ call'.target = Target
            /\ call'.todo = call.todo /\ UNCHANGED stored
        BY <1>5, <2>4 DEF NextScene, At, Target, CallRow, scenes
      <3>2. QED
        BY <1>4, <3>1 DEF StoredIsApart, Target, InScenes
    <2>5. CASE UNCHANGED call
      <3>1. UNCHANGED stored
        BY <1>5, <1>6, <1>8, <1>9, <2>5
      <3>2. QED
        BY <1>4, <2>5, <3>1 DEF StoredIsApart, Members, Target
    <2>6. CASE call'.pc \notin InScenes
      BY <2>6 DEF StoredIsApart
    <2>7. QED
      BY <1>1, <2>1, <2>2, <2>3, <2>4, <2>5, <2>6 DEF Frame, SceneWriters, InScenes
  <1>12. SceneIsStored'
    <2>1. SUFFICES ASSUME call'.pc = "settle"
                   PROVE  \E s \in stored'[Target'] : s.members = Members' /\ s.spars = Spars'
      BY DEF SceneIsStored
    <2>2. CASE CommitScene
      <3>1. Members' = Members /\ Spars' = Spars /\ Target' = Target
        BY <1>6, <2>1, <2>2 DEF Members, Spars, Intent, Target
      <3>2. new \in stored'[Target]
        BY <1>5, <1>6, <2>1, <2>2
      <3>3. QED
        BY <1>7, <3>1, <3>2
    <2>3. CASE UNCHANGED call
      <3>1. UNCHANGED stored
        BY <1>5, <1>6, <1>8, <1>9, <2>3
      <3>2. QED
        BY <1>4, <2>1, <2>3, <3>1 DEF SceneIsStored, Members, Spars, Intent, Target
    <2>4. ~Decides /\ ~Resolve /\ ~NextScene
      BY <1>5, <2>1 DEF Decides, Decide, Resolve, NextScene, CallRow
    <2>5. QED
      BY <1>1, <2>1, <2>2, <2>3, <2>4 DEF Frame, SceneWriters, InScenes
  <1>13. SettledIsCanon'
    <2>1. ASSUME NEW i \in Index, NEW c \in Characters, bouts'[<<i, c>>] > 0
          PROVE  \E s \in stored'[i] : c \in s.spars
      <3>1. stored[i] \subseteq stored'[i]
        BY CoveredGrows
      <3>2. CASE bouts[<<i, c>>] > 0
        BY <1>3, <1>1, <1>4, <3>1, <3>2 DEF SettledIsCanon, TornFrame
      <3>3. CASE Settle /\ ~(bouts[<<i, c>>] > 0)
        <4>1. PICK d \in Unsettled : bouts' = [bouts EXCEPT ![<<Target, d>>] = @ + 1]
          BY <3>3 DEF Settle
        <4>2. call.pc = "settle" /\ d \in Spars
          BY <3>3, <4>1 DEF Settle, At, Unsettled, Verbs
        <4>3. i = Target /\ c = d
          BY <2>1, <3>3, <4>1 DEF TypeInv
        <4>4. QED
          BY <1>4, <3>1, <4>2, <4>3 DEF SceneIsStored
      <3>4. QED
        BY <1>1, <2>1, <3>2, <3>3 DEF Frame, Writers
    <2>2. QED
      BY <2>1 DEF SettledIsCanon
  <1>14. QED
    BY <1>10, <1>11, <1>12, <1>13

-----------------------------------------------------------------------------
(* What a phase makes canon it makes canon once: a character's intent is   *)
(* in one scene, a verb is settled once and as its scene was committed,    *)
(* and an activity's effects are applied once, however often the phase is  *)
(* run again, paused, failed or answered otherwise (stage1.py:5-8).        *)
THEOREM CanonOnceHolds == Spec => []CanonOnce
  <1>1. OnceInv /\ UntornInv => CanonOnce
    BY DEF OnceInv, UntornInv, CanonOnce, SettledIsCanon
  <1>2. QED
    BY <1>1, InitType, StepType, OnceInit, OnceStep, UntornInit, UntornStep, PTL DEF Spec

(* Time passes in whole phases: when the clock goes on, everybody's intent *)
(* of the phase has been committed, and its schedules fired once before    *)
(* anything of it was.                                                     *)
THEOREM TimeIsWholeHolds == Spec => []TimeIsWhole
  <1>1. ScheduleInv => SchedulesFireInTime
    BY DEF ScheduleInv, SchedulesFireInTime
  <1>2. WholeInv => PhasesAreWhole
    BY DEF WholeInv, PhasesAreWhole, Covered
  <1>3. QED
    BY <1>1, <1>2, InitType, StepType, ScheduleInit, ScheduleStep, WholeInit, WholeStep, PTL
    DEF Spec, TimeIsWhole
=============================================================================
