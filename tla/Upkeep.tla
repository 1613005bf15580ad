-------------------------------- MODULE Upkeep --------------------------------
(***************************************************************************)
(* The components that keep rows of their own and share none: what         *)
(* characters hold (Standing), the outbox (Outbox), conditions between     *)
(* phases (Conditions), perception and memory (Remembering), creation of   *)
(* stories (Authoring), the operators' rows (Shelf) and what is made of a  *)
(* world's record (Chronicle).  As they share no variable, a behaviour of  *)
(* all of them violates a property of one iff its projection does:         *)
(* every behaviour here is one component's, `part`, the others at rest.    *)
(***************************************************************************)
EXTENDS Integers, Sequences

CONSTANTS
    Calls, Characters, Home, Nobody,                     \* what several of them have
    Anywhere, Items, Wishes, Verbs, Absent, MaxCalls,    \* Standing
    Messages, Unhandled, Workers, Limit, MaxReconciles, MaxCrashes,             \* Outbox
    Persons, Sites, Strength, Afflictions, Severity, Scope, Duration, Indices,  \* Conditions
    LastDue, MaxChanges, MaxDeaths,
    Places, Ties, Attempts, PhasesPerDay, RecentPhases, HalfLife, Floor,        \* Remembering
    Threshold, MinAge, MaxPerDay, MaxTotal, MaxSalience, CiteBump, Newest, Room,
    LastPhase, MaxScenes, MaxMoves,
    Contents, Drafts, Keys, Shipped, MaxRevision, MaxVersion, MaxStories,       \* Authoring
    Entries, Presets, BuiltIn, Connections, Preferences, MaxSaves,              \* Shelf
    Mortals, Schedules, FallsDue, Victim, Major, Periods, Spans, Window, LastDayStart, \* Chronicle
    MaxEraEvents, MaxEraMemories, LastTold, Moments, MaxQuestions, Overridden, MaxOverrides

VARIABLES part,
  s_rows, s_gates, s_claims, s_call, s_made, s_done, s_settled, s_torn,
  o_state, o_worker, o_reconciles, o_crashes, o_handled, o_requeued,
  c_clock, c_conditions, c_people, c_keys, c_call, c_changes, c_deaths, c_ticks,
  r_phase, r_pc, r_at, r_sealed, r_events, r_records, r_digests, r_summaries, r_todo, r_moves,
  a_library, a_drafts, a_stories, a_receipts, a_calls, a_lock, a_told,
  l_rows, l_revisions, l_calls, l_saves, l_meant,
  h_clock, h_status, h_row, h_store, h_log, h_pending, h_alive, h_died, h_memories, h_work,
  h_lived, h_skipped, h_calls, h_evidence, h_eras, h_made, h_overrides

standing == <<s_rows, s_gates, s_claims, s_call, s_made, s_done, s_settled, s_torn>>
outbox == <<o_state, o_worker, o_reconciles, o_crashes, o_handled, o_requeued>>
conditions == <<c_clock, c_conditions, c_people, c_keys, c_call, c_changes, c_deaths, c_ticks>>
remembering == <<r_phase, r_pc, r_at, r_sealed, r_events, r_records, r_digests, r_summaries,
                 r_todo, r_moves>>
authoring == <<a_library, a_drafts, a_stories, a_receipts, a_calls, a_lock, a_told>>
shelf == <<l_rows, l_revisions, l_calls, l_saves, l_meant>>
chronicle == <<h_clock, h_status, h_row, h_store, h_log, h_pending, h_alive, h_died, h_memories,
               h_work, h_lived, h_skipped, h_calls, h_evidence, h_eras, h_made, h_overrides>>
vars == <<part, standing, outbox, conditions, remembering, authoring, shelf, chronicle>>

S == INSTANCE Standing WITH
       Characters <- {Characters[n] : n \in DOMAIN Characters},
       PlaceOf <- Home, Intents <- Verbs,
       rows <- s_rows, gates <- s_gates, claims <- s_claims, call <- s_call, made <- s_made,
       done <- s_done, settled <- s_settled, torn <- s_torn

O == INSTANCE Outbox WITH
       state <- o_state, worker <- o_worker, reconciles <- o_reconciles,
       crashes <- o_crashes, handled <- o_handled, requeued <- o_requeued

C == INSTANCE Conditions WITH
       Characters <- Persons, Places <- Sites, LastPhase <- LastDue,
       clock <- c_clock, conditions <- c_conditions, people <- c_people, keys <- c_keys,
       call <- c_call, changes <- c_changes, deaths <- c_deaths, ticks <- c_ticks

R == INSTANCE Remembering WITH
       Intents <- Attempts,
       phase <- r_phase, pc <- r_pc, at <- r_at, sealed <- r_sealed, events <- r_events,
       records <- r_records, digests <- r_digests, summaries <- r_summaries,
       todo <- r_todo, moves <- r_moves

A == INSTANCE Authoring WITH
       First <- Shipped,
       library <- a_library, drafts <- a_drafts, stories <- a_stories,
       receipts <- a_receipts, calls <- a_calls, lock <- a_lock, told <- a_told

L == INSTANCE Shelf WITH
       rows <- l_rows, revisions <- l_revisions, calls <- l_calls, saves <- l_saves,
       meant <- l_meant

H == INSTANCE Chronicle WITH
       Due <- FallsDue,
       Characters <- Mortals, LastPhase <- LastTold, MaxCalls <- MaxQuestions,
       clock <- h_clock, status <- h_status, row <- h_row, store <- h_store, log <- h_log,
       pending <- h_pending, alive <- h_alive, died <- h_died, memories <- h_memories,
       work <- h_work, lived <- h_lived, skipped <- h_skipped, calls <- h_calls,
       evidence <- h_evidence, eras <- h_eras, made <- h_made, overrides <- h_overrides

ASSUME UpkeepAssumption ==
  /\ S!StandingAssumption /\ O!OutboxAssumption /\ C!ConditionsAssumption
  /\ R!RememberingAssumption /\ A!AuthoringAssumption /\ L!ShelfAssumption
  /\ H!ChronicleAssumption

Init ==
  /\ part \in {"standing", "outbox", "conditions", "remembering", "authoring", "shelf", "chronicle"}
  /\ S!Init /\ O!Init /\ C!Init /\ R!Init /\ A!Init /\ L!Init /\ H!Init
  /\ part # "authoring" => \A d \in Drafts : a_drafts[d].pin.revision = 0

Next ==
  \/ /\ part = "standing" /\ S!Next
     /\ UNCHANGED <<part, outbox, conditions, remembering, authoring, shelf, chronicle>>
  \/ /\ part = "outbox" /\ O!Next
     /\ UNCHANGED <<part, standing, conditions, remembering, authoring, shelf, chronicle>>
  \/ /\ part = "conditions" /\ C!Next
     /\ UNCHANGED <<part, standing, outbox, remembering, authoring, shelf, chronicle>>
  \/ /\ part = "remembering" /\ R!Next
     /\ UNCHANGED <<part, standing, outbox, conditions, authoring, shelf, chronicle>>
  \/ /\ part = "authoring" /\ A!Next
     /\ UNCHANGED <<part, standing, outbox, conditions, remembering, shelf, chronicle>>
  \/ /\ part = "shelf" /\ L!Next
     /\ UNCHANGED <<part, standing, outbox, conditions, remembering, authoring, chronicle>>
  \/ /\ part = "chronicle" /\ H!Next
     /\ UNCHANGED <<part, standing, outbox, conditions, remembering, authoring, shelf>>

\* Whoever runs the world keeps asking, and an admitted request goes on.
Fairness ==
  \A c \in Calls :
    /\ WF_conditions(part = "conditions" /\ C!GoesOn(c))
    /\ SF_conditions(part = "conditions" /\ C!BeginNext(c))
Spec == Init /\ [][Next]_vars /\ Fairness

\* Each of them promises, and the modules say where:
\* a settled verb is settled once, however phases are repeated;
VerbsSettleOnce == S!VerbsSettleOnce
\* each save of a relationship or an item builds on the one before it;
SavesFollow == S!SavesFollow
\* messages are handled once more for each claim that was taken away, and none
\* is stranded;
OutboxHolds == O!OutboxHolds
\* conditions strike once a phase, and take what is there;
TickedOnce == C!TickedOnce
\* conditions never keep a world from advancing;
PhasesPass == part = "conditions" => C!PhasesPass
\* a character is shown only what it could witness;
ShownOnlyWhatItWitnessed == R!ShownOnlyWhatItWitnessed
\* a record is digested once;
DigestedOnce == R!DigestedOnce
\* an idempotency key names one story;
OneStoryPerKey == A!OneStoryPerKey
\* a story can be read again from the revision its setup names;
SetupNamesItsSource == A!SetupNamesItsSource
\* saves of a row that overlap keep what the other has changed;
LibraryHolds == L!LibraryHolds
\* peace is found where none has died, a world ends once and its clock with it,
\* and an era tells what the one before it told.
ChronicleHolds == H!ChronicleHolds

TypeOK ==
  /\ S!TypeOK /\ O!TypeOK /\ C!TypeOK /\ R!TypeOK /\ A!TypeOK /\ L!TypeOK /\ H!TypeOK

\* What the documents promise and the code does not keep: a draft creates one
\* story (create.py:90), relationships are a fold of their evidence
\* (domain/relationships.py:3), conditions end by the world's phase
\* (conditions.py:5), every day is told (stage1.py:764), peace has no major
\* event (endings.py:6), the clock reaches the last day (endings.py:9), and an
\* era tells of its interval (eras.py:3).
OneStoryPerDraft == A!OneStoryPerDraft
ProjectionIsFold == S!ProjectionIsFold
RecoversInTime == C!RecoversInTime
DaysAreTold == R!DaysAreTold
MajorEventsBreakPeace == H!MajorEventsBreakPeace
LastDayReached == H!LastDayReached
ErasKeepToTheirSpan == H!ErasKeepToTheirSpan
===============================================================================
