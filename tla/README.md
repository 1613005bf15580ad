# PixelSaga: specifications, model checking and proofs

PixelSaga (`src/backend`) simulates a small world in phases, five a day. A phase ticks a clock,
lets every character decide (a language model answers), assembles the decisions into
scenes and commits the scenes as canon. Operators direct characters, change the world, and pass
long intervals at once ("macro periods"). All state is in PostgreSQL; many HTTP requests and
processes act on it, any of which can die between two transactions, and every call is meant to be
repeatable.

This directory holds TLA+ modules of the parts where that is hard, the TLC configurations that
check them on small instances, and TLAPS proofs of what must hold for any number of requests.
Paths below are relative to `src/backend/src/worldsim/`.

    tlc -workers 2 -config stage1.cfg MCPhaseStage1     # any run of PROJECT.json
    tlapm ExecutionSlotProofs.tla                       # the proofs: any of the eight *Proofs modules

## 1. Inventory

### What keeps state, and how the parts interact

    HTTP routes ──admit/guarded──> task_run row (one per scope: "phase:i", "macro", ...)
       │                                 ▲ reconcile of every process requeues lapsed leases
       ├── interventions: claim the open items, apply their steps, hand attempts to the phase
       ├── Stage 1 advance_phase ──> tick, schedules, activities, seal, decide, scenes
       ├── Stage 0 advance_world ──> tick, seal, one decision, finalize (own task row)
       ├── macro advance_period ──> one clock command, schedules with births and deaths
       └── commands: overrides, activities, focus, cancellations, archive
                     │
                     ▼
       canonical transaction: command key, version store, event number, rows, outbox

| component | state | operations | hard behaviour | correct when |
|---|---|---|---|---|
| execution admission (`application/execution.py`) | one `task_run` row per scope | admit, guarded, release | three transactions for one claim; leases that lapse; crashes; late releases | one executor at a time; a dead one wedges nothing |
| task rows (`application/tasks/service.py`, `repositories/tasks.py`) | state, owner, lease, attempts | create, claim, heartbeat, succeed, fail, reset, requeue | any world's reconcile touches every row | a live lease belongs to its owner |
| canonical transaction (`transactions/canonical.py`) | commands, events, versions, projected rows | commit | duplicate keys, event numbers by `max + 1`, lock order, foreign-key share locks, retries | each key once, dense history, no lost update, no deadlock |
| version store (`repositories/versions.py`) | a version per aggregate | check, sync_version, ensure | writers outside the command path | in step with the rows |
| Stage 0 (`orchestration/service.py`) | runs, snapshots, its task row | advance_world, pause, resume, cancel | overlapping calls with stale clocks, lost leases, healing of older runs | each phase ticks once, closed runs stay closed, every phase completes |
| Stage 1 (`orchestration/stage1.py`) | phase runs, scenes, intents, settlements | advance_phase, pause, resume | a failed phase is decided afresh, scene after scene commits, verbs settle later | nothing is committed twice, phases complete |
| activities (`commands/activities.py`) | an activity per character | start, cancel, complete, stall | completion takes two transactions | completed once |
| interventions (`application/interventions.py`) | items and their steps | submit, edit, cancel, claim, apply | claimed again after a crash, by two boundaries, cancelled meanwhile | each step once, nothing forgotten, reports true |
| conditions (`application/conditions.py`) | conditions of a world | create, tick, recover | ticks before the phase is validated | ticked once a boundary |
| macro engine (`application/macro/engine.py`) | period runs, effects, interruptions | advance_period | six transactions, resumption, phases on the same clock | schedules once, no phase twice or left out |
| genealogy (`application/macro/genealogy.py`) | lineage, focus slots | birth, death, heir, assign | consequences in one transaction, chosen dates | a dead holder is followed by the heir |
| endings (`application/macro/endings.py`) | evidence, world status | evaluate | row writes beside commands; three reads while periods record late | one ending, and no peace over a death |
| eras (`application/macro/eras.py`) | versioned digests | compose | versions counted without a key | a later one tells what the earlier did |
| outbox (`repositories/outbox.py`) | messages | claim, ack, fail, requeue | live claims requeued, late failures | handled once more per claim that was taken away |
| decisions (`orchestration/stage1.py`, `application/graphs`, `tracing`, `model_gateway`) | audit rows, hooks | direct, decide, react, resolve, narrate, summarise | gathers whose sibling raised, refusals, time-outs, malformed answers, repairs | what the phase builds on is lawful, every row accounted for |
| scene tail (`orchestration/stage1.py`, `domain/rules/dnd`) | party, monsters, combat events | narrate, recruit, fight, spar | five transactions after a commit, rows read before they are written, repeated calls | blows fall once, within what bodies can take |
| standing (`commands/knowledge.py`, `relationships.py`, `inventory.py`) | beliefs, evidence, ties, items | claim, record, transfer, settle | unlocked folds, routes beside the phase | a verb settles once |
| memory (`stage1.py`, `rules/perception.py`, `repositories/digests.py`) | observations, memories, summaries, digests | perceive, decay, digest, show | sealed places against live ones, the night after completion | shown only what was witnessed, digested once |
| stories (`application/stories`) | drafts, setups, catalog, receipts | edit, create, archive | creation races, edits beside it, half-made worlds | one story per key, from what its setup names |
| library, settings (`application/library`, `application/settings`) | presets with revisions, connections, preferences | edit, revise, archive | saves that overlap | no save undoes a column it did not touch |
| rules (`domain/rules`) | none | pure functions | rounding, clamps, order | equal to a reference |
| assets, queries, seed, CLI, migrations | records and files | edit, read | little | — |

`PROJECT.json` lists every component with its sources and what of it is modelled, and every
hazard at the line where it bites with the properties that cover it.

### Database semantics

The code runs at READ COMMITTED through SQLAlchemy. The modules take from its use: a transaction
that does not lock is one atomic step when it writes once after reading rows nobody else writes,
and is split where another writer can come in between; `FOR UPDATE` blocks; an uncommitted unique
key blocks a second insert, which then fails or goes on; the foreign key of an inserted row takes
the referenced row `FOR KEY SHARE`, which `FOR UPDATE` waits for; ORM updates name only the id, so
a version that was compared in Python may be stale when the row is written; repositories hand out
copies, so a second `session.get` in a session reads the row again.

## 2. Modules

| module | models | abstract specification it implements |
|---|---|---|
| `TaskRow` | the task row and its updates, as operators | |
| `ExecutionSlot` | admission to one scope | `AdmissionLock` |
| `ExecutionSlotProofs` | theorems on `ExecutionSlot` | |
| `CanonicalCommit` | canonical transactions, ending evaluation, death applier | `Ledger` |
| `CanonicalCommitProofs` | theorems on `CanonicalCommit` | |
| `PhaseStage0` | `advance_world`, pause, resume, cancel; uses `TaskRow` | |
| `PhaseStage0Proofs` | theorems on `PhaseStage0` | |
| `PhaseStage1` | `advance_phase` up to COMPLETED, pause, resume, activities | |
| `PhaseStage1Proofs` | theorems on `PhaseStage1` | |
| `Judgement` | what an answer of a model is worth, as operators: checks, fallbacks, merges, limits | |
| `Deliberation` | the model calls of a phase; uses `Judgement` | `PhaseOracle` |
| `DeliberationProofs` | theorems on `Deliberation` and the operators of `Judgement` | |
| `Bout` | combat, spells, healing, spawns, sheets of recruits, as operators | |
| `SceneTail` | what follows a scene's commit: narration, recruits, combat, spars; uses `Bout` | |
| `Interventions` | the queue and its application at the boundary | |
| `InterventionsProofs` | theorems on `Interventions` | |
| `Genealogy` | births, deaths, heirs, focus, as operators | |
| `MacroPeriod` | `advance_period` beside detailed phases; uses `Genealogy` | |
| `MacroAndTailProofs` | theorems on `MacroPeriod`, and on `SceneTail` and the folds of `Bout` | |
| `Standing` | claims, beliefs, relationships, items | |
| `Outbox` | messages, workers, the global requeue | |
| `Conditions` | illnesses between the request of a phase and the phase | |
| `Remembering` | perception, memories, summaries, digests, the context a character is shown | |
| `Authoring` | drafts and `create_story` | |
| `Shelf` | the rows operators edit: catalog, presets, connections, preferences | |
| `Chronicle` | endings and eras, over the record that phases, periods and overrides leave | |
| `Upkeep` | the seven above together | |
| `UpkeepProofs` | theorems on `Upkeep`, a section for each part | |
| `MC…` | model values for TLC | |

The five modules of Stage 1 divide `advance_phase` by what it writes. `PhaseStage1` is the spine,
and each of the others takes from it what the spine leaves as a choice: which answers
(`Deliberation`), what a committed scene entails (`SceneTail`), what a settled verb folds into
(`Standing`), what is perceived and remembered (`Remembering`), what the route does before
the phase (`Conditions`).

**ExecutionSlot.** `pc[o]` is where request `o` is in `admit` / `guarded` / `release`; `row` the
task row; `run` whether the phase run is open or complete; `archived` the story. One action per
transaction: `CreateTask`, `Claim`, `Reset`, `EnterRun`, `CompleteRun`, `WorkRaises`, `Succeed`,
`Fail`, `Recycle`; `Crash` and cancellation at any step (a `CancelledError` passes every handler
of `guarded`); `Expire` lets a lease lapse, `Reconcile` is anybody's. A request's owner name is
used again once it has returned. `LeaseFits` says that leases outlast the work: the code assumes
it and does not ensure it (LEASE_SECONDS is 300 and nothing calls `heartbeat`).

**CanonicalCommit.** A writer is a command, the ending evaluation or the death applier of a macro
period; `pc`, `storeLocks`, `rowLocks`, `expected`, `number` are its progress, `store` and `rows` the
versions. One action per statement that can wait or fail, in the order of `commit`. `BreakRing` is
the database killing one writer of a ring. `Ledger` is the promise: one event at a time, each key
once, versions counting events. Side rows of a commit (effects, memories, observations, outbox)
are part of the atomic `Commit`; rows of a projection are saved in canonical order (the code saves
worlds before characters). `_progress_skill` is left out.

**PhaseStage0.** Calls hold a key and what they read; the actions are the steps of `advance_world`
in order, each one transaction. The canonical transaction of the tick is one step, and the world's
version is its number of ticks. `OtherCommand` is an override by another route. `overlapped` records
that two calls were ever under way at once: what the code promises for calls one after the other
is stated under `~overlapped`, what it promises at any time without it.

**PhaseStage1.** One call at a time advances (what `ExecutionSlot` shows while leases last) beside
pauses, resumptions and commands. `Decide` is any assignment of the offered actions to
characters: models may answer anything, and nothing of an answer is kept until its scene commits,
so a repeated phase decides afresh. States world_ticked to scenes_committed are one ("working").
spar stands for the verbs with a settlement (spar, appeal, transfer), talk for what a model
resolves. A call that fails changes nothing and is followed by another. `torn` says that a phase
which has committed something is to be run again.

**Judgement, Deliberation.** A decision is a thread: it enters (or is taken silently: cooldown,
budget, automatic resolution, a narration that exists), opens an audit row, asks, retries what is
transient, closes the row, and has its graph judge the reply and perhaps repair it. The threads of
a stage run at once. A character, reaction or resolution that raises ends the phase while its
siblings go on, also beside the next call of `advance`. `Judgement` has what every graph makes of
an answer: a record of the features its checks look at (the action, its target, citations, powers),
never its text. `PhaseOracle` is what the phase relies on: all decisions of a stage before the next
stage, and an end.

**Bout, SceneTail.** A tag of a narration is a record; a name is a sequence of words, and the
code's matching of substrings is matching of words. Dice read a stream of numbers as the seeded
generator does. The constants are the data tables: the model has small ones of the same shape.
Hit points lie between 0 and the maximum (`Span`), on either side of 0: a player who names
ability scores on the begin route may seat somebody whose maximum is below 0.
`SceneTail` keeps the order of `_commit_scene`: the narration is saved before its tags are read,
recruits join one transaction each, the fight reckons in memory over rows it has read and writes
them in one transaction that compares versions (once more after a conflict, with the roster but
not the monsters read again), and spars settle each behind its gate.

**Interventions.** An item has a plan (a sequence of steps; what a text is interpreted as is a
choice among `Plans`). Calls claim, apply step by step (each step's transactions apart) and mark;
then the phase completes or not, as one step. Requests are "next" (the due index) or "other".

**MacroPeriod.** `macro` and `detail` are one call each: their admission scopes are distinct, and
each scope has one executor. Periods come from `resolution_range`. Of a detailed phase it keeps
the clock check, the check of the previous phase, the tick, the schedules and completion. Births
and deaths fire in due order in one transaction, through `Genealogy`. Of rows with equal
`effective_absolute` the database may return the newest or the oldest first: both are possible at
every read. What is due together is listed in any order (`InOrder` is the set of the lists). The
search for an heir, generation after generation, is the choice of a soonest line of descent. A birth
whose parents have no row and a death dated before the birth are refused by the database (`Raises`),
which rolls back the whole firing.

**Standing.** A call of a route or of the settlement of scenes reads a row and folds into what it
read (`Read`). The save method reads the row again and refuses when its version has moved (`Save`);
the session's identity map is weak, so that `session.get` asks the database. The UPDATE is by id
alone and lasts once the transaction commits (`Write`): what another call commits between a
comparison and the commit is overwritten unseen. `_hold_belief` reads the version anew after the
confidence was folded, so hearings of a claim compare nothing of what they were folded from
(`Guarded`). A transaction that loses the race for a unique key, or fails otherwise, leaves nothing
(`Abandon`). `rows` holds beliefs, ties and items under one kind of key; `made`, `done`, `settled`
and `torn` are history.

**Outbox.** Workers claim batches with SKIP LOCKED, handle them and acknowledge; `fail` reads a
message without a lock and writes it later; every reconcile requeues the claims of live workers.
Nothing in the program drains the outbox but tests, so no fairness is assumed of workers.

**Conditions.** A request ticks the active conditions with the characters it read once, by the
index it names and before anything compares that index with the clock, then runs the phase if it
is the due one. Ticks are commits under derived keys, so a replay is recognised.

**Remembering.** Perception goes by the sealed places; observations, memories, salience, decay and
citations; then the night, which is written after COMPLETED. A text is the set of records it was
made from, and the shown context is bounded by a number of entries. Records have no order within a
phase: the queries sort by phase only (`repositories/perception.py:87`), so what a limit cuts off among
rows of one phase is a choice (`Latest`), and a section holds whatever may find room (`Section`).

**Authoring, Shelf.** Statements of a session see what others have committed; an ORM update writes
only the columns that differ from what the session read, which is what keeps overlapping saves of
different columns (and loses version increments).

**Chronicle.** `log` is the events in their sequence, `died` the lineage's dates, `evidence` and `eras`
the rows of the two handlers. `work` is the phase or the period under way, of which the clock's commit
and the firing of schedules are kept, apart, as in the code; `row` and `store` are the world's version
in its row and in the version store. An evaluation reads deaths, then events and lives, then saves.
`settled` and `after` are history: whether what it read was past and written down, and how many eras
there were when a composing read them. Of two idle calls the model lets one ask: they are alike.

`PROJECT.json` "map" names the lines of every definition.

## 3. Runs

| run | module | instance | shows |
|---|---|---|---|
| `slot_holds` | MCExecutionSlot | 3 requests, 2 crashes anywhere, retries | `OneExecutor`, `CompletedRunIsQuiet`, `LiveLeaseIsOwners`, refinement of `AdmissionLock`, and `SlotServesUnlessTorn`: requests keep being admitted |
| `slot_wedged` | same | 1 crash | *violates* `SlotServes`: a request that dies between reset and claim leaves a row no request can read again |
| `commit` | MCCanonicalCommit | 2 commands with one key and other inputs, a death, an ending | `SequenceIsDense`, `ExactlyOnce`, `Lockstep`, refinement of `Ledger`, and `CallsReturn` |
| `stage0` | MCPhaseStage0 | 2 calls, 3 keys, 2 phases, 1 fault, 1 foreign command | `PhasesInOrder`: each phase ticks once even among overlapping calls, a completed run is whole, the clock waits for healing; `RunsClose`: closed runs stay closed, an undisturbed world gets through |
| `stage1` | MCPhaseStage1 | 2 characters, 2 places, 2 phases, 1 disturbance | `CanonOnce`: intents, verbs and activities become canon once; `TimeIsWhole`: whole phases, with their schedules; `HealsUntorn` |
| `stage1_rerun` | same | 1 phase, 1 failing call, every answer again and again | *violates* `Heals`: a phase that fails after a scene with effects never completes |
| `decisions` | MCDeliberation | 6 stages, 2 characters, lawful, denied and broken replies, 2 calls of advance | `AnswersLawful` whatever the models say, `RowsAccounted`, refinement of `PhaseOracle` |
| `tail` | MCSceneTail | 2 scenes, 3 narrations, a spar, 1 death, 1 link, 2 streams of dice | `FightsHold`, `ToldIsFought`, `CapHolds`, `TailHeals` |
| `interventions` | MCInterventions | 1 item, 4 plans, 2 requests, 1 disturbance | `AppliedOnce`, `ReportsHold`, `CancelledIsOver`, `Settles` |
| `macro` | MCMacroPeriod | periods of 1 and 2 days (2 phases each), 3 phases, 3 schedules, 3 persons, 1 disturbance | `HistoryIsWhole`: schedules fire once even with overlap, no phase is skipped; `Succession`; `PeriodsClose` |
| `upkeep` | MCUpkeep | seven components, each with two calls (workers) of its own | `VerbsSettleOnce`, `SavesFollow`, `OutboxHolds`, `TickedOnce`, `PhasesPass`, `ShownOnlyWhatItWitnessed`, `DigestedOnce`, `OneStoryPerKey`, `SetupNamesItsSource`, `LibraryHolds`, `ChronicleHolds` |
| `upkeep_draft` | same | one draft, two keys | *violates* `OneStoryPerDraft`: a draft creates a second story |

A name that states several things is a conjunction of named parts in its module (`CanonOnce` is
`OneScenePerIntent`, `SettledOnce`, `SettledIsCanon` and `CompletesOnce`; `TimeIsWhole` is
`PhasesAreWhole` and `SchedulesFireInTime`; and so on), each with its own comment.

Every property of a passing run has a mutant in `PROJECT.json`: a change of one definition that a
plausible slip in the code would make, under which TLC finds the property violated.

`Upkeep` composes seven modules that share no variable (`MCUpkeep` gives it model values). A
behaviour of all of them violates a property of one if and only if its projection on that one does,
so every behaviour of the model moves one part (`part`) and leaves the others at rest: the state
spaces are added, not multiplied.

### Runs beside the list

The following are run by hand; they take longer, or answer a question another run includes.

| cfg | module | shows |
|---|---|---|
| `commit_keys.cfg` | MCCanonicalCommit | 3 commands on 2 keys and an ending: also `TypeOK` and `StoreLocksSerialize` (no ring of store locks) |
| `commit_ring.cfg` | MCCanonicalCommit | violates `WritersSerialize` (finding 2) |
| `interventions_lost.cfg` | MCInterventions | violates `AttemptsAreMade` (finding 4) |
| `macro_double.cfg` | MCMacroPeriod | violates `OneResolution` (finding 5) |
| `decisions_outage.cfg` | MCDeliberation | violates `OutageRetries` (finding 7) |

`upkeep_draft.cfg` with its invariant replaced by `ProjectionIsFold`, `RecoversInTime`,
`DaysAreTold`, `MajorEventsBreakPeace`, `LastDayReached` or `ErasKeepToTheirSpan` gives findings 8
to 13. Every module has a `TypeOK` (that of `Upkeep` is the
conjunction of seven); adding it to the invariants of a run's cfg checks it, and it holds in each.

### Bounds

- *Requests*: three for a slot. A race for the row needs two; the third can meet what two have left
  (a reset row, a lapsed lease, a late release). What matters most about admission is proved for
  any number.
- *Commands*: two that race for one key, a writer that goes past the command path and one that ends the
  world, on two aggregates: every pair of lock orders (world and character, read and written).
  `commit_keys` adds a third contender for event numbers; the safety properties are proved for any
  number of all of them.
- *Phases*: two. Every rule of a phase looks at its predecessor at most. `Remembering` has five of
  two a day: a memory has time to decay, to be digested and to fall out of the recent ones.
- *Disturbances*: one crash, failure, cancellation or foreign command per behaviour, anywhere (two
  crashes for the slot). A second one after recovery meets a state the first could have left.
  Faults and commands share the bound in `PhaseStage1`, `Interventions` and `MacroPeriod`.
- *Journeys* (interventions): three places and two legs. `MaxSteps` is two: the steps of a plan, each
  apart, are what matters, and longer plans are proved about.
- *`MCBound`* (stage0): overlapping calls are followed through the first phase without further
  faults; calls one after the other through both with them.
- *Offered* (stage1): which families of action are chosen among in each phase: one with effects and
  settlement first, one that a model resolves next.
- *Replies* (decisions): per role one lawful answer, one that its check denies and one that does
  not parse. Two attempts of the gateway, one repair, a budget of three calls that a phase with a
  repair exceeds; two calls of advance, the second not disturbed (`MaxRuns`), so that decisions of
  the first run on beside it.
- *Scenes* (tail): two, so that a spar can meet the scene that has already fought and a pool the
  scene before it; three narrations (a recruit with a spawn, a blow, a spell and a cure; spells
  that save, miss their word or hurt a friend; a recruit alone); a party cap of two that one
  recruit reaches; two streams, one with natural twenties and ones. One death, one link: a
  second link is what breaks `ToldIsFought`, which says so (and that there is a party: without one
  the tags are not looked at). `MaxLevel` is 9, as high as the sheets go; one sheet that may be
  seated is frail, with a maximum below 0.
- *Persons* (macro): a holder, a child who is not eligible, and a grandchild born in the period:
  the search for an heir must pass through the child. Schedules are one of each kind.
- *upkeep*: two calls race for any row. Claims: one that refutes, one to everybody, one by somebody
  elsewhere. Phases to 5 in days of three, with two nights. A scene has one
  intent, or two of different authors.
  Three messages in batches of two, one without a handler. Conditions: one character, two
  illnesses that both reach it, each ordered once, indices before, at and past the due phase, one
  change, one death. Authoring: one draft in two versions (`MaxVersion`; three in `upkeep_draft`),
  two keys, two revisions of one preset, two stories. Shelf: a catalog entry and a preset stand
  for the four kinds of row, which are saved in the same way; three saves. Chronicle: a period of two
  phases, then detailed ones to 3; a death in the period, at the first phase of a window of two; a
  raid after it; evaluations for 1 (too short) and 3 (ahead of the clock or not); one override, of
  the character who is not to die, so that none may live; two evaluations or composings.

Runs with `CHECK_DEADLOCK FALSE` are those whose world ends: every command has returned for good
(`commit`), the last phase is complete (`stage1`, `stage1_rerun`, `decisions`, `tail`), nothing is
left to ask for within `MaxIndex` and `Days` (`macro`), or every call, save and message within
the bounds is done (`upkeep`, `upkeep_draft`).

### Fairness

- Steps of a call are weakly fair: a coroutine that can go on does, unless it dies (`Crash` is not
  fair, and bounded).
- `CanonicalCommit` has strong fairness of writers, for a lock may be taken and given up
  repeatedly, and weak fairness of `BreakRing`: the database finds deadlocks.
- Requests are repeated (strong fairness of `Start`, `RequestMacro`, `Begin`, `BeginNext`): the
  code's promise is that doing so suffices. Without clients nothing advances, as the program has no
  scheduler. In `Deliberation` no one is bound to ask again, and `PhaseOracle` does not promise it.
- Leases lapse (weak fairness of `Expire`); a paused phase is resumed (that is what pausing is).
- `Deliberation`: the threads of a gather are weakly fair (asyncio runs each that can go on, and
  the client's time-out answers for a provider that does not).
- `stage1_rerun` adds that every answer of the models is given again and again (`VariedSpec`), so
  that its counterexample is not one of unlucky answers.
- `MacroPeriod` says of the macro call that it returns (`[]<>(macro.pc = "idle")`) instead of weak
  fairness of its steps, and `SceneTail` that the call is done or steps again and again: both are
  weak fairness written out, since the steps are enabled until then, and TLC evaluates them faster
  than ENABLED.
- Of the parts of `Upkeep` only `Conditions` has fairness: the others promise nothing that must
  happen.

## 4. Proofs

`ExecutionSlotProofs` proves, for any set of requests, any places to crash and any bound on
crashes:

| theorem | states | assumes |
|---|---|---|
| `TypeCorrect` | `Spec => []TypeOK` | – |
| `OneExecutorHolds` | `Spec => []OneExecutor` | `LeaseFits` |
| `CompletedRunHolds` | `Spec => []CompletedRunIsQuiet` | `LeaseFits` |
| `LeaseBackedHolds` | `Spec => []LeaseBacked` | – |
| `LiveLeaseHolds` | `Spec => LiveLeaseIsOwners` | – |
| `RefinesLock` | `Spec => LockSpec` (implements `AdmissionLock`) | `LeaseFits` |

`OneExecutor` is not inductive: it says nothing of the row, so a state in which one request
executes and the row is claimable would satisfy it. The inductive invariant is `HoldsRow`: whoever
holds the slot is named as owner by the row, and the lease is live. A row names one owner, hence
`OneExecutor`; a claim needs a row without a live lease, hence no holder, hence preservation; and
`Expire` takes a holder's lease only if `LeaseFits` is false. That one step is where the code
relies on work being shorter than 300 seconds. `LeaseBacked` is inductive without the assumption:
every transition that ends a request's work also leaves the row, or the request has died. The
refinement maps the lock's holder to the request that holds the slot; each step is the lock's
acquire or release, or a stutter, by `HoldsRow`.

`CanonicalCommitProofs` proves, for any sets of commands, death appliers, ending evaluations, keys
and aggregates that satisfy `CommitAssumption` (a death writes one character and never the world,
no two appliers kill the same character, an ending writes the world only):

| theorem | states | inductive invariant |
|---|---|---|
| `CommitTypeCorrect` | `Spec => []TypeOK` | `TypeInv` |
| `LockstepHolds` | `Spec => []Lockstep` | `StoreInv` |
| `CheckedCommitsLandHolds` | `Spec => []CheckedCommitsLand` | `StoreInv` |
| `StoreLocksSerializeHolds` | `Spec => []StoreLocksSerialize` | `TypeInv`, `OrderInv` |
| `SequenceIsDenseHolds` | `Spec => []SequenceIsDense` | `NumberInv` |
| `ExactlyOnceHolds` | `Spec => []ExactlyOnce` | `KeyInv` |
| `ImplementsLedger` | `Spec => SerialSpec` (implements `Ledger`) | all but `StoreInv`, `OrderInv` |

- `TypeInv`: the next lock and the next number are chosen (`Lowest`, `LastSequence`); that there is
  one to choose needs locks within the writer's sets, bounded event numbers and a least element of
  a non-empty set of numbers (from the well-founded order of finite intervals).
- `StoreInv`: from the check to the commit, a command holds the store lock of all it touches and
  the store still has the versions it expects; store locks are disjoint. Commits write under
  their own store locks, death appliers included (`sync_version` took them), so they change nobody
  else's. With `Lockstep` the rows have those versions too.
- `OrderInv`: what a request has locked in the store comes before all it has still to lock. Among
  requests that wait for store locks the one that waits for the greatest entry waits for somebody
  who holds it, hence wants a greater one: there is no ring. `WritersSerialize`, the same of all
  locks, is false (finding 2).
- `NumberInv`: the numbers in use are 1..N. A number taken is at most N + 1; one that is appended
  is not in use, hence N + 1; the unique key makes a second writer of N + 1 wait, hence at most one
  writer has appended; when it commits, all other numbers taken are in use or N + 2 at most.
- `KeyInv`: a request that inserted its key found none committed and made others wait, until its
  end.
- `RowInv`: a locked row still has the version its writer compared, so the commit's `expected + 1`
  is the row's version plus one. The ledger's history is read off the events, its spent keys
  off the commands, its versions off the rows; it holds after the world has ended, too.

`PhaseStage0Proofs` proves, for any finite sets of calls and keys and any number of phases,
faults and foreign commands (`Stage0Assumption`; all calls are of one owner, as the code's owner
is a literal, and `NoSnapshot` is no snapshot):

| theorem | states | inductive invariant |
|---|---|---|
| `Stage0TypeCorrect` | `Spec => []TypeInv` (`TypeOK` and what a call at each step has) | `TypeInv` |
| `PhasesInOrderHolds` | `Spec => []PhasesInOrder` | `TypeInv`, `TickInv`, `SerialInv` |
| `ClosedIsFinalHolds` | `Spec => ClosedIsFinal`, the safety half of `RunsClose` | the same |

`TickInv` needs no serial calls: a phase's tick is committed only over a clock that is still one
behind, so ticks are numbered as the clock goes, whatever a stale call believes. That completed
runs are whole does need them: `SerialInv` has `Alone` (one call, and no operator beside it), what the
rows say of the phases behind the clock, and what each call knows of its run step by step.

`PhaseStage1Proofs` proves, for any finite sets of characters and places and any number of
phases, activities and disturbances (`Stage1Assumption`, `UndertakingsAssumption`: what is under way at
first is an activity):

| theorem | states | inductive invariant |
|---|---|---|
| `Stage1TypeCorrect` | `Spec => []TypeOK` | `TypeInv` |
| `CanonOnceHolds` | `Spec => []CanonOnce` | `OnceInv`, `UntornInv` |
| `TimeIsWholeHolds` | `Spec => []TimeIsWhole` | `ScheduleInv`, `WholeInv` |

`CanonOnce` alone says nothing of the call at work. `UntornInv` adds that the scenes a call has yet to
commit are apart from each other and, until a phase is run again, from those stored; that these
belong to closed runs or to this call; and that verbs are settled as their scene was stored.
`WholeInv` adds that whoever has no scene yet is in one that is still to come. That assembly
divides the characters (`Scenes`, the least closed sets) is a lemma of its own. Which action may write
what is stated once (`StepFrame`, `StepTornFrame`), and each invariant is proved over that frame.

`InterventionsProofs` proves, for any finite sets of items and calls and any actors, places, plans
and disturbances (`InterventionsAssumption`; `MaxSteps` bounds the steps of a plan, as the schema
of an interpretation does (`domain/interventions.py:143`), and `Nowhere` is the place of steps that have none):

| theorem | states | inductive invariant |
|---|---|---|
| `InterventionsTypeCorrect` | `Spec => []TypeOK` | `RowsInv`, `CallInv` |
| `CancelledIsOverHolds` | `Spec => CancelledIsOver` | the same |
| `AppliedOnceHolds` | `Spec => []AppliedOnce` | `SerialInv` and the above |
| `ReportsHoldHolds` | `Spec => []ReportsHold` | `SerialInv`, `NothingForgotten` |

`CallInv` relates what a call read of its batch to the rows as they are: a row is the one that was
read or has a later version. `SerialInv` follows each step through a call: to be tried, in hand,
kept for the phase, settled. A step that can still be tried has had no effect, or one that trying it
again will find (a hook's title, an activity to the same place). The proof showed that two kinds of step
have neither: an override, and a *later* leg of a journey, whose activity may be over and its
road open again when a dead call's successor tries it. `Repeatable` names both, and `AppliedOnce` allows
them once more per disturbance.

`MacroAndTailProofs` proves of `MacroPeriod`, for any schedules, persons, resolutions, days and disturbances
(`MacroAssumption`):

| theorem | states | inductive invariant |
|---|---|---|
| `FiresOnceHolds` | `Spec => []FiresOnce`, a part of `HistoryIsWhole` | itself, for each schedule |
| `HistoryIsWholeHolds` | `Spec => []HistoryIsWhole` | `TypeInv`, `TickInv`, `ClockInv` |
| `ClockForwardHolds` | `Spec => ClockForward`, the safety half of `PeriodsClose` | the same |
| `MacroTypeCorrect` | `Spec => []TypeOK` | `TypeInv`, `RowTypesInv` |
| `SuccessionHolds` | `Spec => []Succession`, given `Dated` | `TypeInv`, `LineInv` |

`ClockInv` says why the clock may move: without overlap a period stands at its start or has been
passed already, and a phase follows on the clock, with all behind lived.

`Succession` is not inductive: the family as it is says nothing of what is to come, and a slot whose
row is dated later than the heir's keeps its dead holder. `LineInv` adds that:

- what the rows date lies before what is pending: a slot's last row before every death, a recorded
  death before every birth, no two rows of a slot on one date (`HouseDated`);
- whoever was born has parents who were (`Kin`, the foreign key): a line of descent never has a gap
  that a later birth closes, so a birth puts nobody between a dead holder and their descendants;
- a call's list is in order and ahead of everything else that is pending (`DueInOrder`).

The search by generations is the choice of a soonest line of descent (`Lines`, `Sooner`): soonest of
finitely many, so one is found if there is any (`HeirFound`), and its end is alive and eligible.
`Dated` is the hypothesis on the constants: no two deaths, nor a birth and a death, are due at one
index, and the founding house is dated before them, with its slots well passed on. The
code does not enforce it: the database lists what is due together in any order, and an heir whose death
falls on the holder's index may be listed either way. TLC evaluates `Dated` for the instance
of the run (`MCDated`), so the hypothesis is met where `Succession` is checked.

It also proves of `SceneTail`, for any number of scenes, deaths and links and any narrations, spars,
sheets, streams of dice and tables of weapons, spells and monsters (`TailAssumption`,
`SheetsAssumption`, `TablesAssumption`):

| theorem | states | inductive invariant |
|---|---|---|
| `TailTypeCorrect` | `TailSpec => []TailTypeOK` | `RowsInv`, `StepInv`, `FightInv`, `OnceInv` |
| `FightsHoldHolds` | `TailSpec => []FightsHold` | the same |
| `ToldIsFoughtHolds` | `TailSpec => []ToldIsFought` | the same and `LinksInv`, `HeardInv`, `OwedInv` |
| `CapHoldsAlways` | `TailSpec => []CapHolds` | `RowsInv`, `StepInv`, `CapInv` |

- `FightsHold` says what rows hold and nothing of the fight that will write them. `FightInv` does:
  the report being reckoned is a state of the fold over the tags (`Working`: hit points within each
  sheet's span, pools with the maximum of their kind), its roster has rows of present members, and
  its pools are those stored, for no other step writes pools. What a blow, a spell, a
  cure or a spawn makes of a `Working` report is one lemma each; a roll is a number between the count
  of its dice and that times their sides, plus the modifier, and the fold over the tags of a narration is steps of the specification.
- That blows fall once (`DealtOnce`) is of the key of the combat event: a scene in `bouts` is not fought
  again, whatever is retried.
- `ToldIsFought` rests on two things. A narration with tags does not leave its report silent
  (`HeardInv`: each tag resolves to an outcome or is counted as unresolved). And a fight is refused only where a row has moved: one
  link makes one conflict, after which the roster is read again and is `Current` (`LinksInv`). Two
  links make two conflicts, and the scene goes without its fight.
- `CapHolds` is inductive with the bounds of what a join has read: at most one below the cap, and
  who inserts over a roster that has grown since counts as an overlap.
- The assumptions say what the tables and parsers give: an index names one monster, dice and hit
  points are numbers, a tag has the fields its kind's parser fills, sheets are sound under their own names,
  levels are at most `MaxLevel`, streams are non-empty and of numbers below 20.

`DeliberationProofs` proves, for any stages, decisions, replies, attempts and calls of advance
(`DeliberationAssumption`; `RolesAssumption`: a stage asks one role, scenes are resolved after the
characters have decided, and only the families with a target field have one):

| theorem | states | inductive invariant |
|---|---|---|
| `DeliberationTypeCorrect` | `Spec => []TypeOK` | `TypeInv`, `KeptInv` |
| `RowsAccountedHolds` | `Spec => []RowsAccounted` | `TypeInv`, `Accounted` |
| `AnswersLawfulHolds` | `Spec => []AnswersLawful` | `PlaceInv`, `ProductInv` |
| `ImplementsOracle` | `Spec` implements the initial states and steps of `PhaseOracle` | `PlaceInv` |

`AnswersLawful` is not inductive: an envelope is computed from the intents when a resolver is asked
and used when its answer is judged. `ProductInv` says that who is done among the characters has
an intent, hence intents no longer change once a later stage is asked; `PlaceInv`, that threads of
this call are of this stage or done. The merges and limits of `Judgement` have lemmas of their own.

`UpkeepProofs` proves, of `Upkeep`'s `Spec` and for any values of the constants that satisfy each
component's assumption (`UpkeepAssumption`), the properties below. Its lemmas are about one
component each; `ComponentsStep` says that a step of `Spec` is a step of every component or leaves
that component's rows as they are, so what a component preserves `Spec` preserves.

| theorem | states | inductive invariant |
|---|---|---|
| `VerbsSettleOnceHolds`, `SavesFollowHolds` | of `Standing` | `StandingInv`: `GateInv`, `RowsInv`, `SavesInv`, `SeenInv` |
| `OutboxHoldsAlways` | of `Outbox` | `WorkerInv`, `ClaimInv`, `AckInv`, `StrandedInv` |
| `LibraryHoldsAlways` | of `Shelf` | `ShelfInv` |
| `OneStoryPerKeyHolds`, `SetupNamesItsSourceHolds` | of `Authoring` | `AuthoringInv` |
| `TickedOnceHolds` | of `Conditions` | `UpkeepOfConditions` |
| `ShownOnlyWhatItWitnessedHolds`, `DigestedOnceHolds` | of `Remembering` | `MemoryInv` |
| `ChronicleHoldsAlways` | of `Chronicle` | `ChronicleInv` |

- `SavesFollow` speaks of committed saves; `SeenInv` says why they follow each other: what a call
  has read of a row that is not torn is older than the row, by version, or it is the row. A save that
  compared equal therefore starts from what the last one left, and every commit raises the version.
  What was lost between a comparison and a commit is `torn`, and nothing is claimed of it.
- `ClaimInv` counts: what was handled, the workers whose batch may still handle a message, and one
  if it may be claimed, are together no more than one and the times its claim was taken away.
- `ShelfInv`: the revision that an open save is to store is the one after the number it read, which
  is the row's or an older one. If older, the row of that revision exists and the save is refused.
- `AuthoringInv`: a receipt names the story of its key and every story has one; what a creation
  has resolved is still in the library under the number it will name, for the library only grows;
  and who holds a draft's row keeps it from being deleted.
- `UpkeepOfConditions`: what a request has read of a character is older than the row, or is the
  row. So a tick that passes the version check takes from the stamina that is there.
- `MemoryInv`: the owner of a record was in the event's scene or by its author when the phase was
  sealed; a digest's sources are among what was offered, its owner's records.
- `ChronicleInv`: outside a firing nothing pending is due behind the clock, hence what an evaluation
  found quiet in the past stays so (`Quiet`); the world's row is one version ahead of its store if the
  world has ended, and level otherwise, so no clock is committed after the end; and what an era tells
  is the first part of the log of some earlier length (`Told`), which only grows.
- The assumptions say: verbs are numbered; schedules and workers are finitely many; a row is of one of
  the four tables; no call is named `Free`; strengths, severities (`severity BETWEEN 1 AND 5`) and
  dates are numbers; nobody among the living is `Nobody`.

Theorems without a listed run property were checked by TLC on the same instances.

Only model-checked:

- Every liveness property (`SlotServesUnlessTorn`, `CallsReturn`, `RunsClose`, `HealsUntorn`,
  `Settles`, `PeriodsClose`, `TailHeals`, `PhasesPass`) and the fairness of `OracleSpec`: temporal
  reasoning with fairness and ENABLED is beyond the prover's back ends.

## 5. What the models found

Details, with the line each contradicts, are in `PROJECT.json` "findings".

1. `slot_wedged`: dying between `reset_slot` and the second claim wedges a scope for good.
2. `commit_ring`: commands that advance the clock deadlock with others, through foreign keys.
3. `stage1_rerun`: a phase that fails after its first effectful scene can never be completed.
4. `interventions_lost`: attempts are marked completed before they are made.
5. `macro_double`: a period refused once is later committed over phases simulated in detail.
6. `upkeep_draft`: `save_draft` never writes `created_world_id`, so a draft can create a second
   story, and be edited or deleted when it has created one.
7. `decisions_outage`: an outage of the director counts as a run, and it rests for its cooldown.
8. `ProjectionIsFold`: of two recordings of evidence that both compared versions before either
   committed, the projection loses one.
9. `RecoversInTime`: a request for a phase far ahead, which is then refused, has already let
   conditions recover.
10. `DaysAreTold`: a call that dies after COMPLETED leaves its day without summaries.
11. `MajorEventsBreakPeace`: major events fire in detailed phases, which do not record them as
    salient; none ever breaks a peace.
12. `LastDayReached`: a request ahead of the clock ends the world on its maximum day.
13. `ErasKeepToTheirSpan`: an era cites the owner's oldest memories, whatever its interval.

Other facts about the code, which the models take in and the properties are stated around:

- *Admission and phases*: leases shorter than the work admit a second executor (`LeaseFits`). A
  Stage 0 run whose snapshot was sealed cannot heal once another command has changed a character.
  A period and a phase that overlap can set the clock back. An override is applied again after a
  crash, and so may be a later leg of a journey. Chained legs wait for ever for a leg that failed. An item's batch is applied whatever
  index is requested, before the request is refused. Schedule effects are not recorded when a call
  dies after firing. A focus assignment dated later than a death hides the succession; so can two deaths, or a birth
  and a death, due at one index. One birth whose parents have no row makes every period that
  fires it fail (`Poisoned`).
- *Decisions*: a proposal that the resolver accepts need not contain the determined effects. The
  budget only stops narration. An answer is not compared with the `character_id` it carries. Scenes
  are validated against live versions, so the branch for a stale aggregate never acts, though
  `rules/resolution.py:5` says that sealed versions travel with the packet.
- *Tail*: two fights in one scene (tags and a spar, or two spars) collide on the key of the
  combat event, and the phase fails at every retry (`Stuck`). A recruit into a full party raises;
  the repeated call finds the narration and loses its tags. Tags are also lost with a call that dies between
  the two. A cure with a negative modifier rolls nothing; pure cures do not grow with the slot.
- *Upkeep*: `fail` of the outbox can overwrite a message that was acknowledged meanwhile. Of two conditions with
  a common victim the second is refused once per attempt. Digests and summaries look before they
  insert, and no key of the table backs them. Claims are listed by the listener's present place.
- *Chronicle*: an evaluation between a period's clock and its schedules misses the deaths of the
  period. An override kills without a lineage record, and a schedule of death that fires in a
  detailed phase kills nobody. Phases do not look at the status of the world: an ended one keeps
  its clock because the ending moves the row and not the version store, so every tick is refused.
  Composings that overlap give two eras one version.
- *Authoring*: a concurrent duplicate of a creation may be answered 409. A retry under the first
  key is a conflict once the draft was edited, and 404 once it was deleted. Two edits that overlap
  give two contents one version. `set_archived` takes built-in presets. A pinned provider profile
  never applies: `resolve_profile` reads the key "ai" of the setup, which `_snapshot_payload` stores
  under "art".

## 6. Not modelled

- Content: texts, prompts, names, amounts of energy and skill; a choice stands for each where
  control depends on it. The data tables of the rules are small ones of the same shape.
- The text of an era, the seed import (one transaction of inserts
  under literal identifiers), queries, metrics and the consistency audit (read only).
- The answer to a repeated call of a completed phase (`_duplicate_report`, read only; it reads
  present places and deaths, so a later report may differ from the first).
- `create_character` of the party, level previews, experience and encounter difficulty: tests use
  them, or only text depends on them. `give_item`: it inserts a fresh row.
- Policy caps of macro periods and `select_resolution`.
- `validate_draft` and the rows of a new world (one choice), images and files, endpoint checks,
  secrets, manifests, redaction, HTTP of the gateway and its fixtures.
- Role checks, DTOs, error mapping, migrations, readiness; the archive check inside `claim`.
- Compositions: the five modules of a Stage 1 phase are checked apart. Each takes what another decides as any
  choice, so composing them adds no behaviour to either, but properties across two of them
  (a fight's deaths and the next perception, say) are not stated.

## 7. Plan

Done, in this order: admission with its proofs; the canonical transaction with its proofs; Stage 0;
Stage 1; interventions; genealogy and macro periods; decisions; combat and what follows a scene;
standing, outbox, conditions, memory, creation of stories, the operators' rows, endings and eras.

Proofs, in this order: admission, the canonical transaction, Stage 0, Stage 1, interventions, macro
periods, decisions, the components of `Upkeep`, what follows a scene.

Next, proofs:

- without `Dated`, which families are passed on well all the same;
- the relation between modules that are checked apart (a fight's deaths and the next perception).

And for TLC: rules of calendar, energy and skill against reference definitions.
