----------------------------- MODULE PhaseStage0 -----------------------------
(***************************************************************************)
(* The Stage 0 phase runner (application/orchestration/service.py): calls  *)
(* of advance_world tick one world phase by phase.  Every action is one    *)
(* transaction, or one statement where two are read in a row; a call may   *)
(* die between any two.  All calls on one phase derive the same owner, so  *)
(* the task row excludes nobody among them: it is shared by heartbeat.     *)
(*                                                                         *)
(* The canonical transaction is one atomic step here (CanonicalCommit).    *)
(***************************************************************************)
EXTENDS TaskRow, FiniteSets

CONSTANTS
    Calls,         \* advance_world calls in flight
    Keys,          \* idempotency keys of their clients
    MaxIndex,      \* bound: the phases of the model's world
    MaxFaults,     \* bound on crashes and model failures
    MaxEdits,      \* bound on the commands of other routes
    NoSnapshot, NoKey, Nobody

Orchestrator == CHOOSE o \in Owners : TRUE    \* owner: orchestrator:{run}

ASSUME Stage0Assumption ==
    /\ IsFiniteSet(Calls) /\ IsFiniteSet(Keys)
    /\ \E o \in Owners : Owners = {o}
    /\ MaxIndex \in Nat \ {0} /\ MaxFaults \in Nat /\ MaxEdits \in Nat
    /\ NoKey \notin Keys /\ NoSnapshot \notin [world : Nat, characters : Nat]

VARIABLES
    \* the database
    clock,         \* the world's absolute index
    ticks,         \* committed WORLD_TICKED events: phase and command key
    runs,          \* phase_run.state by index
    tasks,         \* task_run row phase_advance:{index}
    snapshots,     \* phase_snapshot by index
    edits,         \* versions added to the characters by other commands
    \* the callers
    call,          \* program counter and locals of each call
    operator,      \* pause_world or resume_world between its read and write
    \* bookkeeping of the model
    faults,
    overlapped     \* two operations have been in flight at once

database == <<clock, ticks, runs, tasks, snapshots, edits>>
callers == <<call, operator>>
vars == <<database, callers, faults, overlapped>>

Index == 1..MaxIndex
Closed == {"completed", "terminal_failed"}
RunState == {"absent", "created", "world_ticked", "snapshot_sealed", "paused",
             "retryable_failed"} \cup Closed
Blocked == {"paused", "terminal_failed"}

\* What _snapshot_inputs reads: the versions of the world and its characters.
\* A tick moves the world's version only.
Content == [world : Nat, characters : Nat]
Inputs == [world |-> Cardinality(ticks), characters |-> edits]

Steps ==
    {"idle", "replay", "clock", "open", "create", "check", "stale", "task", "heartbeat",
     "claim", "find", "read", "commit", "ticked", "inputs", "seal", "sealed",
     "finalize", "retryable", "terminal"}

Nothing == [world |-> 0, characters |-> 0]

Call == [pc      : Steps,
         key     : Keys \cup {NoKey},
         target  : 0..MaxIndex + 1,    \* the run it works on
         healing : BOOLEAN,            \* that run is stale
         seen    : Content]            \* what it last read of the world

Idle == [pc |-> "idle", key |-> NoKey, target |-> 0, healing |-> FALSE, seen |-> Nothing]

TypeOK ==
    /\ clock \in 0..MaxIndex
    /\ ticks \subseteq [index : Index, key : Keys]
    /\ runs \in [Index -> RunState]
    /\ tasks \in [Index -> Row]
    /\ snapshots \in [Index -> Content \cup {NoSnapshot}]
    /\ edits \in 0..MaxEdits
    /\ call \in [Calls -> Call]
    /\ operator \in (Index \X {"paused", "retryable_failed"}) \cup {Nobody}
    /\ faults \in 0..MaxFaults
    /\ overlapped \in BOOLEAN

Init ==
    /\ clock = 0 /\ ticks = {} /\ edits = 0
    /\ runs = [i \in Index |-> "absent"]
    /\ tasks = [i \in Index |-> NoRow]
    /\ snapshots = [i \in Index |-> NoSnapshot]
    /\ call = [c \in Calls |-> Idle]
    /\ operator = Nobody
    /\ faults = 0 /\ overlapped = FALSE

-----------------------------------------------------------------------------
InFlight == {c \in Calls : call[c].pc # "idle"}
Overlaps == overlapped' = (overlapped \/ InFlight # {} \/ operator # Nobody)

\* A step of the call alone; returning to the client forgets its locals.
At(c, step) == call[c].pc = step /\ UNCHANGED <<edits, operator, faults, overlapped>>
Goto(c, step) == call' = [call EXCEPT ![c].pc = step]
Return(c) == call' = [call EXCEPT ![c] = Idle]

Target(c) == call[c].target
Task(c) == tasks[Target(c)]

SetState(i, state) == runs' = [runs EXCEPT ![i] = state]
SetTask(c, row) == tasks' = [tasks EXCEPT ![Target(c)] = row]

\* TaskService.reconcile over the tasks of this world.
Reconciled == [i \in Index |-> IF Stale(tasks[i]) THEN Requeued(tasks[i]) ELSE tasks[i]]

OpenRuns == {i \in Index : runs[i] \notin Closed \cup {"absent"}}
HasTicked(k) == \E t \in ticks : t.key = k

-----------------------------------------------------------------------------
(* advance_world                                                           *)

\* A client sends a key; the call starts with a reconciliation.
Start(c, k) ==
    /\ call[c].pc = "idle"
    /\ call' = [call EXCEPT ![c] = [Idle EXCEPT !.pc = "replay", !.key = k]]
    /\ tasks' = Reconciled
    /\ Overlaps
    /\ UNCHANGED <<clock, ticks, runs, snapshots, edits, operator, faults>>

\* _replay: a key that has ticked gets its stored result back.
Replay(c) ==
    /\ At(c, "replay")
    /\ IF HasTicked(call[c].key) THEN Return(c) ELSE Goto(c, "clock")
    /\ UNCHANGED database

ReadClock(c) ==
    /\ At(c, "clock")
    /\ call' = [call EXCEPT ![c] = [@ EXCEPT !.pc = "open", !.target = clock + 1,
                                             !.healing = FALSE]]
    /\ UNCHANGED database

\* Mutant: a run behind the clock is left as it is.
FindOpenRun_LeavesStale(c) ==
    /\ At(c, "open")
    /\ IF /\ \A i \in OpenRuns : i <= Target(c)
          /\ Target(c) \in Index
       THEN Goto(c, "create") ELSE Return(c)
    /\ UNCHANGED database

\* find_open_run: several open runs, or one ahead of the clock, raise; one
\* behind it is completed first.
FindOpenRun(c) ==
    /\ At(c, "open")
    /\ \/ /\ \A i \in OpenRuns : i = Target(c)
          /\ IF Target(c) \in Index THEN Goto(c, "create") ELSE Return(c)
       \/ /\ Cardinality(OpenRuns) = 1
          /\ \E i \in OpenRuns :
                /\ i < Target(c)
                /\ call' = [call EXCEPT ![c] = [@ EXCEPT !.pc = "stale", !.target = i,
                                                         !.healing = TRUE]]
       \/ /\ Cardinality(OpenRuns) > 1 \/ \E i \in OpenRuns : i > Target(c)
          /\ Return(c)
    /\ UNCHANGED database

\* The id is derived from the index: a second insert is refused and ignored.
CreateRun(c) ==
    /\ At(c, "create")
    /\ IF runs[Target(c)] = "absent" THEN SetState(Target(c), "created") ELSE UNCHANGED runs
    /\ Goto(c, "check")
    /\ UNCHANGED <<clock, ticks, tasks, snapshots>>

CheckRun(c) ==
    /\ At(c, "check")
    /\ IF runs[Target(c)] \in Blocked \cup {"completed"} THEN Return(c) ELSE Goto(c, "task")
    /\ UNCHANGED database

\* _complete_stale_run rereads the clock.
CheckStale(c) ==
    /\ At(c, "stale")
    /\ IF clock = Target(c) THEN Goto(c, "task") ELSE Return(c)
    /\ UNCHANGED database

-----------------------------------------------------------------------------
(* _acquire_task: what raises here does not mark the run                   *)

Acquired(c) == Goto(c, IF call[c].healing THEN "find" ELSE "read")

CreateTask(c) ==
    /\ At(c, "task")
    /\ IF Task(c).state = "absent" THEN SetTask(c, Created) ELSE UNCHANGED tasks
    /\ Goto(c, IF CanExtend(Task(c), Orchestrator) THEN "heartbeat" ELSE "claim")
    /\ UNCHANGED <<clock, ticks, runs, snapshots>>

\* The lease may have run out, or the task ended, since it was read.
Heartbeat(c) ==
    /\ At(c, "heartbeat")
    /\ IF CanExtend(Task(c), Orchestrator)
       THEN SetTask(c, Extended(Task(c))) /\ Acquired(c)
       ELSE Goto(c, "claim") /\ UNCHANGED tasks
    /\ UNCHANGED <<clock, ticks, runs, snapshots>>

\* The attempt number is written and never compared: it stays 1.
ClaimTask(c) ==
    /\ At(c, "claim")
    /\ IF Claimable(Task(c))
       THEN SetTask(c, ClaimedBy(Task(c), Orchestrator, 1)) /\ Acquired(c)
       ELSE Return(c) /\ UNCHANGED tasks
    /\ UNCHANGED <<clock, ticks, runs, snapshots>>

-----------------------------------------------------------------------------
(* The tick and its aftermath.  Whatever raises here marks the run.        *)

Working == {"find", "read", "commit", "ticked", "inputs", "seal", "sealed", "finalize"}

\* A stale run without a committed tick breaks an invariant.
FindTick(c) ==
    /\ At(c, "find")
    /\ Goto(c, IF \E t \in ticks : t.index = Target(c) THEN "ticked" ELSE "retryable")
    /\ UNCHANGED database

\* _commit_tick and _snapshot_inputs read the world afresh; the target was
\* computed from an older clock.
ReadWorld(c, from, to) ==
    /\ At(c, from)
    /\ call' = [call EXCEPT ![c] = [@ EXCEPT !.pc = to, !.seen = Inputs]]
    /\ UNCHANGED database

Ticked(c, after) == call' = [call EXCEPT ![c] = [@ EXCEPT !.pc = after, !.seen = Nothing]]

\* A key that has ticked this phase is a duplicate; on another phase its input
\* hash differs.
TickAgain(c) ==
    /\ HasTicked(call[c].key)
    /\ Ticked(c, IF [index |-> Target(c), key |-> call[c].key] \in ticks
                 THEN "ticked" ELSE "terminal")
    /\ UNCHANGED <<clock, ticks>>

\* AdvanceClock does not look at the clock it advances: the world's version
\* and the outbox key phase_advanced:{index} stop a second tick of the phase.
TickRefused(c) ==
    /\ ~HasTicked(call[c].key)
    /\ call[c].seen.world # Inputs.world \/ \E t \in ticks : t.index = Target(c)
    /\ Ticked(c, "retryable")
    /\ UNCHANGED <<clock, ticks>>

\* Mutant: the tick's outbox message has no key.
TickLands_NoOutboxKey(c) ==
    /\ ~HasTicked(call[c].key)
    /\ call[c].seen.world = Inputs.world
    /\ ticks' = ticks \cup {[index |-> Target(c), key |-> call[c].key]}
    /\ clock' = Target(c)
    /\ Ticked(c, "ticked")

TickLands(c) ==
    /\ ~HasTicked(call[c].key)
    /\ call[c].seen.world = Inputs.world
    /\ \A t \in ticks : t.index # Target(c)
    /\ ticks' = ticks \cup {[index |-> Target(c), key |-> call[c].key]}
    /\ clock' = Target(c)
    /\ Ticked(c, "ticked")

\* CanonicalTransaction.commit of the tick.
CommitTick(c) ==
    /\ At(c, "commit")
    /\ TickAgain(c) \/ TickRefused(c) \/ TickLands(c)
    /\ UNCHANGED <<runs, tasks, snapshots>>

\* _set_state looks at nothing before it writes.
MarkRun(c, from, state, to) ==
    /\ At(c, from)
    /\ SetState(Target(c), state)
    /\ Goto(c, to)
    /\ UNCHANGED <<clock, ticks, tasks, snapshots>>

\* The primary key admits one snapshot of a run ...
AddSnapshot(i, content) ==
    snapshots' = [snapshots EXCEPT ![i] = IF @ = NoSnapshot THEN content ELSE @]

\* ... and whoever finds one there compares the recomputed hash with it.
StoredAs(i, content) == snapshots[i] \in {NoSnapshot, content}

Seal(c) ==
    /\ At(c, "seal")
    /\ AddSnapshot(Target(c), call[c].seen)
    /\ Ticked(c, IF StoredAs(Target(c), call[c].seen) THEN "sealed" ELSE "retryable")
    /\ UNCHANGED <<clock, ticks, runs, tasks>>

\* Mutant: the False of a lost lease is ignored.
Finalize_Anyway(c) ==
    /\ At(c, "finalize")
    /\ SetState(Target(c), "completed")
    /\ SetTask(c, Finished(Task(c), Orchestrator))
    /\ IF call[c].healing THEN Goto(c, "clock") ELSE Return(c)
    /\ UNCHANGED <<clock, ticks, snapshots>>

\* Run and task end in one transaction, which a lost lease rolls back.  After
\* a stale run the loop of advance_world starts over.
Finalize(c) ==
    /\ At(c, "finalize")
    /\ IF HeldBy(Task(c), Orchestrator)
       THEN /\ SetState(Target(c), "completed")
            /\ SetTask(c, Finished(Task(c), Orchestrator))
            /\ IF call[c].healing THEN Goto(c, "clock") ELSE Return(c)
       ELSE Goto(c, "terminal") /\ UNCHANGED <<runs, tasks>>
    /\ UNCHANGED <<clock, ticks, snapshots>>

\* Mutant: every failure is terminal.
MarkFailure_Terminal(c, class, state) ==
    /\ At(c, class)
    /\ SetState(Target(c), "terminal_failed")
    /\ Return(c)
    /\ UNCHANGED <<clock, ticks, tasks, snapshots>>

\* _mark_failure and the raise that follows; the task stays running.
MarkFailure(c, class, state) ==
    /\ At(c, class)
    /\ SetState(Target(c), state)
    /\ Return(c)
    /\ UNCHANGED <<clock, ticks, tasks, snapshots>>

-----------------------------------------------------------------------------
(* pause_world and resume_world: a read, a check, a blind write            *)

Decide(from, to) ==
    /\ operator = Nobody
    /\ \E i \in Index : runs[i] = from /\ operator' = <<i, to>>
    /\ Overlaps
    /\ UNCHANGED <<database, call, faults>>

Pause == Cardinality(OpenRuns) = 1 /\ Decide("created", "paused")

\* Mutant: any run resumes.
Resume_AnyRun == \E state \in RunState \ {"absent"} : Decide(state, "retryable_failed")

Resume == Decide("paused", "retryable_failed")

SetDecided ==
    /\ operator # Nobody
    /\ SetState(operator[1], operator[2])
    /\ operator' = Nobody
    /\ UNCHANGED <<clock, ticks, tasks, snapshots, edits, call, faults, overlapped>>

-----------------------------------------------------------------------------
(* Faults and the rest of the world                                        *)

Fault == faults < MaxFaults /\ faults' = faults + 1

\* The gateway or a statement raises inside the try.
Raise(c) ==
    /\ call[c].pc \in Working
    /\ Fault
    /\ Ticked(c, "retryable")
    /\ UNCHANGED <<database, operator, overlapped>>

\* The process dies: the rows keep the state and the lease they had.
Crash(c) ==
    /\ c \in InFlight
    /\ Fault
    /\ Return(c)
    /\ UNCHANGED <<database, operator, overlapped>>

Expire ==
    /\ \E i \in Index :
          /\ tasks[i].state = "running" /\ tasks[i].lease = "live"
          /\ tasks' = [tasks EXCEPT ![i].lease = "expired"]
    /\ UNCHANGED <<clock, ticks, runs, snapshots, edits, callers, faults, overlapped>>

\* Startup, reconcile_world or an advance of any other story.
ReconcileElsewhere ==
    /\ \E i \in Index : Stale(tasks[i])
    /\ tasks' = Reconciled
    /\ UNCHANGED <<clock, ticks, runs, snapshots, edits, callers, faults, overlapped>>

\* A command of another route changes a character.
OtherCommand ==
    /\ edits < MaxEdits
    /\ edits' = edits + 1
    /\ UNCHANGED <<clock, ticks, runs, tasks, snapshots, callers, faults, overlapped>>

-----------------------------------------------------------------------------
CallStep(c) ==
    \/ Replay(c) \/ ReadClock(c) \/ FindOpenRun(c) \/ CreateRun(c) \/ CheckRun(c)
    \/ CheckStale(c) \/ CreateTask(c) \/ Heartbeat(c) \/ ClaimTask(c) \/ FindTick(c)
    \/ ReadWorld(c, "read", "commit") \/ CommitTick(c)
    \/ MarkRun(c, "ticked", "world_ticked", "inputs")
    \/ ReadWorld(c, "inputs", "seal") \/ Seal(c)
    \/ MarkRun(c, "sealed", "snapshot_sealed", "finalize") \/ Finalize(c)
    \/ MarkFailure(c, "retryable", "retryable_failed")
    \/ MarkFailure(c, "terminal", "terminal_failed")

Next ==
    \/ \E c \in Calls : CallStep(c) \/ Raise(c) \/ Crash(c) \/ \E k \in Keys : Start(c, k)
    \/ Pause \/ Resume \/ SetDecided
    \/ Expire \/ ReconcileElsewhere \/ OtherCommand

Spec == Init /\ [][Next]_vars

\* Clients send fresh keys again and again, calls run on, pauses are resumed
\* and time passes.
FreshStart == \E c \in Calls, k \in Keys : ~HasTicked(k) /\ Start(c, k)

Fairness ==
    /\ \A c \in Calls : WF_vars(CallStep(c))
    /\ SF_vars(FreshStart)
    /\ SF_vars(Resume) /\ WF_vars(SetDecided)
    /\ WF_vars(Expire)

FairSpec == Spec /\ Fairness

-----------------------------------------------------------------------------
(* Properties                                                              *)

\* "No duplicate phase, event, effect, or snapshot can result"
\* (service.py:7-8): every phase up to the clock has ticked exactly once, even
\* when overlapping calls carry stale clocks and share the task row.
TickedOncePerPhase ==
    \A i \in Index : Cardinality({t \in ticks : t.index = i}) = IF i <= clock THEN 1 ELSE 0

\* A run is completed together with its task, after its tick and its snapshot.
CompletionIsWhole ==
    \A i \in Index : (runs[i] = "completed" /\ ~overlapped) =>
        /\ i <= clock
        /\ snapshots[i] # NoSnapshot
        /\ tasks[i].state = "succeeded"

\* "The clock cannot have moved past an unhealed run" (service.py:300-302):
\* among calls one after the other, a phase is sealed, as its own tick left the
\* world, before the next phase ticks.
ClockWaitsForHealing ==
    ~overlapped =>
        /\ \A i \in Index : i < clock => snapshots[i] # NoSnapshot
        /\ \A i \in Index : snapshots[i] # NoSnapshot => snapshots[i].world = i

\* The history a world shows is the one it went through, wherever calls die:
\* ticks, seals and completions of its phases come once and in their order.
PhasesInOrder == TickedOncePerPhase /\ CompletionIsWhole /\ ClockWaitsForHealing

\* "Terminal and cancelled runs never auto-retry" (service.py:12): among
\* operations one after the other, a closed run is never written again.
ClosedIsFinal ==
    [][ ~overlapped => \A i \in Index : runs[i] \in Closed => runs'[i] = runs[i] ]_vars

AllPhasesDone ==
    clock = MaxIndex /\ \A i \in Index : snapshots[i] # NoSnapshot /\ runs[i] \in Closed

\* "Resuming after a crash is simply running advance_world again"
\* (service.py:6-7), as long as no other command touches the world in between.
HealsUndisturbed == [](~overlapped /\ edits = 0) => <>[]AllPhasesDone

\* A run is closed once and for all, and every run is closed.
RunsClose == ClosedIsFinal /\ HealsUndisturbed
=============================================================================
