-------------------------- MODULE PhaseStage0Proofs --------------------------
(***************************************************************************)
(* Proofs about the Stage 0 phase runner, for any number of calls, keys,   *)
(* phases, faults and edits:                                               *)
(*   TypeInv     a call that works on a run works on one of the world's.   *)
(*   TickInv     phases tick one after the other whatever overlaps: a call *)
(*               aims at most one past the clock, and the outbox key keeps *)
(*               it from a phase that has ticked.                          *)
(*   SerialInv   until two operations overlap, one call or one operator is *)
(*               at work, on a run that is open, and every phase the clock *)
(*               has left is sealed.                                       *)
(***************************************************************************)
EXTENDS PhaseStage0, FiniteSetTheorems, TLAPS

\* A call works on a run from the moment it has found one.
OnRun == Steps \ {"idle", "replay", "clock", "open"}

CallsTyped ==
    /\ call \in [Calls -> Call]
    /\ \A c \in Calls : call[c].pc \in OnRun => call[c].target \in Index
    /\ \A c \in Calls : call[c].pc # "idle" => call[c].key \in Keys

TypeInv == TypeOK /\ IsFiniteSet(ticks) /\ CallsTyped

-----------------------------------------------------------------------------
TickInv ==
    /\ \A t \in ticks : t.index <= clock
    /\ \A i \in 1..clock : \E t \in ticks : t.index = i
    /\ \A t, u \in ticks : t.index = u.index => t = u
    /\ Cardinality(ticks) = clock
    /\ \A c \in Calls : Target(c) <= clock + 1

-----------------------------------------------------------------------------
Alone ==
    /\ \A c, d \in InFlight : c = d
    /\ operator # Nobody => InFlight = {} /\ runs[operator[1]] \in {"created", "paused"}

RowsInv ==
    /\ \A i \in Index : i <= clock => runs[i] # "absent"
    /\ \A i \in Index : runs[i] = "completed" => snapshots[i] # NoSnapshot /\ i <= clock
                                                 /\ tasks[i].state = "succeeded"
    /\ \A i \in Index : runs[i] = "terminal_failed" => snapshots[i] # NoSnapshot
    /\ \A i \in Index : i < clock => snapshots[i] # NoSnapshot
    /\ \A i \in Index : snapshots[i] # NoSnapshot => snapshots[i].world = i

BeforeTick == {"create", "check", "task", "heartbeat", "claim", "read", "commit"}
AfterTick == {"ticked", "inputs", "seal", "sealed", "finalize"}
Acquiring == {"task", "heartbeat", "claim", "find"}

\* What one call knows of the run it works on.
CallInv(c) ==
    /\ call[c].pc \in BeforeTick /\ ~call[c].healing =>
          Target(c) = clock + 1 /\ \A i \in Index : i <= clock => snapshots[i] # NoSnapshot
    /\ call[c].pc = "open" => Target(c) = clock + 1 /\ ~call[c].healing
    /\ call[c].pc \in {"create", "check", "read", "commit"} => ~call[c].healing
    /\ call[c].pc \in {"clock", "open", "stale", "find"} \cup BeforeTick => ~HasTicked(call[c].key)
    /\ call[c].pc \in OnRun /\ call[c].healing => ~HasTicked(call[c].key)
    /\ call[c].pc = "stale" => call[c].healing
    /\ call[c].pc \in OnRun \ {"create"} => runs[Target(c)] # "absent"
    /\ call[c].pc \in OnRun \ {"create", "check"} => runs[Target(c)] \notin Closed
    /\ call[c].pc \in AfterTick \cup {"find"} => Target(c) = clock
    /\ call[c].pc \in Acquiring /\ call[c].healing => Target(c) = clock
    /\ call[c].pc = "seal" => call[c].seen.world = clock
    /\ call[c].pc \in {"sealed", "finalize", "terminal"} => snapshots[Target(c)] # NoSnapshot

SerialInv == ~overlapped => Alone /\ RowsInv /\ \A c \in Calls : CallInv(c)

-----------------------------------------------------------------------------
(* Types                                                                   *)

LEMMA OrchestratorOwns == Orchestrator \in Owners
  BY Stage0Assumption DEF Orchestrator

\* The updates of a task row keep its type.
LEMMA RowTypes ==
    ASSUME NEW r \in Row
    PROVE  /\ NoRow \in Row /\ Created \in Row
           /\ Extended(r) \in Row /\ ClaimedBy(r, Orchestrator, 1) \in Row
           /\ Finished(r, Orchestrator) \in Row /\ Requeued(r) \in Row
           /\ [r EXCEPT !.lease = "expired"] \in Row
  BY OrchestratorOwns
  DEF Row, TaskState, Terminal, LeaseClock, NoRow, Created, Extended, ClaimedBy, Finished,
      Released, Requeued

LEMMA InputsType == TypeInv => Inputs \in Content
  BY FS_CardinalityType DEF TypeInv, TypeOK, Inputs, Content

LEMMA IdleType == Idle \in Call
  BY Stage0Assumption DEF Idle, Call, Steps, Nothing, Content

LEMMA InitType == Init => TypeInv
  <1> SUFFICES ASSUME Init PROVE TypeInv
    OBVIOUS
  <1>1. IsFiniteSet(ticks)
    BY FS_EmptySet DEF Init
  <1>2. tasks \in [Index -> Row]
    BY RowTypes DEF Init, Row, TaskState, LeaseClock, NoRow
  <1>3. call \in [Calls -> Call] /\ \A c \in Calls : call[c].pc = "idle"
    BY IdleType DEF Init, Idle
  <1>4. CallsTyped
    BY <1>3 DEF CallsTyped, OnRun
  <1>5. overlapped \in BOOLEAN
    BY DEF Init
  <1>6. clock \in 0..MaxIndex /\ edits \in 0..MaxEdits /\ faults \in 0..MaxFaults
    BY Stage0Assumption DEF Init
  <1>7. runs \in [Index -> RunState] /\ snapshots \in [Index -> Content \cup {NoSnapshot}]
    BY DEF Init, RunState
  <1>8. ticks = {} /\ operator = Nobody
    BY DEF Init
  <1>9. QED
    BY <1>1, <1>2, <1>3, <1>4, <1>5, <1>6, <1>7, <1>8 DEF TypeInv, TypeOK

\* What a step of one call leaves of the types, if its new locals have theirs.
LEMMA CallKeepsType ==
    ASSUME TypeInv, NEW c \in Calls, NEW local \in Call,
           call' = [call EXCEPT ![c] = local],
           local.pc \in OnRun => local.target \in Index,
           local.pc # "idle" => local.key \in Keys
    PROVE  CallsTyped'
  BY DEF TypeInv, TypeOK, CallsTyped

LEMMA GotoType ==
    ASSUME TypeInv, NEW c \in Calls, NEW step \in Steps, call[c].pc # "idle",
           call[c].pc \in OnRun \/ step \notin OnRun, Goto(c, step)
    PROVE  CallsTyped'
  <1> DEFINE local == [call[c] EXCEPT !.pc = step]
  <1>1. call[c] \in Call /\ call[c].key \in Keys /\ (call[c].pc \in OnRun => call[c].target \in Index)
    BY DEF TypeInv, CallsTyped
  <1>2. local \in Call /\ local.target = call[c].target /\ local.key = call[c].key
        /\ local.pc = step
    BY <1>1 DEF Call
  <1>3. call' = [call EXCEPT ![c] = local]
    BY DEF Goto
  <1> HIDE DEF local
  <1>4. QED
    BY <1>1, <1>2, <1>3, CallKeepsType

LEMMA TickedType ==
    ASSUME TypeInv, NEW c \in Calls, NEW step \in Steps, call[c].pc \in OnRun, Ticked(c, step)
    PROVE  CallsTyped'
  <1> DEFINE local == [call[c] EXCEPT !.pc = step, !.seen = Nothing]
  <1>1. call[c] \in Call /\ call[c].key \in Keys /\ call[c].target \in Index
    BY DEF TypeInv, CallsTyped, OnRun
  <1>2. local \in Call /\ local.target = call[c].target /\ local.key = call[c].key
        /\ local.pc = step
    BY <1>1 DEF Call, Content, Nothing
  <1>3. call' = [call EXCEPT ![c] = local]
    BY DEF Ticked
  <1> HIDE DEF local
  <1>4. QED
    BY <1>1, <1>2, <1>3, CallKeepsType

LEMMA ReturnType ==
    ASSUME TypeInv, NEW c \in Calls, Return(c)
    PROVE  CallsTyped'
  BY IdleType, CallKeepsType DEF Return, Idle, OnRun

LEMMA SetStateType ==
    ASSUME TypeInv, NEW i \in Index, NEW state \in RunState, SetState(i, state)
    PROVE  runs' \in [Index -> RunState]
  BY DEF TypeInv, TypeOK, SetState

LEMMA SetTaskType ==
    ASSUME TypeInv, NEW c \in Calls, NEW row \in Row, SetTask(c, row)
    PROVE  tasks' \in [Index -> Row]
  BY DEF TypeInv, TypeOK, SetTask

LEMMA ReconciledType == TypeInv => Reconciled \in [Index -> Row]
  <1> SUFFICES ASSUME TypeInv, NEW i \in Index
               PROVE  (IF Stale(tasks[i]) THEN Requeued(tasks[i]) ELSE tasks[i]) \in Row
    BY DEF Reconciled
  <1>1. tasks[i] \in Row
    BY DEF TypeInv, TypeOK
  <1>2. QED
    BY <1>1, RowTypes

\* The steps a call takes before its tick.
LEMMA AcquireType ==
    ASSUME TypeInv, NEW c \in Calls,
           \/ Replay(c) \/ ReadClock(c) \/ FindOpenRun(c) \/ CreateRun(c) \/ CheckRun(c)
           \/ CheckStale(c) \/ CreateTask(c) \/ Heartbeat(c) \/ ClaimTask(c) \/ FindTick(c)
    PROVE  TypeInv'
  <1> USE DEF At, database
  <1>t. /\ call[c] \in Call /\ clock \in 0..MaxIndex
        /\ call[c].pc \in OnRun => Target(c) \in Index
        /\ call[c].pc # "idle" => call[c].key \in Keys
    BY DEF TypeInv, TypeOK, CallsTyped, Target
  <1>r. call[c].pc \in OnRun => Task(c) \in Row
    BY <1>t DEF TypeInv, TypeOK, Task
  <1>1. CASE Replay(c)
    <2>1. CallsTyped'
      BY <1>1, GotoType, ReturnType DEF Replay, Steps, OnRun
    <2>2. QED
      BY <1>1, <2>1 DEF Replay, TypeInv, TypeOK, CallsTyped
  <1>2. CASE ReadClock(c)
    <2> DEFINE local == [call[c] EXCEPT !.pc = "open", !.target = clock + 1, !.healing = FALSE]
    <2>1. call[c].key \in Keys /\ clock + 1 \in 0..MaxIndex + 1
      BY <1>2, <1>t, Stage0Assumption DEF ReadClock
    <2>2. local \in Call /\ local.pc = "open" /\ local.key \in Keys
      BY <2>1, <1>t DEF Call, Steps
    <2>3. call' = [call EXCEPT ![c] = local]
      BY <1>2 DEF ReadClock
    <2> HIDE DEF local
    <2>4. CallsTyped'
      BY <2>2, <2>3, CallKeepsType DEF OnRun
    <2>5. QED
      BY <1>2, <2>4 DEF ReadClock, TypeInv, TypeOK, CallsTyped
  <1>3. CASE FindOpenRun(c)
    <2>0. call[c].key \in Keys
      BY <1>3, <1>t DEF FindOpenRun
    <2>1. ASSUME Target(c) \in Index, Goto(c, "create") PROVE CallsTyped'
      <3> DEFINE local == [call[c] EXCEPT !.pc = "create"]
      <3>1. local \in Call /\ local.target \in Index /\ local.key \in Keys
        BY <2>0, <2>1, <1>t DEF Call, Steps, Target
      <3>2. call' = [call EXCEPT ![c] = local]
        BY <2>1 DEF Goto
      <3> HIDE DEF local
      <3>3. QED
        BY <3>1, <3>2, CallKeepsType
    <2>2. ASSUME Return(c) PROVE CallsTyped'
      BY <2>2, ReturnType
    <2>3. ASSUME NEW i \in OpenRuns,
                 call' = [call EXCEPT ![c] = [@ EXCEPT !.pc = "stale", !.target = i,
                                                       !.healing = TRUE]]
          PROVE  CallsTyped'
      <3> DEFINE local == [call[c] EXCEPT !.pc = "stale", !.target = i, !.healing = TRUE]
      <3>1. i \in Index /\ i \in 0..MaxIndex + 1
        BY Stage0Assumption DEF OpenRuns, Index
      <3>3. local \in Call /\ local.target \in Index /\ local.key \in Keys
        BY <3>1, <2>0, <1>t DEF Call, Steps
      <3>4. call' = [call EXCEPT ![c] = local]
        BY <2>3
      <3> HIDE DEF local
      <3>5. QED
        BY <3>3, <3>4, CallKeepsType
    <2>4. CallsTyped'
      BY <1>3, <2>1, <2>2, <2>3 DEF FindOpenRun
    <2>5. QED
      BY <1>3, <2>4 DEF FindOpenRun, TypeInv, TypeOK, CallsTyped
  <1>4. CASE CreateRun(c)
    <2>1. CallsTyped'
      BY <1>4, GotoType DEF CreateRun, Steps, OnRun
    <2>2. runs' \in [Index -> RunState]
      BY <1>4, <1>t, SetStateType DEF CreateRun, TypeInv, TypeOK, RunState, OnRun, Steps
    <2>3. QED
      BY <1>4, <2>1, <2>2 DEF CreateRun, TypeInv, TypeOK, CallsTyped
  <1>5. CASE CheckRun(c)
    <2>1. CallsTyped'
      BY <1>5, GotoType, ReturnType DEF CheckRun, Steps, OnRun
    <2>2. QED
      BY <1>5, <2>1 DEF CheckRun, TypeInv, TypeOK, CallsTyped
  <1>6. CASE CheckStale(c)
    <2>1. CallsTyped'
      BY <1>6, GotoType, ReturnType DEF CheckStale, Steps, OnRun
    <2>2. QED
      BY <1>6, <2>1 DEF CheckStale, TypeInv, TypeOK, CallsTyped
  <1>7. CASE CreateTask(c)
    <2>1. CallsTyped'
      BY <1>7, GotoType DEF CreateTask, Steps, OnRun
    <2>2. tasks' \in [Index -> Row]
      BY <1>7, <1>r, SetTaskType, RowTypes DEF CreateTask, TypeInv, TypeOK, OnRun, Steps
    <2>3. QED
      BY <1>7, <2>1, <2>2 DEF CreateTask, TypeInv, TypeOK, CallsTyped
  <1>8. CASE Heartbeat(c)
    <2>1. CallsTyped'
      BY <1>8, GotoType DEF Heartbeat, Acquired, Steps, OnRun
    <2>2. tasks' \in [Index -> Row]
      BY <1>8, <1>r, SetTaskType, RowTypes DEF Heartbeat, TypeInv, TypeOK, OnRun, Steps
    <2>3. QED
      BY <1>8, <2>1, <2>2 DEF Heartbeat, TypeInv, TypeOK, CallsTyped
  <1>9. CASE ClaimTask(c)
    <2>1. CallsTyped'
      BY <1>9, GotoType, ReturnType DEF ClaimTask, Acquired, Steps, OnRun
    <2>2. tasks' \in [Index -> Row]
      BY <1>9, <1>r, SetTaskType, RowTypes DEF ClaimTask, TypeInv, TypeOK, OnRun, Steps
    <2>3. QED
      BY <1>9, <2>1, <2>2 DEF ClaimTask, TypeInv, TypeOK, CallsTyped
  <1>10. CASE FindTick(c)
    <2>1. CallsTyped'
      BY <1>10, GotoType DEF FindTick, Steps, OnRun
    <2>2. QED
      BY <1>10, <2>1 DEF FindTick, TypeInv, TypeOK, CallsTyped
  <1>11. QED
    BY <1>1, <1>2, <1>3, <1>4, <1>5, <1>6, <1>7, <1>8, <1>9, <1>10

\* The tick and what follows it.
LEMMA WorkType ==
    ASSUME TypeInv, NEW c \in Calls,
           \/ \E from \in {"read", "inputs"}, to \in {"commit", "seal"} : ReadWorld(c, from, to)
           \/ CommitTick(c) \/ Seal(c) \/ Finalize(c)
           \/ \E from \in {"ticked", "sealed"}, state \in {"world_ticked", "snapshot_sealed"},
                 to \in {"inputs", "finalize"} : MarkRun(c, from, state, to)
           \/ \E class \in {"retryable", "terminal"},
                 state \in {"retryable_failed", "terminal_failed"} : MarkFailure(c, class, state)
    PROVE  TypeInv'
  <1> USE DEF At, database
  <1>t. /\ call[c] \in Call /\ clock \in 0..MaxIndex
        /\ call[c].pc \in OnRun => Target(c) \in Index
        /\ call[c].pc # "idle" => call[c].key \in Keys
    BY DEF TypeInv, TypeOK, CallsTyped, Target
  <1>1. ASSUME NEW from \in {"read", "inputs"}, NEW to \in {"commit", "seal"},
               ReadWorld(c, from, to)
        PROVE  TypeInv'
    <2> DEFINE local == [call[c] EXCEPT !.pc = to, !.seen = Inputs]
    <2>1. call[c].pc \in OnRun /\ call[c].target \in Index /\ call[c].key \in Keys
      BY <1>1, <1>t DEF ReadWorld, OnRun, Steps, Target
    <2>2. local \in Call /\ local.target \in Index /\ local.key \in Keys
      BY <2>1, <1>t, InputsType DEF Call, Steps
    <2>3. call' = [call EXCEPT ![c] = local]
      BY <1>1 DEF ReadWorld
    <2> HIDE DEF local
    <2>4. CallsTyped'
      BY <2>2, <2>3, CallKeepsType
    <2>5. QED
      BY <1>1, <2>4 DEF ReadWorld, TypeInv, TypeOK, CallsTyped
  <1>2. CASE CommitTick(c)
    <2>1. call[c].pc \in OnRun /\ call[c].pc # "idle"
      BY <1>2 DEF CommitTick, OnRun, Steps
    <2>2. CallsTyped'
      BY <1>2, <2>1, TickedType DEF CommitTick, TickAgain, TickRefused, TickLands, Steps
    <2>3. CASE UNCHANGED <<clock, ticks>>
      BY <1>2, <2>2, <2>3 DEF CommitTick, TypeInv, TypeOK, CallsTyped
    <2>4. CASE TickLands(c)
      <3>1. [index |-> Target(c), key |-> call[c].key] \in [index : Index, key : Keys]
        BY <2>1, <1>t
      <3>2. IsFiniteSet(ticks')
        BY <2>4, FS_AddElement DEF TickLands, TypeInv
      <3>3. clock' \in 0..MaxIndex
        BY <2>4, <2>1, <1>t, Stage0Assumption DEF TickLands, Index
      <3>4. ticks' \subseteq [index : Index, key : Keys]
        BY <3>1, <2>4 DEF TickLands, TypeInv, TypeOK
      <3>5. QED
        BY <1>2, <2>2, <3>2, <3>3, <3>4 DEF CommitTick, TypeInv, TypeOK, CallsTyped
    <2>5. QED
      BY <1>2, <2>3, <2>4 DEF CommitTick, TickAgain, TickRefused
  <1>3. CASE Seal(c)
    <2>1. call[c].pc \in OnRun /\ call[c].seen \in Content
      BY <1>3, <1>t DEF Seal, OnRun, Steps, Call
    <2>2. CallsTyped'
      BY <1>3, <2>1, TickedType DEF Seal, Steps
    <2>3. snapshots' \in [Index -> Content \cup {NoSnapshot}]
      BY <1>3, <2>1 DEF Seal, AddSnapshot, TypeInv, TypeOK
    <2>4. QED
      BY <1>3, <2>2, <2>3 DEF Seal, TypeInv, TypeOK, CallsTyped
  <1>4. CASE Finalize(c)
    <2>1. call[c].pc = "finalize" /\ Target(c) \in Index /\ Task(c) \in Row
      BY <1>4, <1>t DEF Finalize, OnRun, Steps, Task, TypeInv, TypeOK
    <2>2. CallsTyped'
      BY <1>4, <2>1, GotoType, ReturnType DEF Finalize, Steps, OnRun
    <2>3. runs' \in [Index -> RunState]
      BY <1>4, <2>1, SetStateType DEF Finalize, RunState, Closed, TypeInv, TypeOK
    <2>4. tasks' \in [Index -> Row]
      BY <1>4, <2>1, SetTaskType, RowTypes DEF Finalize, TypeInv, TypeOK
    <2>5. QED
      BY <1>4, <2>2, <2>3, <2>4 DEF Finalize, TypeInv, TypeOK, CallsTyped
  <1>5. ASSUME NEW from \in {"ticked", "sealed"},
               NEW state \in {"world_ticked", "snapshot_sealed"},
               NEW to \in {"inputs", "finalize"}, MarkRun(c, from, state, to)
        PROVE  TypeInv'
    <2>1. call[c].pc \in OnRun /\ call[c].pc # "idle" /\ to \in Steps /\ state \in RunState
      BY <1>5 DEF MarkRun, OnRun, Steps, RunState
    <2>2. CallsTyped'
      BY <1>5, <2>1, GotoType DEF MarkRun
    <2>3. runs' \in [Index -> RunState]
      BY <1>5, <1>t, <2>1, SetStateType DEF MarkRun
    <2>4. QED
      BY <1>5, <2>2, <2>3 DEF MarkRun, TypeInv, TypeOK, CallsTyped
  <1>6. ASSUME NEW class \in {"retryable", "terminal"},
               NEW state \in {"retryable_failed", "terminal_failed"}, MarkFailure(c, class, state)
        PROVE  TypeInv'
    <2>1. call[c].pc \in OnRun /\ state \in RunState
      BY <1>6 DEF MarkFailure, OnRun, Steps, RunState, Closed
    <2>2. CallsTyped'
      BY <1>6, ReturnType DEF MarkFailure
    <2>3. runs' \in [Index -> RunState]
      BY <1>6, <1>t, <2>1, SetStateType DEF MarkFailure
    <2>4. QED
      BY <1>6, <2>2, <2>3 DEF MarkFailure, TypeInv, TypeOK, CallsTyped
  <1>7. QED
    BY <1>1, <1>2, <1>3, <1>4, <1>5, <1>6

\* What surrounds the calls.
LEMMA OutsideType ==
    ASSUME TypeInv,
           \/ \E c \in Calls : Raise(c) \/ Crash(c) \/ \E k \in Keys : Start(c, k)
           \/ Pause \/ Resume \/ SetDecided
           \/ Expire \/ ReconcileElsewhere \/ OtherCommand
    PROVE  TypeInv'
  <1> USE DEF callers, database
  <1>1. ASSUME NEW c \in Calls, Raise(c) PROVE TypeInv'
    <2>1. call[c].pc \in OnRun /\ faults' \in 0..MaxFaults
      BY <1>1, Stage0Assumption DEF Raise, Working, OnRun, Steps, Fault, TypeInv, TypeOK
    <2>2. CallsTyped'
      BY <1>1, <2>1, TickedType DEF Raise, Steps
    <2>3. QED
      BY <1>1, <2>1, <2>2 DEF Raise, TypeInv, TypeOK, CallsTyped
  <1>2. ASSUME NEW c \in Calls, Crash(c) PROVE TypeInv'
    <2>1. CallsTyped'
      BY <1>2, ReturnType DEF Crash
    <2>2. faults' \in 0..MaxFaults
      BY <1>2, Stage0Assumption DEF Crash, Fault, TypeInv, TypeOK
    <2>3. QED
      BY <1>2, <2>1, <2>2 DEF Crash, TypeInv, TypeOK, CallsTyped
  <1>3. ASSUME NEW c \in Calls, NEW k \in Keys, Start(c, k) PROVE TypeInv'
    <2> DEFINE local == [Idle EXCEPT !.pc = "replay", !.key = k]
    <2>1. local \in Call /\ local.pc = "replay" /\ local.key = k
      BY IdleType DEF Call, Steps, Idle
    <2>2. call' = [call EXCEPT ![c] = local]
      BY <1>3 DEF Start
    <2> HIDE DEF local
    <2>3. CallsTyped'
      BY <2>1, <2>2, CallKeepsType DEF OnRun
    <2>4. tasks' \in [Index -> Row]
      BY <1>3, ReconciledType DEF Start
    <2>5. overlapped' \in BOOLEAN
      BY <1>3 DEF Start, Overlaps
    <2>6. QED
      BY <1>3, <2>3, <2>4, <2>5 DEF Start, TypeInv, TypeOK, CallsTyped
  <1>4. ASSUME Pause \/ Resume PROVE TypeInv'
    <2>1. PICK from \in {"created", "paused"}, to \in {"paused", "retryable_failed"} :
             Decide(from, to)
      BY <1>4 DEF Pause, Resume
    <2>2. operator' \in (Index \X {"paused", "retryable_failed"}) \cup {Nobody}
      BY <2>1 DEF Decide
    <2>3. overlapped' \in BOOLEAN
      BY <2>1 DEF Decide, Overlaps
    <2>4. QED
      BY <2>1, <2>2, <2>3 DEF Decide, TypeInv, TypeOK, CallsTyped
  <1>5. ASSUME SetDecided PROVE TypeInv'
    <2>1. operator[1] \in Index /\ operator[2] \in RunState
      BY <1>5 DEF SetDecided, TypeInv, TypeOK, RunState
    <2>2. runs' \in [Index -> RunState]
      BY <1>5, <2>1, SetStateType DEF SetDecided
    <2>3. QED
      BY <1>5, <2>2 DEF SetDecided, TypeInv, TypeOK, CallsTyped
  <1>6. ASSUME Expire PROVE TypeInv'
    <2>1. PICK i \in Index : tasks' = [tasks EXCEPT ![i].lease = "expired"]
      BY <1>6 DEF Expire
    <2>2. tasks[i] \in Row
      BY DEF TypeInv, TypeOK
    <2>3. [tasks[i] EXCEPT !.lease = "expired"] \in Row
      BY <2>2, RowTypes
    <2>4. tasks' \in [Index -> Row]
      BY <2>1, <2>3 DEF TypeInv, TypeOK
    <2>5. QED
      BY <1>6, <2>4 DEF Expire, TypeInv, TypeOK, CallsTyped
  <1>7. ASSUME ReconcileElsewhere PROVE TypeInv'
    BY <1>7, ReconciledType DEF ReconcileElsewhere, TypeInv, TypeOK, CallsTyped
  <1>8. ASSUME OtherCommand PROVE TypeInv'
    <2>1. edits' \in 0..MaxEdits
      BY <1>8, Stage0Assumption DEF OtherCommand, TypeInv, TypeOK
    <2>2. QED
      BY <1>8, <2>1 DEF OtherCommand, TypeInv, TypeOK, CallsTyped
  <1>9. QED
    BY <1>1, <1>2, <1>3, <1>4, <1>5, <1>6, <1>7, <1>8

LEMMA StepType ==
    ASSUME TypeInv, [Next]_vars
    PROVE  TypeInv'
  <1>1. CASE UNCHANGED vars
    BY <1>1 DEF vars, database, callers, TypeInv, TypeOK, CallsTyped
  <1>2. ASSUME NEW c \in Calls, CallStep(c) PROVE TypeInv'
    <2>1. CASE \/ Replay(c) \/ ReadClock(c) \/ FindOpenRun(c) \/ CreateRun(c) \/ CheckRun(c)
               \/ CheckStale(c) \/ CreateTask(c) \/ Heartbeat(c) \/ ClaimTask(c) \/ FindTick(c)
      BY <2>1, AcquireType
    <2>2. CASE ReadWorld(c, "read", "commit") \/ ReadWorld(c, "inputs", "seal")
      BY <2>2, WorkType
    <2>3. CASE CommitTick(c) \/ Seal(c) \/ Finalize(c)
      BY <2>3, WorkType
    <2>4. CASE MarkRun(c, "ticked", "world_ticked", "inputs")
      BY <2>4, WorkType
    <2>5. CASE MarkRun(c, "sealed", "snapshot_sealed", "finalize")
      BY <2>5, WorkType
    <2>6. CASE MarkFailure(c, "retryable", "retryable_failed")
      BY <2>6, WorkType
    <2>7. CASE MarkFailure(c, "terminal", "terminal_failed")
      BY <2>7, WorkType
    <2>8. QED
      BY <1>2, <2>1, <2>2, <2>3, <2>4, <2>5, <2>6, <2>7 DEF CallStep
  <1>3. QED
    BY <1>1, <1>2, OutsideType DEF Next

\* Every variable keeps its type; a call that works on a run works on one the
\* world has, with its client's key.
THEOREM Stage0TypeCorrect == Spec => []TypeInv
  <1>1. Init => TypeInv
    BY InitType
  <1>2. TypeInv /\ [Next]_vars => TypeInv'
    BY StepType
  <1>3. QED
    BY <1>1, <1>2, PTL DEF Spec

-----------------------------------------------------------------------------
(* Ticks                                                                   *)

\* A target is read from the clock, from an open run behind it, or kept.
LEMMA TargetsMove ==
    ASSUME TypeInv, [Next]_vars, NEW d \in Calls
    PROVE  \/ Target(d)' \in {Target(d), 0, clock + 1}
           \/ Target(d)' < Target(d)
  <1> USE DEF Target
  <1>t. call \in [Calls -> Call]
    BY DEF TypeInv, CallsTyped
  <1>0. Idle.target = 0
    BY DEF Idle
  <1>1. CASE UNCHANGED call
    BY <1>1
  <1>2. ASSUME NEW c \in Calls, Return(c) PROVE Target(d)' \in {Target(d), 0}
    BY <1>2, <1>t, <1>0 DEF Return
  <1>3. ASSUME NEW c \in Calls, NEW step, Goto(c, step) PROVE Target(d)' = Target(d)
    BY <1>3, <1>t DEF Goto, Call
  <1>4. ASSUME NEW c \in Calls, NEW step, Ticked(c, step) PROVE Target(d)' = Target(d)
    BY <1>4, <1>t DEF Ticked, Call
  <1>5. ASSUME NEW c \in Calls, ReadClock(c) PROVE Target(d)' \in {Target(d), clock + 1}
    BY <1>5, <1>t DEF ReadClock, Call
  <1>6. ASSUME NEW c \in Calls, FindOpenRun(c) PROVE Target(d)' \in {Target(d), 0} \/ Target(d)' < Target(d)
    <2>1. ASSUME NEW i \in OpenRuns, i < Target(c),
                 call' = [call EXCEPT ![c] = [@ EXCEPT !.pc = "stale", !.target = i,
                                                       !.healing = TRUE]]
          PROVE  Target(d)' = Target(d) \/ Target(d)' < Target(d)
      BY <2>1, <1>t DEF Call
    <2>2. QED
      BY <1>6, <1>2, <1>3, <2>1 DEF FindOpenRun
  <1>7. ASSUME NEW c \in Calls, NEW from, NEW to, ReadWorld(c, from, to)
        PROVE  Target(d)' = Target(d)
    BY <1>7, <1>t DEF ReadWorld, Call
  <1>8. ASSUME NEW c \in Calls, NEW k \in Keys, Start(c, k) PROVE Target(d)' \in {Target(d), 0}
    <2>1. [Idle EXCEPT !.pc = "replay", !.key = k].target = 0
      BY DEF Idle
    <2>2. QED
      BY <1>8, <2>1, <1>t DEF Start
  <1>9. ASSUME NEW c \in Calls, CallStep(c) PROVE Target(d)' \in {Target(d), 0, clock + 1} \/ Target(d)' < Target(d)
    <2>1. \/ UNCHANGED call \/ Return(c) \/ (\E step : Goto(c, step) \/ Ticked(c, step))
          \/ ReadClock(c) \/ FindOpenRun(c) \/ \E from, to : ReadWorld(c, from, to)
      BY <1>9
      DEF CallStep, Replay, CreateRun, CheckRun, CheckStale, CreateTask, Heartbeat, ClaimTask,
          Acquired, FindTick, CommitTick, TickAgain, TickRefused, TickLands, MarkRun, Seal,
          Finalize, MarkFailure
    <2>2. QED
      BY <2>1, <1>1, <1>2, <1>3, <1>4, <1>5, <1>6, <1>7
  <1>10. ASSUME NEW c \in Calls, Raise(c) \/ Crash(c) PROVE Target(d)' \in {Target(d), 0}
    BY <1>10, <1>2, <1>4 DEF Raise, Crash
  <1>11. ASSUME \/ Pause \/ Resume \/ SetDecided \/ Expire \/ ReconcileElsewhere \/ OtherCommand
                \/ UNCHANGED vars
         PROVE  UNCHANGED call
    BY <1>11 DEF Pause, Resume, Decide, SetDecided, Expire, ReconcileElsewhere, OtherCommand,
                 callers, vars
  <1>12. QED
    BY <1>1, <1>8, <1>9, <1>10, <1>11 DEF Next

\* The clock and the committed ticks move together and nowhere else.
LEMMA TicksMove ==
    ASSUME [Next]_vars
    PROVE  \/ UNCHANGED <<clock, ticks>>
           \/ \E c \in Calls : CommitTick(c) /\ TickLands(c)
  <1> USE DEF database
  <1>1. ASSUME NEW c \in Calls, CallStep(c)
        PROVE  UNCHANGED <<clock, ticks>> \/ (CommitTick(c) /\ TickLands(c))
    BY <1>1
    DEF CallStep, Replay, ReadClock, FindOpenRun, CreateRun, CheckRun, CheckStale, CreateTask,
        Heartbeat, ClaimTask, FindTick, ReadWorld, CommitTick, TickAgain, TickRefused, MarkRun,
        Seal, Finalize, MarkFailure
  <1>2. QED
    BY <1>1 DEF Next, Raise, Crash, Start, Pause, Resume, Decide, SetDecided, Expire,
                ReconcileElsewhere, OtherCommand, vars

LEMMA InitTick == Init /\ TypeInv => TickInv
  <1> SUFFICES ASSUME Init, TypeInv PROVE TickInv
    OBVIOUS
  <1>1. Cardinality(ticks) = clock
    BY FS_EmptySet DEF Init
  <1>2. \A c \in Calls : Target(c) <= clock + 1
    BY DEF Init, Idle, Target
  <1>3. QED
    BY <1>1, <1>2 DEF Init, TickInv

\* A tick lands on the phase after the clock: its target is at most that, and
\* every phase up to the clock has ticked.
LEMMA TickLandsNext ==
    ASSUME TypeInv, TickInv, NEW c \in Calls, CommitTick(c), TickLands(c)
    PROVE  Target(c) = clock + 1 /\ Target(c) \in Index
  <1>1. Target(c) \in Index
    BY DEF CommitTick, At, TypeInv, CallsTyped, Target, OnRun, Steps
  <1>2. Target(c) \notin 1..clock
    BY DEF TickLands, TickInv
  <1>3. QED
    BY <1>1, <1>2 DEF TickInv, TypeInv, TypeOK, Index

LEMMA StepTick ==
    ASSUME TypeInv, TickInv, [Next]_vars
    PROVE  TickInv'
  <1>t. /\ \A d \in Calls : Target(d) \in 0..MaxIndex + 1 /\ Target(d) <= clock + 1
        /\ clock \in Nat
    BY Stage0Assumption DEF TypeInv, TypeOK, CallsTyped, Call, Target, TickInv
  <1>u. \A d \in Calls : Target(d)' \in Int /\ Target(d)' <= clock + 1
    <2> SUFFICES ASSUME NEW d \in Calls PROVE Target(d)' \in Int /\ Target(d)' <= clock + 1
      OBVIOUS
    <2>1. Target(d)' \in Int
      BY StepType, Stage0Assumption DEF TypeInv, CallsTyped, Call, Target
    <2>2. \/ Target(d)' \in {Target(d), 0, clock + 1} \/ Target(d)' < Target(d)
      BY TargetsMove
    <2> HIDE DEF Target
    <2>3. QED
      BY <1>t, <2>1, <2>2
  <1>1. CASE UNCHANGED <<clock, ticks>>
    <2>1. QED
      BY <1>1, <1>u DEF TickInv, Target
  <1>2. ASSUME NEW c \in Calls, CommitTick(c), TickLands(c) PROVE TickInv'
    <2> DEFINE new == [index |-> Target(c), key |-> call[c].key]
    <2>1. /\ clock' = clock + 1 /\ ticks' = ticks \cup {new} /\ new.index = clock + 1
          /\ new \notin ticks
      BY <1>2, TickLandsNext DEF TickLands
    <2> HIDE DEF new
    <2>2. \A d \in Calls : Target(d)' <= clock' + 1
      BY <1>t, <1>u, <2>1
    <2>3. Cardinality(ticks') = clock'
      BY <2>1, FS_AddElement DEF TickInv, TypeInv
    <2>4. \A t \in ticks' : t.index <= clock'
      BY <2>1, <1>t DEF TickInv, TypeInv, TypeOK, Index
    <2>5. \A i \in 1..clock' : \E t \in ticks' : t.index = i
      <3> SUFFICES ASSUME NEW i \in 1..clock' PROVE \E t \in ticks' : t.index = i
        OBVIOUS
      <3>1. CASE i = clock + 1
        BY <3>1, <2>1
      <3>2. CASE i \in 1..clock
        BY <3>2, <2>1 DEF TickInv
      <3>3. QED
        BY <3>1, <3>2, <2>1, <1>t
    <2>6. \A t, u \in ticks' : t.index = u.index => t = u
      <3>1. \A t \in ticks : t.index # new.index
        BY <2>1, <1>t DEF TickInv, TypeInv, TypeOK, Index
      <3>2. QED
        BY <2>1, <3>1 DEF TickInv
    <2>7. QED
      BY <2>2, <2>3, <2>4, <2>5, <2>6 DEF TickInv, Target
  <1>3. QED
    BY <1>1, <1>2, TicksMove

\* What TickInv says of one phase at a time.
LEMMA TicksAreCounted == TypeInv /\ TickInv => TickedOncePerPhase
  <1> SUFFICES ASSUME TypeInv, TickInv, NEW i \in Index
               PROVE  Cardinality({t \in ticks : t.index = i}) = IF i <= clock THEN 1 ELSE 0
    BY DEF TickedOncePerPhase
  <1>1. CASE i <= clock
    <2>1. PICK t \in ticks : t.index = i
      BY <1>1 DEF TickInv, TypeInv, TypeOK, Index
    <2>2. {u \in ticks : u.index = i} = {t}
      BY <2>1 DEF TickInv
    <2>3. Cardinality({t}) = 1
      BY FS_Singleton
    <2>4. QED
      BY <1>1, <2>2, <2>3
  <1>2. CASE ~(i <= clock)
    <2>1. {t \in ticks : t.index = i} = {}
      BY <1>2 DEF TickInv
    <2>2. QED
      BY <1>2, <2>1, FS_EmptySet
  <1>3. QED
    BY <1>1, <1>2

-----------------------------------------------------------------------------
(* Operations one after the other                                          *)

\* What a step leaves of the locals of its call.
LEMMA Locals ==
    ASSUME TypeInv, NEW c \in Calls, NEW step
    PROVE  /\ Goto(c, step) =>
                 call'[c].pc = step /\ call'[c].key = call[c].key /\ call'[c].seen = call[c].seen
                 /\ call'[c].target = call[c].target /\ call'[c].healing = call[c].healing
           /\ Ticked(c, step) =>
                 call'[c].pc = step /\ call'[c].key = call[c].key
                 /\ call'[c].target = call[c].target /\ call'[c].healing = call[c].healing
           /\ Return(c) => call'[c].pc = "idle"
  <1>1. call \in [Calls -> Call]
    BY DEF TypeInv, CallsTyped
  <1>2. call[c] \in Call
    BY <1>1
  <1>3. ASSUME Goto(c, step)
        PROVE  /\ call'[c].pc = step /\ call'[c].key = call[c].key /\ call'[c].seen = call[c].seen
               /\ call'[c].target = call[c].target /\ call'[c].healing = call[c].healing
    <2>1. call'[c] = [call[c] EXCEPT !.pc = step]
      BY <1>1, <1>3 DEF Goto
    <2>2. QED
      BY <1>2, <2>1 DEF Call
  <1>4. ASSUME Ticked(c, step)
        PROVE  /\ call'[c].pc = step /\ call'[c].key = call[c].key
               /\ call'[c].target = call[c].target /\ call'[c].healing = call[c].healing
    <2>1. call'[c] = [call[c] EXCEPT !.pc = step, !.seen = Nothing]
      BY <1>1, <1>4 DEF Ticked
    <2>2. QED
      BY <1>2, <2>1 DEF Call
  <1>5. Return(c) => call'[c].pc = "idle"
    BY <1>1 DEF Return, Idle
  <1>6. QED
    BY <1>3, <1>4, <1>5

LEMMA IdleKnowsNothing == \A c \in Calls : call[c].pc = "idle" => CallInv(c)
  BY DEF CallInv, OnRun, Steps, BeforeTick, AfterTick, Acquiring

\* A step of the one call in flight has to show its own knowledge only.
LEMMA AloneStays ==
    ASSUME TypeInv, SerialInv, ~overlapped, NEW c \in Calls, call[c].pc # "idle",
           NEW local, call' = [call EXCEPT ![c] = local], UNCHANGED operator,
           RowsInv', CallInv(c)'
    PROVE  SerialInv'
  <1>1. call \in [Calls -> Call]
    BY DEF TypeInv, CallsTyped
  <1>2. operator = Nobody /\ \A d \in Calls : d # c => call[d].pc = "idle"
    BY DEF SerialInv, Alone, InFlight
  <1>3. \A d \in Calls : d # c => call'[d].pc = "idle"
    BY <1>1, <1>2
  <1>4. Alone'
    BY <1>2, <1>3 DEF Alone, InFlight
  <1>5. \A d \in Calls : d # c => CallInv(d)'
    BY <1>3 DEF CallInv, OnRun, Steps, BeforeTick, AfterTick, Acquiring
  <1>6. QED
    BY <1>4, <1>5 DEF SerialInv

\* Rows of tasks may move as long as no succeeded one does.
LEMMA RowsStay ==
    ASSUME RowsInv, UNCHANGED <<clock, runs, snapshots>>,
           \A i \in Index : runs[i] = "completed" => tasks'[i].state = "succeeded"
    PROVE  RowsInv'
  BY DEF RowsInv

\* A row whose run is open is free to move.
LEMMA SetTaskStays ==
    ASSUME TypeInv, RowsInv, NEW c \in Calls, Target(c) \in Index, runs[Target(c)] \notin Closed,
           NEW row, SetTask(c, row), UNCHANGED <<clock, runs, snapshots>>
    PROVE  RowsInv'
  <1>1. \A i \in Index : runs[i] = "completed" => tasks'[i].state = "succeeded"
    BY DEF TypeInv, TypeOK, SetTask, RowsInv, Closed
  <1>2. QED
    BY <1>1, RowsStay

\* An open run is free to move among the open states.
LEMMA SetStateStays ==
    ASSUME TypeInv, RowsInv, NEW i \in Index, NEW state, state \notin Closed \cup {"absent"},
           SetState(i, state), UNCHANGED <<clock, tasks, snapshots>>
    PROVE  RowsInv'
  BY DEF TypeInv, TypeOK, SetState, RowsInv, Closed

LEMMA SerialAcquire ==
    ASSUME TypeInv, TickInv, SerialInv, ~overlapped, NEW c \in Calls,
           \/ Replay(c) \/ ReadClock(c) \/ FindOpenRun(c) \/ CreateRun(c) \/ CheckRun(c)
           \/ CheckStale(c) \/ CreateTask(c) \/ Heartbeat(c) \/ ClaimTask(c) \/ FindTick(c)
    PROVE  RowsInv' /\ CallInv(c)'
  <1> USE DEF At, database
  <1>r. RowsInv /\ CallInv(c)
    BY DEF SerialInv
  <1>t. /\ call \in [Calls -> Call] /\ clock \in Nat
        /\ call[c].pc \in OnRun => Target(c) \in Index
    BY Stage0Assumption DEF TypeInv, TypeOK, CallsTyped, Target
  <1>i. ASSUME call'[c].pc = "idle" PROVE CallInv(c)'
    BY <1>i DEF CallInv, OnRun, Steps, BeforeTick, AfterTick, Acquiring
  <1>u. UNCHANGED database => RowsInv'
    BY <1>r, RowsStay DEF RowsInv
  <1>1. CASE Replay(c)
    <2>1. CASE Return(c)
      BY <1>1, <2>1, <1>i, <1>u, Locals DEF Replay
    <2>2. CASE Goto(c, "clock") /\ ~HasTicked(call[c].key)
      <3>1. CallInv(c)'
        BY <1>1, <2>2, Locals
        DEF Replay, CallInv, OnRun, Steps, BeforeTick, AfterTick, Acquiring, HasTicked
      <3>2. QED
        BY <1>1, <3>1, <1>u DEF Replay
    <2>3. QED
      BY <1>1, <2>1, <2>2 DEF Replay
  <1>2. CASE ReadClock(c)
    <2>1. call'[c].pc = "open" /\ call'[c].target = clock + 1 /\ call'[c].healing = FALSE
          /\ call'[c].key = call[c].key
      BY <1>2, <1>t DEF ReadClock, Call
    <2>2. CallInv(c)'
      BY <1>2, <1>r, <2>1
      DEF ReadClock, CallInv, OnRun, Steps, BeforeTick, AfterTick, Acquiring, HasTicked, Target
    <2>3. QED
      BY <1>2, <2>2, <1>u DEF ReadClock
  <1>3. CASE FindOpenRun(c)
    <2>0. Target(c) = clock + 1 /\ ~call[c].healing /\ ~HasTicked(call[c].key)
      BY <1>3, <1>r DEF FindOpenRun, CallInv
    <2>1. ASSUME \A i \in OpenRuns : i = Target(c), Goto(c, "create") PROVE CallInv(c)'
      <3>1. \A i \in Index : i <= clock => snapshots[i] # NoSnapshot
        <4> SUFFICES ASSUME NEW i \in Index, i <= clock PROVE snapshots[i] # NoSnapshot
          OBVIOUS
        <4>1. i \notin OpenRuns
          BY <2>0, <2>1, <1>t DEF Index
        <4>2. runs[i] \in Closed
          BY <4>1, <1>r DEF OpenRuns, RowsInv
        <4>3. QED
          BY <4>2, <1>r DEF RowsInv, Closed
      <3>2. /\ call'[c].pc = "create" /\ call'[c].target = call[c].target
            /\ call'[c].healing = call[c].healing /\ call'[c].key = call[c].key
        BY <2>1, Locals
      <3>3. UNCHANGED <<clock, ticks, runs, snapshots>>
        BY <1>3 DEF FindOpenRun
      <3>4. QED
        BY <2>0, <3>1, <3>2, <3>3
        DEF CallInv, OnRun, Steps, BeforeTick, AfterTick, Acquiring, HasTicked, Target
    <2>2. ASSUME Return(c) PROVE CallInv(c)'
      BY <2>2, <1>i, Locals
    <2>3. ASSUME NEW i \in OpenRuns,
                 call' = [call EXCEPT ![c] = [@ EXCEPT !.pc = "stale", !.target = i,
                                                       !.healing = TRUE]]
          PROVE  CallInv(c)'
      <3>1. call'[c].pc = "stale" /\ call'[c].target = i /\ call'[c].healing = TRUE
            /\ call'[c].key = call[c].key
        BY <2>3, <1>t DEF Call
      <3>2. QED
        BY <1>3, <2>0, <3>1
        DEF FindOpenRun, CallInv, OnRun, Steps, BeforeTick, AfterTick, Acquiring, HasTicked,
            Target, OpenRuns
    <2>4. CallInv(c)'
      BY <1>3, <2>1, <2>2, <2>3 DEF FindOpenRun
    <2>5. QED
      BY <1>3, <2>4, <1>u DEF FindOpenRun
  <1>4. CASE CreateRun(c)
    <2>1. call[c].pc = "create" /\ Goto(c, "check") /\ Target(c) \in Index
      BY <1>4, <1>t DEF CreateRun, OnRun, Steps
    <2>2. RowsInv' /\ runs'[Target(c)] # "absent"
      <3>1. CASE runs[Target(c)] = "absent"
        BY <1>4, <1>r, <2>1, <3>1, SetStateStays DEF CreateRun, Closed, SetState, TypeInv, TypeOK
      <3>2. CASE runs[Target(c)] # "absent"
        BY <1>4, <1>r, <2>1, <3>2 DEF CreateRun, RowsInv
      <3>3. QED
        BY <3>1, <3>2
    <2>3. CallInv(c)'
      BY <1>4, <1>r, <2>1, <2>2, Locals
      DEF CreateRun, CallInv, OnRun, Steps, BeforeTick, AfterTick, Acquiring, HasTicked, Target
    <2>4. QED
      BY <2>2, <2>3
  <1>5. CASE CheckRun(c)
    <2>1. CASE Return(c)
      BY <1>5, <2>1, <1>i, <1>u, Locals DEF CheckRun
    <2>2. CASE Goto(c, "task") /\ runs[Target(c)] \notin Closed
      <3>1. CallInv(c)'
        BY <1>5, <1>r, <2>2, Locals
        DEF CheckRun, CallInv, OnRun, Steps, BeforeTick, AfterTick, Acquiring, HasTicked, Target
      <3>2. QED
        BY <1>5, <3>1, <1>u DEF CheckRun
    <2>3. QED
      BY <1>5, <2>1, <2>2 DEF CheckRun, Blocked, Closed
  <1>6. CASE CheckStale(c)
    <2>1. CASE Return(c)
      BY <1>6, <2>1, <1>i, <1>u, Locals DEF CheckStale
    <2>2. CASE Goto(c, "task") /\ clock = Target(c)
      <3>1. CallInv(c)'
        BY <1>6, <1>r, <2>2, Locals
        DEF CheckStale, CallInv, OnRun, Steps, BeforeTick, AfterTick, Acquiring, HasTicked, Target
      <3>2. QED
        BY <1>6, <3>1, <1>u DEF CheckStale
    <2>3. QED
      BY <1>6, <2>1, <2>2 DEF CheckStale
  <1>a. ASSUME call[c].pc \in {"task", "heartbeat", "claim"}
        PROVE  Target(c) \in Index /\ runs[Target(c)] \notin Closed
    BY <1>a, <1>r, <1>t DEF CallInv, OnRun, Steps
  <1>n. ASSUME call[c].pc \in {"task", "heartbeat", "claim"},
               UNCHANGED <<clock, ticks, runs, snapshots>>,
               \/ Goto(c, "heartbeat") \/ Goto(c, "claim") \/ Return(c)
               \/ call[c].healing /\ Goto(c, "find")
               \/ ~call[c].healing /\ Goto(c, "read")
        PROVE  CallInv(c)'
    <2>1. CASE Return(c)
      BY <2>1, <1>i, Locals
    <2>2. CASE call[c].healing /\ Goto(c, "find")
      BY <1>n, <1>r, <2>2, Locals
      DEF CallInv, OnRun, Steps, BeforeTick, AfterTick, Acquiring, HasTicked, Target
    <2>3. CASE ~call[c].healing /\ Goto(c, "read")
      BY <1>n, <1>r, <2>3, Locals
      DEF CallInv, OnRun, Steps, BeforeTick, AfterTick, Acquiring, HasTicked, Target
    <2>4. CASE Goto(c, "heartbeat") \/ Goto(c, "claim")
      BY <1>n, <1>r, <2>4, Locals
      DEF CallInv, OnRun, Steps, BeforeTick, AfterTick, Acquiring, HasTicked, Target
    <2>5. QED
      BY <1>n, <2>1, <2>2, <2>3, <2>4
  <1>7. CASE CreateTask(c)
    <2>1. RowsInv'
      BY <1>7, <1>a, <1>r, SetTaskStays, RowsStay DEF CreateTask, RowsInv
    <2>2. QED
      BY <1>7, <1>n, <2>1 DEF CreateTask
  <1>8. CASE Heartbeat(c)
    <2>1. RowsInv'
      BY <1>8, <1>a, <1>r, SetTaskStays, RowsStay DEF Heartbeat, RowsInv
    <2>2. QED
      BY <1>8, <1>n, <2>1 DEF Heartbeat, Acquired
  <1>9. CASE ClaimTask(c)
    <2>1. RowsInv'
      BY <1>9, <1>a, <1>r, SetTaskStays, RowsStay DEF ClaimTask, RowsInv
    <2>2. QED
      BY <1>9, <1>n, <2>1 DEF ClaimTask, Acquired
  <1>10. CASE FindTick(c)
    <2>1. CallInv(c)'
      BY <1>10, <1>r, Locals
      DEF FindTick, CallInv, OnRun, Steps, BeforeTick, AfterTick, Acquiring, HasTicked, Target
    <2>2. QED
      BY <1>10, <2>1, <1>u DEF FindTick
  <1>11. QED
    BY <1>1, <1>2, <1>3, <1>4, <1>5, <1>6, <1>7, <1>8, <1>9, <1>10

LEMMA SerialWork ==
    ASSUME TypeInv, TickInv, SerialInv, ~overlapped, NEW c \in Calls,
           \/ ReadWorld(c, "read", "commit") \/ CommitTick(c)
           \/ MarkRun(c, "ticked", "world_ticked", "inputs")
           \/ ReadWorld(c, "inputs", "seal") \/ Seal(c)
           \/ MarkRun(c, "sealed", "snapshot_sealed", "finalize") \/ Finalize(c)
           \/ MarkFailure(c, "retryable", "retryable_failed")
           \/ MarkFailure(c, "terminal", "terminal_failed")
    PROVE  RowsInv' /\ CallInv(c)'
  <1> USE DEF At, database
  <1>r. RowsInv /\ CallInv(c)
    BY DEF SerialInv
  <1>t. /\ call \in [Calls -> Call] /\ clock \in Nat
        /\ call[c].pc \in OnRun => Target(c) \in Index
    BY Stage0Assumption DEF TypeInv, TypeOK, CallsTyped, Target
  <1>i. ASSUME call'[c].pc = "idle" PROVE CallInv(c)'
    BY <1>i DEF CallInv, OnRun, Steps, BeforeTick, AfterTick, Acquiring
  <1>u. UNCHANGED database => RowsInv'
    BY <1>r, RowsStay DEF RowsInv
  \* What every call at work knows of its run.
  <1>o. ASSUME call[c].pc \in OnRun \ {"create", "check"}
        PROVE  /\ Target(c) \in Index /\ runs[Target(c)] \notin Closed \cup {"absent"}
               /\ call[c].healing => ~HasTicked(call[c].key)
    BY <1>o, <1>r, <1>t DEF CallInv
  <1>1. CASE ReadWorld(c, "read", "commit")
    <2>1. /\ call'[c].pc = "commit" /\ call'[c].target = call[c].target
          /\ call'[c].healing = call[c].healing /\ call'[c].key = call[c].key
      BY <1>1, <1>t DEF ReadWorld, Call
    <2>2. call[c].pc = "read" /\ UNCHANGED database
      BY <1>1 DEF ReadWorld
    <2>3. CallInv(c)'
      BY <1>r, <2>1, <2>2
      DEF CallInv, OnRun, Steps, BeforeTick, AfterTick, Acquiring, HasTicked, Target
    <2>4. QED
      BY <2>2, <2>3, <1>u
  <1>2. CASE CommitTick(c)
    <2>1. call[c].pc = "commit" /\ UNCHANGED <<runs, tasks, snapshots, edits>>
      BY <1>2 DEF CommitTick
    <2>2. /\ Target(c) = clock + 1 /\ ~call[c].healing /\ ~HasTicked(call[c].key)
          /\ Target(c) \in Index /\ runs[Target(c)] \notin Closed \cup {"absent"}
          /\ \A i \in Index : i <= clock => snapshots[i] # NoSnapshot
      BY <1>r, <1>o, <2>1 DEF CallInv, BeforeTick, OnRun, Steps
    <2>3. CASE TickRefused(c)
      <3>1. UNCHANGED <<clock, ticks>> /\ Ticked(c, "retryable")
        BY <2>3 DEF TickRefused
      <3>2. CallInv(c)'
        BY <2>1, <2>2, <3>1, Locals
        DEF CallInv, OnRun, Steps, BeforeTick, AfterTick, Acquiring, HasTicked, Target
      <3>3. QED
        BY <2>1, <3>1, <3>2, <1>u
    <2>4. CASE TickLands(c)
      <3>1. clock' = clock + 1 /\ Ticked(c, "ticked")
        BY <2>2, <2>4 DEF TickLands
      <3>2. /\ call'[c].pc = "ticked" /\ call'[c].target = call[c].target
            /\ call'[c].healing = call[c].healing
        BY <3>1, Locals
      <3>3. CallInv(c)'
        BY <2>1, <2>2, <3>1, <3>2
        DEF CallInv, OnRun, Steps, BeforeTick, AfterTick, Acquiring, HasTicked, Target
      <3>4. \A i \in Index : i <= clock + 1 => i <= clock \/ i = Target(c)
        BY <2>2, <1>t DEF Index
      <3>5. \A i \in Index : i <= clock => i <= clock + 1
        BY <1>t DEF Index
      <3>6. \A i \in Index : i < clock + 1 => i <= clock
        BY <1>t DEF Index
      <3>7. RowsInv'
        BY <1>r, <2>1, <2>2, <3>1, <3>4, <3>5, <3>6 DEF RowsInv
      <3>8. QED
        BY <3>3, <3>7
    <2>5. QED
      BY <1>2, <2>2, <2>3, <2>4 DEF CommitTick, TickAgain
  <1>3. CASE MarkRun(c, "ticked", "world_ticked", "inputs")
    <2>1. /\ call[c].pc = "ticked" /\ Goto(c, "inputs") /\ SetState(Target(c), "world_ticked")
          /\ UNCHANGED <<clock, ticks, tasks, snapshots>>
      BY <1>3 DEF MarkRun
    <2>2. Target(c) \in Index /\ (call[c].healing => ~HasTicked(call[c].key)) /\ Target(c) = clock
      BY <1>o, <1>r, <2>1 DEF OnRun, Steps, CallInv, AfterTick
    <2>3. runs'[Target(c)] = "world_ticked"
      BY <2>1, <2>2 DEF SetState, TypeInv, TypeOK
    <2>4. RowsInv'
      BY <1>r, <2>1, <2>2, SetStateStays DEF Closed
    <2>5. CallInv(c)'
      BY <2>1, <2>2, <2>3, Locals
      DEF CallInv, OnRun, Steps, BeforeTick, AfterTick, Acquiring, HasTicked, Target, Closed
    <2>6. QED
      BY <2>4, <2>5
  <1>4. CASE ReadWorld(c, "inputs", "seal")
    <2>1. /\ call'[c].pc = "seal" /\ call'[c].target = call[c].target /\ call'[c].seen = Inputs
          /\ call'[c].healing = call[c].healing /\ call'[c].key = call[c].key
      BY <1>4, <1>t DEF ReadWorld, Call
    <2>2. call[c].pc = "inputs" /\ UNCHANGED database
      BY <1>4 DEF ReadWorld
    <2>3. Inputs.world = clock
      BY DEF Inputs, TickInv
    <2>4. CallInv(c)'
      BY <1>r, <2>1, <2>2, <2>3
      DEF CallInv, OnRun, Steps, BeforeTick, AfterTick, Acquiring, HasTicked, Target
    <2>5. QED
      BY <2>2, <2>4, <1>u
  <1>5. CASE Seal(c)
    <2> DEFINE seen == call[c].seen
    <2>1. /\ call[c].pc = "seal" /\ AddSnapshot(Target(c), seen)
          /\ UNCHANGED <<clock, ticks, runs, tasks>>
      BY <1>5 DEF Seal
    <2>2. /\ Target(c) \in Index /\ runs[Target(c)] \notin Closed \cup {"absent"}
          /\ call[c].healing => ~HasTicked(call[c].key)
          /\ Target(c) = clock /\ seen.world = clock
      BY <1>o, <1>r, <2>1 DEF OnRun, Steps, CallInv, AfterTick
    <2>3. seen # NoSnapshot
      <3>1. seen \in Content
        BY <1>t DEF Call
      <3>2. QED
        BY <3>1, Stage0Assumption DEF Content
    <2>4. /\ snapshots'[Target(c)] # NoSnapshot
          /\ snapshots'[Target(c)] \in {snapshots[Target(c)], seen}
          /\ \A i \in Index : i # Target(c) => snapshots'[i] = snapshots[i]
          /\ \A i \in Index : snapshots[i] # NoSnapshot => snapshots'[i] = snapshots[i]
      <3>1. snapshots \in [Index -> Content \cup {NoSnapshot}]
        BY DEF TypeInv, TypeOK
      <3> HIDE DEF seen
      <3>2. QED
        BY <2>1, <2>2, <2>3, <3>1 DEF AddSnapshot
    <2>5. RowsInv'
      <3>1. \A i \in Index : snapshots'[i] # NoSnapshot => snapshots'[i].world = i
        BY <1>r, <2>2, <2>4 DEF RowsInv
      <3>2. \A i \in Index : snapshots[i] # NoSnapshot => snapshots'[i] # NoSnapshot
        BY <2>4
      <3> HIDE DEF seen
      <3>3. QED
        BY <1>r, <2>1, <3>1, <3>2 DEF RowsInv
    <2>6. PICK step \in {"sealed", "retryable"} : Ticked(c, step)
      BY <1>5 DEF Seal
    <2>7. CallInv(c)'
      BY <2>1, <2>2, <2>4, <2>6, Locals
      DEF CallInv, OnRun, Steps, BeforeTick, AfterTick, Acquiring, HasTicked, Target
    <2>8. QED
      BY <2>5, <2>7
  <1>6. CASE MarkRun(c, "sealed", "snapshot_sealed", "finalize")
    <2>1. /\ call[c].pc = "sealed" /\ Goto(c, "finalize") /\ SetState(Target(c), "snapshot_sealed")
          /\ UNCHANGED <<clock, ticks, tasks, snapshots>>
      BY <1>6 DEF MarkRun
    <2>2. /\ Target(c) \in Index /\ (call[c].healing => ~HasTicked(call[c].key))
          /\ Target(c) = clock /\ snapshots[Target(c)] # NoSnapshot
      BY <1>o, <1>r, <2>1 DEF OnRun, Steps, CallInv, AfterTick
    <2>3. runs'[Target(c)] = "snapshot_sealed"
      BY <2>1, <2>2 DEF SetState, TypeInv, TypeOK
    <2>4. RowsInv'
      BY <1>r, <2>1, <2>2, SetStateStays DEF Closed
    <2>5. CallInv(c)'
      BY <2>1, <2>2, <2>3, Locals
      DEF CallInv, OnRun, Steps, BeforeTick, AfterTick, Acquiring, HasTicked, Target, Closed
    <2>6. QED
      BY <2>4, <2>5
  <1>7. CASE Finalize(c)
    <2>1. call[c].pc = "finalize" /\ UNCHANGED <<clock, ticks, snapshots>>
      BY <1>7 DEF Finalize
    <2>2. /\ Target(c) \in Index /\ (call[c].healing => ~HasTicked(call[c].key))
          /\ Target(c) = clock /\ snapshots[Target(c)] # NoSnapshot
          /\ runs[Target(c)] \notin Closed \cup {"absent"}
      BY <1>o, <1>r, <2>1 DEF OnRun, Steps, CallInv, AfterTick
    <2>3. CASE HeldBy(Task(c), Orchestrator)
      <3>1. /\ SetState(Target(c), "completed") /\ SetTask(c, Finished(Task(c), Orchestrator))
            /\ \/ call[c].healing /\ Goto(c, "clock")
               \/ Return(c)
        BY <1>7, <2>3 DEF Finalize
      <3>2. Finished(Task(c), Orchestrator).state = "succeeded"
        <4>1. Task(c) \in Row
          BY <2>2 DEF Task, TypeInv, TypeOK
        <4>2. QED
          BY <4>1, <2>3 DEF Finished, Released, Row
      <3>3. /\ runs'[Target(c)] = "completed" /\ tasks'[Target(c)].state = "succeeded"
            /\ \A i \in Index : i # Target(c) => runs'[i] = runs[i] /\ tasks'[i] = tasks[i]
        <4> DEFINE row == Finished(Task(c), Orchestrator)
        <4>1. tasks' = [tasks EXCEPT ![Target(c)] = row]
          BY <3>1 DEF SetTask
        <4>2. row.state = "succeeded"
          BY <3>2
        <4> HIDE DEF row
        <4>3. QED
          BY <3>1, <2>2, <4>1, <4>2 DEF SetState, TypeInv, TypeOK
      <3>4. RowsInv'
        BY <1>r, <2>1, <2>2, <3>3, <1>t DEF RowsInv
      <3>5. CASE Return(c)
        BY <3>4, <3>5, <1>i, Locals
      <3>6. CASE call[c].healing /\ Goto(c, "clock")
        <4>1. CallInv(c)'
          BY <2>1, <2>2, <3>6, Locals
          DEF CallInv, OnRun, Steps, BeforeTick, AfterTick, Acquiring, HasTicked, Target
        <4>2. QED
          BY <3>4, <4>1
      <3>7. QED
        BY <3>1, <3>5, <3>6
    <2>4. CASE ~HeldBy(Task(c), Orchestrator)
      <3>1. Goto(c, "terminal") /\ UNCHANGED <<runs, tasks>>
        BY <1>7, <2>4 DEF Finalize
      <3>2. CallInv(c)'
        BY <2>1, <2>2, <3>1, Locals
        DEF CallInv, OnRun, Steps, BeforeTick, AfterTick, Acquiring, HasTicked, Target
      <3>3. QED
        BY <2>1, <3>1, <3>2, <1>r DEF RowsInv
    <2>5. QED
      BY <2>3, <2>4
  <1>8. CASE MarkFailure(c, "retryable", "retryable_failed")
    <2>1. /\ call[c].pc = "retryable" /\ SetState(Target(c), "retryable_failed") /\ Return(c)
          /\ UNCHANGED <<clock, tasks, snapshots>>
      BY <1>8 DEF MarkFailure
    <2>2. Target(c) \in Index
      BY <1>o, <2>1 DEF OnRun, Steps
    <2>3. RowsInv'
      BY <1>r, <2>1, <2>2, SetStateStays DEF Closed
    <2>4. QED
      BY <2>1, <2>3, <1>i, Locals
  <1>9. CASE MarkFailure(c, "terminal", "terminal_failed")
    <2>1. /\ call[c].pc = "terminal" /\ SetState(Target(c), "terminal_failed") /\ Return(c)
          /\ UNCHANGED <<clock, tasks, snapshots>>
      BY <1>9 DEF MarkFailure
    <2>2. Target(c) \in Index /\ snapshots[Target(c)] # NoSnapshot
      BY <1>o, <1>r, <2>1 DEF OnRun, Steps, CallInv
    <2>3. RowsInv'
      BY <1>r, <2>1, <2>2 DEF SetState, RowsInv, TypeInv, TypeOK
    <2>4. QED
      BY <2>1, <2>3, <1>i, Locals
  <1>10. QED
    BY <1>1, <1>2, <1>3, <1>4, <1>5, <1>6, <1>7, <1>8, <1>9

LEMMA InitSerial == Init => SerialInv
  <1> SUFFICES ASSUME Init PROVE Alone /\ RowsInv /\ \A c \in Calls : CallInv(c)
    BY DEF SerialInv
  <1>1. \A c \in Calls : call[c].pc = "idle"
    BY DEF Init, Idle
  <1>2. Alone
    BY <1>1 DEF Alone, InFlight, Init
  <1>3. RowsInv
    BY DEF Init, RowsInv, Index
  <1>4. QED
    BY <1>1, <1>2, <1>3, IdleKnowsNothing

\* Nothing runs beside an operation that starts without overlapping another.
LEMMA StartsAlone ==
    ASSUME TypeInv, Overlaps, ~overlapped'
    PROVE  ~overlapped /\ operator = Nobody /\ \A c \in Calls : call[c].pc = "idle"
  <1>1. overlapped \in BOOLEAN
    BY DEF TypeInv, TypeOK
  <1>2. ~overlapped /\ ~(InFlight # {}) /\ ~(operator # Nobody)
    BY <1>1 DEF Overlaps
  <1>3. QED
    BY <1>2 DEF InFlight

LEMMA StepSerialCall ==
    ASSUME TypeInv, TickInv, SerialInv, ~overlapped, NEW c \in Calls, CallStep(c)
    PROVE  SerialInv'
  <1> USE DEF At, database
  <1>1. /\ \/ Replay(c) \/ ReadClock(c) \/ FindOpenRun(c) \/ CreateRun(c) \/ CheckRun(c)
           \/ CheckStale(c) \/ CreateTask(c) \/ Heartbeat(c) \/ ClaimTask(c) \/ FindTick(c)
           \/ ReadWorld(c, "read", "commit") \/ CommitTick(c)
           \/ MarkRun(c, "ticked", "world_ticked", "inputs")
           \/ ReadWorld(c, "inputs", "seal") \/ Seal(c)
           \/ MarkRun(c, "sealed", "snapshot_sealed", "finalize") \/ Finalize(c)
           \/ MarkFailure(c, "retryable", "retryable_failed")
           \/ MarkFailure(c, "terminal", "terminal_failed")
    BY DEF CallStep
  <1>2. RowsInv' /\ CallInv(c)'
    BY <1>1, SerialAcquire, SerialWork
  <1>3. call[c].pc # "idle" /\ UNCHANGED operator
    BY <1>1
    DEF Replay, ReadClock, FindOpenRun, CreateRun, CheckRun, CheckStale, CreateTask, Heartbeat,
        ClaimTask, FindTick, ReadWorld, CommitTick, MarkRun, Seal, Finalize, MarkFailure
  <1>4. \E local : call' = [call EXCEPT ![c] = local]
    <2>1. \/ Return(c) \/ (\E step : Goto(c, step) \/ Ticked(c, step))
          \/ ReadClock(c) \/ FindOpenRun(c) \/ \E from, to : ReadWorld(c, from, to)
      BY <1>1
      DEF Replay, CreateRun, CheckRun, CheckStale, CreateTask, Heartbeat, ClaimTask,
          Acquired, FindTick, CommitTick, TickAgain, TickRefused, TickLands, MarkRun, Seal,
          Finalize, MarkFailure
    <2>2. ASSUME FindOpenRun(c) PROVE \E local : call' = [call EXCEPT ![c] = local]
      BY <2>2 DEF FindOpenRun, Goto, Return
    <2>3. QED
      BY <2>1, <2>2 DEF Return, Goto, Ticked, ReadClock, ReadWorld
  <1>5. QED
    BY <1>2, <1>3, <1>4, AloneStays

LEMMA StepSerialOutside ==
    ASSUME TypeInv, TickInv, SerialInv, ~overlapped',
           \/ \E c \in Calls : Raise(c) \/ Crash(c) \/ \E k \in Keys : Start(c, k)
           \/ Pause \/ Resume \/ SetDecided
           \/ Expire \/ ReconcileElsewhere \/ OtherCommand \/ UNCHANGED vars
    PROVE  SerialInv'
  <1> USE DEF callers, database
  <1>o. ~overlapped
    <2>1. Overlaps => ~overlapped
      BY StartsAlone
    <2>2. QED
      BY <2>1 DEF Raise, Crash, Start, Pause, Resume, Decide, SetDecided, Expire,
                  ReconcileElsewhere, OtherCommand, vars
  <1>r. Alone /\ RowsInv /\ \A c \in Calls : CallInv(c)
    BY <1>o DEF SerialInv
  <1>t. call \in [Calls -> Call] /\ tasks \in [Index -> Row] /\ runs \in [Index -> RunState]
    BY DEF TypeInv, TypeOK
  <1>1. ASSUME NEW c \in Calls, Raise(c) PROVE SerialInv'
    <2>1. call[c].pc \in Working /\ Ticked(c, "retryable") /\ UNCHANGED <<database, operator>>
      BY <1>1 DEF Raise
    <2>2. RowsInv'
      BY <1>r, <2>1, RowsStay DEF RowsInv
    <2>3. /\ runs[Target(c)] \notin Closed \cup {"absent"}
          /\ call[c].healing => ~HasTicked(call[c].key)
      BY <1>r, <2>1 DEF Working, OnRun, Steps, CallInv
    <2>4. CallInv(c)'
      BY <2>1, <2>3, Locals
      DEF CallInv, OnRun, Steps, BeforeTick, AfterTick, Acquiring, HasTicked, Target
    <2>5. call[c].pc # "idle"
      BY <2>1 DEF Working
    <2>6. QED
      BY <1>o, <2>1, <2>2, <2>4, <2>5, AloneStays DEF Ticked
  <1>2. ASSUME NEW c \in Calls, Crash(c) PROVE SerialInv'
    <2>1. call[c].pc # "idle" /\ Return(c) /\ UNCHANGED <<database, operator>>
      BY <1>2 DEF Crash, InFlight
    <2>2. RowsInv'
      BY <1>r, <2>1, RowsStay DEF RowsInv
    <2>3. CallInv(c)'
      BY <2>1, Locals DEF CallInv, OnRun, Steps, BeforeTick, AfterTick, Acquiring
    <2>4. QED
      BY <1>o, <2>1, <2>2, <2>3, AloneStays DEF Return
  \* A sweep of the tasks touches running rows only.
  <1>s. ASSUME tasks' = Reconciled, UNCHANGED <<clock, runs, snapshots>> PROVE RowsInv'
    <2>1. \A i \in Index : runs[i] = "completed" => tasks'[i] = tasks[i]
      BY <1>s, <1>r DEF Reconciled, Stale, RowsInv
    <2>2. QED
      BY <1>s, <1>r, <2>1, RowsStay DEF RowsInv
  <1>3. ASSUME NEW c \in Calls, NEW k \in Keys, Start(c, k) PROVE SerialInv'
    <2>1. operator = Nobody /\ \A d \in Calls : call[d].pc = "idle"
      BY <1>3, StartsAlone DEF Start
    <2>2. RowsInv'
      BY <1>3, <1>s DEF Start
    <2>3. call'[c].pc = "replay" /\ \A d \in Calls : d # c => call'[d].pc = "idle"
      <3> DEFINE local == [Idle EXCEPT !.pc = "replay", !.key = k]
      <3>1. local.pc = "replay"
        BY DEF Idle
      <3>2. call' = [call EXCEPT ![c] = local]
        BY <1>3 DEF Start
      <3> HIDE DEF local
      <3>3. QED
        BY <2>1, <3>1, <3>2, <1>t
    <2>4. Alone'
      BY <1>3, <2>1, <2>3 DEF Start, Alone, InFlight
    <2>5. \A d \in Calls : CallInv(d)'
      BY <2>3 DEF CallInv, OnRun, Steps, BeforeTick, AfterTick, Acquiring
    <2>6. QED
      BY <2>2, <2>4, <2>5 DEF SerialInv
  \* Where no call is in flight only the operator and the rows matter.
  <1>q. ASSUME \A d \in Calls : call[d].pc = "idle", UNCHANGED call, RowsInv',
               operator' = Nobody \/ runs'[operator'[1]] \in {"created", "paused"}
        PROVE  SerialInv'
    <2>1. \A d \in Calls : CallInv(d)'
      BY <1>q DEF CallInv, OnRun, Steps, BeforeTick, AfterTick, Acquiring
    <2>2. Alone'
      BY <1>q DEF Alone, InFlight
    <2>3. QED
      BY <1>q, <2>1, <2>2 DEF SerialInv
  <1>4. ASSUME Pause \/ Resume PROVE SerialInv'
    <2>1. PICK from \in {"created", "paused"}, to \in {"paused", "retryable_failed"} :
             Decide(from, to)
      BY <1>4 DEF Pause, Resume
    <2>2. \A d \in Calls : call[d].pc = "idle"
      BY <2>1, StartsAlone DEF Decide
    <2>3. RowsInv' /\ runs'[operator'[1]] \in {"created", "paused"}
      BY <2>1, <1>r, RowsStay DEF Decide, RowsInv
    <2>4. QED
      BY <1>q, <2>1, <2>2, <2>3 DEF Decide
  <1>5. ASSUME SetDecided PROVE SerialInv'
    <2>1. /\ operator # Nobody /\ SetState(operator[1], operator[2]) /\ operator' = Nobody
          /\ UNCHANGED <<clock, tasks, snapshots, call>>
      BY <1>5 DEF SetDecided
    <2>2. operator[1] \in Index /\ operator[2] \in {"paused", "retryable_failed"}
      BY <2>1 DEF TypeInv, TypeOK
    <2>3. \A d \in Calls : call[d].pc = "idle"
      BY <2>1, <1>r DEF Alone, InFlight
    <2>4. RowsInv'
      BY <1>r, <2>1, <2>2, SetStateStays DEF Closed
    <2>5. QED
      BY <1>q, <2>1, <2>3, <2>4
  \* Where no call moves and no run, the knowledge of the calls stands.
  <1>p. ASSUME UNCHANGED <<clock, ticks, runs, snapshots, call, operator>>, RowsInv'
        PROVE  SerialInv'
    <2>1. Alone'
      BY <1>p, <1>r DEF Alone, InFlight
    <2>2. \A d \in Calls : CallInv(d)'
      BY <1>p, <1>r DEF CallInv, HasTicked, Target
    <2>3. QED
      BY <1>p, <2>1, <2>2 DEF SerialInv
  <1>6. ASSUME Expire PROVE SerialInv'
    <2>1. PICK i \in Index : tasks' = [tasks EXCEPT ![i].lease = "expired"]
      BY <1>6 DEF Expire
    <2>2. \A j \in Index : tasks'[j].state = tasks[j].state
      BY <1>t, <2>1 DEF Row
    <2>3. RowsInv'
      BY <1>6, <1>r, <2>2, RowsStay DEF Expire, RowsInv
    <2>4. QED
      BY <1>6, <1>p, <2>3 DEF Expire
  <1>7. ASSUME ReconcileElsewhere PROVE SerialInv'
    BY <1>7, <1>p, <1>s DEF ReconcileElsewhere
  <1>8. ASSUME OtherCommand \/ UNCHANGED vars PROVE SerialInv'
    <2>1. UNCHANGED <<clock, ticks, runs, tasks, snapshots, call, operator>>
      BY <1>8 DEF OtherCommand, vars
    <2>2. RowsInv'
      BY <1>r, <2>1, RowsStay DEF RowsInv
    <2>3. QED
      BY <1>p, <2>1, <2>2
  <1>9. QED
    BY <1>1, <1>2, <1>3, <1>4, <1>5, <1>6, <1>7, <1>8

LEMMA StepSerial ==
    ASSUME TypeInv, TickInv, SerialInv, [Next]_vars
    PROVE  SerialInv'
  <1>1. CASE overlapped'
    BY <1>1 DEF SerialInv
  <1>2. ASSUME ~overlapped', NEW c \in Calls, CallStep(c) PROVE SerialInv'
    <2>1. UNCHANGED overlapped
      BY <1>2
      DEF CallStep, At, Replay, ReadClock, FindOpenRun, CreateRun, CheckRun, CheckStale,
          CreateTask, Heartbeat, ClaimTask, FindTick, ReadWorld, CommitTick, MarkRun, Seal,
          Finalize, MarkFailure
    <2>2. QED
      BY <1>2, <2>1, StepSerialCall
  <1>3. QED
    BY <1>1, <1>2, StepSerialOutside DEF Next

-----------------------------------------------------------------------------
(* Theorems                                                                *)

Inv == TypeInv /\ TickInv /\ SerialInv

LEMMA Invariance == Spec => []Inv
  <1>1. Init => Inv
    BY InitType, InitTick, InitSerial DEF Inv
  <1>2. Inv /\ [Next]_vars => Inv'
    BY StepType, StepTick, StepSerial DEF Inv
  <1>3. QED
    BY <1>1, <1>2, PTL DEF Spec

\* Phases tick exactly once each, however calls overlap; among operations one
\* after the other a completed run has its tick, its snapshot and its ended
\* task, and no phase ticks before the one behind it is sealed.
THEOREM PhasesInOrderHolds == Spec => []PhasesInOrder
  <1>1. Inv => PhasesInOrder
    <2> SUFFICES ASSUME Inv PROVE PhasesInOrder
      OBVIOUS
    <2>1. TickedOncePerPhase
      BY TicksAreCounted DEF Inv
    <2>2. CompletionIsWhole
      BY DEF Inv, SerialInv, RowsInv, CompletionIsWhole
    <2>3. ClockWaitsForHealing
      BY DEF Inv, SerialInv, RowsInv, ClockWaitsForHealing
    <2>4. QED
      BY <2>1, <2>2, <2>3 DEF PhasesInOrder
  <1>2. QED
    BY <1>1, Invariance, PTL

\* Among operations one after the other no step writes a closed run.
LEMMA ClosedStays ==
    ASSUME Inv, [Next]_vars, ~overlapped, NEW i \in Index, runs[i] \in Closed
    PROVE  runs'[i] = runs[i]
  <1> USE DEF database
  <1>r. Alone /\ \A c \in Calls : CallInv(c)
    BY DEF Inv, SerialInv
  <1>t. runs \in [Index -> RunState]
    BY DEF Inv, TypeInv, TypeOK
  <1>1. ASSUME NEW c \in Calls, call[c].pc \in OnRun \ {"create", "check"}, NEW state,
               SetState(Target(c), state)
        PROVE  runs'[i] = runs[i]
    <2>1. Target(c) # i
      BY <1>1, <1>r DEF CallInv
    <2>2. QED
      BY <1>1, <1>t, <2>1 DEF SetState
  <1>2. ASSUME NEW c \in Calls, CallStep(c) PROVE runs'[i] = runs[i]
    <2>1. CASE CreateRun(c)
      <3>1. UNCHANGED runs \/ (runs[Target(c)] = "absent" /\ SetState(Target(c), "created"))
        BY <2>1 DEF CreateRun
      <3>2. QED
        BY <1>t, <3>1 DEF SetState, Closed
    <2>2. CASE MarkRun(c, "ticked", "world_ticked", "inputs")
      BY <1>1, <2>2 DEF MarkRun, At, OnRun, Steps
    <2>3. CASE MarkRun(c, "sealed", "snapshot_sealed", "finalize")
      BY <1>1, <2>3 DEF MarkRun, At, OnRun, Steps
    <2>4. CASE Finalize(c)
      BY <1>1, <2>4 DEF Finalize, At, OnRun, Steps
    <2>5. CASE MarkFailure(c, "retryable", "retryable_failed")
      BY <1>1, <2>5 DEF MarkFailure, At, OnRun, Steps
    <2>6. CASE MarkFailure(c, "terminal", "terminal_failed")
      BY <1>1, <2>6 DEF MarkFailure, At, OnRun, Steps
    <2>7. CASE \/ Replay(c) \/ ReadClock(c) \/ FindOpenRun(c) \/ CheckRun(c) \/ CheckStale(c)
               \/ CreateTask(c) \/ Heartbeat(c) \/ ClaimTask(c) \/ FindTick(c)
               \/ ReadWorld(c, "read", "commit") \/ CommitTick(c)
               \/ ReadWorld(c, "inputs", "seal") \/ Seal(c)
      BY <2>7
      DEF Replay, ReadClock, FindOpenRun, CheckRun, CheckStale, CreateTask, Heartbeat,
          ClaimTask, FindTick, ReadWorld, CommitTick, Seal
    <2>8. QED
      BY <1>2, <2>1, <2>2, <2>3, <2>4, <2>5, <2>6, <2>7 DEF CallStep
  <1>3. CASE SetDecided
    <2>1. runs[operator[1]] \notin Closed /\ SetState(operator[1], operator[2])
      BY <1>3, <1>r DEF SetDecided, Alone, Closed
    <2>2. QED
      BY <1>t, <2>1 DEF SetState
  <1>4. QED
    BY <1>2, <1>3 DEF Next, Raise, Crash, Start, Pause, Resume, Decide, Expire,
                      ReconcileElsewhere, OtherCommand, vars

\* Terminal and completed runs are never written again, unless two operations
\* overlap.
THEOREM ClosedIsFinalHolds == Spec => ClosedIsFinal
  <1>1. Inv /\ [Next]_vars =>
            [~overlapped => \A i \in Index : runs[i] \in Closed => runs'[i] = runs[i]]_vars
    BY ClosedStays
  <1>2. QED
    BY <1>1, Invariance, PTL DEF Spec, ClosedIsFinal
=============================================================================
