----------------------------- MODULE MacroPeriod -----------------------------
(***************************************************************************)
(* The macro engine (application/macro/engine.py): a quiet interval of     *)
(* days is passed by one clock command and the schedules due in it, whose  *)
(* consequences Genealogy has.  A run row remembers how far a period got;  *)
(* a period with a seeded major event in it is interrupted and left to the *)
(* detailed phases (PhaseStage1), of which this module keeps what they     *)
(* share with it: clock, schedules, and the rule that they follow on.      *)
(*                                                                         *)
(* One macro call runs at a time and one call of each phase, for these are *)
(* the admission scopes; the two are not exclusive of each other.  A       *)
(* session's transaction is one step.                                      *)
(***************************************************************************)
EXTENDS Genealogy, Integers

CONSTANTS
    PhasesPerDay,
    Resolutions,   \* lengths of a period, in days
    Days,          \* bound: days that are asked for
    MaxIndex,      \* bound: phases that are asked for
    Schedules, Schedule,  \* what the schedules are: due, kind, who, salient
    Founding,      \* the house at first
    MaxDisturbances  \* bound on calls that die, cancellations and assignments

\* resolution_range: a period begins at a multiple of its length.
PeriodOf(day, days) ==
    LET first == ((day - 1) \div days) * days
    IN  [start |-> first * PhasesPerDay, end |-> (first + days) * PhasesPerDay]

Periods == {PeriodOf(day, days) : day \in 1..Days, days \in Resolutions}

ASSUME MacroAssumption ==
    /\ PhasesPerDay \in Nat \ {0} /\ Resolutions \subseteq Nat \ {0} /\ IsFiniteSet(Resolutions)
    /\ Days \in Nat /\ MaxIndex \in Nat /\ MaxDisturbances \in Nat
    /\ IsFiniteSet(Schedules)
    /\ Schedule \in [Schedules -> [due : Nat, kind : {"birth", "death", "note"}, who : Persons,
                                   salient : BOOLEAN]]
    /\ Founding \in House

VARIABLES
    clock, version,\* of the world's row
    run,           \* state of each macro_period_run
    breaks,        \* macro_interruption rows
    ticked,        \* periods whose clock command is committed
    effects,       \* macro_aggregate_effect rows: what a period is said to have done
    phase,         \* state of each phase run
    phaseTicked,   \* phases whose tick command is committed
    status,        \* of the schedules
    cancelling,    \* cancellations that have read their row and not yet written it
    fired,         \* SCHEDULE_FIRED events of each schedule, by who fired it
    house,
    macro, detail, \* the macro call and the phase call
    overlapped,    \* bookkeeping: a macro call and a phase call have run at once
    disturbances, assigned

time == <<clock, version, ticked, phaseTicked>>
rows == <<run, breaks, effects>>
canon == <<status, cancelling, fired, house>>
bounds == <<overlapped, disturbances, assigned>>
vars == <<time, rows, phase, canon, macro, detail, bounds>>

Index == 1..MaxIndex
RunState == {"absent", "running", "interrupted", "completed"}
NoPeriod == [start |-> 0, end |-> 0]
NoCall == [pc |-> "idle", period |-> NoPeriod, version |-> 0, at |-> 0, due |-> <<>>, fired |-> {}]
NoPhase == [pc |-> "idle", index |-> 0, version |-> 0, due |-> {}]

TypeOK ==
    /\ clock \in Nat /\ version \in Nat
    /\ run \in [Periods -> RunState] /\ ticked \subseteq Periods
    /\ breaks \subseteq Periods \X Nat
    /\ effects \subseteq Periods \X (Schedules \cup {"clock"})
    /\ phase \in [Index -> {"absent", "open", "completed"}] /\ phaseTicked \subseteq Index
    /\ status \in [Schedules -> {"pending", "applied", "cancelled"}]
    /\ cancelling \subseteq Schedules /\ \A s \in Schedules : IsFiniteSet(fired[s])
    /\ house \in House /\ assigned \in Nat
    /\ macro.pc \in {"idle", "open", "break", "interrupt", "tick", "read", "fire", "finish"}
    /\ macro.fired \subseteq Schedules
    /\ detail.pc \in {"idle", "previous", "read", "tick", "due", "fire", "work"}
    /\ detail.due \subseteq Schedules
    /\ disturbances \in 0..MaxDisturbances

Init ==
    /\ clock = 0 /\ version = 0
    /\ run = [p \in Periods |-> "absent"] /\ breaks = {} /\ ticked = {} /\ effects = {}
    /\ phase = [i \in Index |-> "absent"] /\ phaseTicked = {}
    /\ status = [s \in Schedules |-> "pending"] /\ cancelling = {} /\ fired = [s \in Schedules |-> {}]
    /\ house = Founding
    /\ macro = NoCall /\ detail = NoPhase
    /\ overlapped = FALSE /\ disturbances = 0 /\ assigned = 0

-----------------------------------------------------------------------------
(* Schedules                                                               *)

Due(last) == {s \in Schedules : status[s] = "pending" /\ Schedule[s].due <= last}

\* list_due: in the order of their due index, and in any order at the same index.
InOrder(S) == {seq \in SetToSeqs(S) : \A j, k \in DOMAIN seq :
                   j < k => Schedule[seq[j]].due <= Schedule[seq[k]].due}

\* find_break: major events that are due in the window.
Break(p) ==
    {Schedule[s].due : s \in {s \in Due(p.end - 1) : Schedule[s].salient /\ Schedule[s].due >= p.start}}

First(S) == CHOOSE i \in S : \A j \in S : i <= j

\* Mutant: the rows are saved whatever has become of them, under events of
\* their own.
Unfired_Any(s) == TRUE

\* The event's id is the schedule's and the row is saved at the version that
\* was read.
Unfired(s) == status[s] = "pending" /\ fired[s] = {}

Fired(S, by) ==
    /\ status' = [s \in Schedules |-> IF s \in S THEN "applied" ELSE status[s]]
    /\ fired' = [s \in Schedules |-> IF s \in S THEN fired[s] \cup {by} ELSE fired[s]]

\* The houses that the schedules in seq make, one after the other.
Stages(seq, newest) ==
    LET stage[k \in 0..Len(seq)] ==
            IF k = 0 THEN house
            ELSE LET s == Schedule[seq[k]] IN Consequence(stage[k - 1], s.kind, s.who, s.due, newest)
    IN  stage

After(seq, newest) == Stages(seq, newest)[Len(seq)]

\* One that raises undoes the whole transaction.
SomeRaises(seq, newest) ==
    \E k \in DOMAIN seq :
        LET s == Schedule[seq[k]] IN Raises(Stages(seq, newest)[k - 1], s.kind, s.who, s.due)

-----------------------------------------------------------------------------
(* MacroEngine.advance_period                                              *)

Ends == macro' = NoCall

\* The rows of a period: its run, what it was cut short by, what it has done.
SaveRun(p, state) == run' = [run EXCEPT ![p] = state]
AddInterruption(p, at) == breaks' = breaks \cup {<<p, at>>}
AddEffects(S) == effects' = effects \cup S

RequestMacro(p) ==
    /\ macro.pc = "idle" /\ run[p] # "completed"
    /\ macro' = [NoCall EXCEPT !.pc = "open", !.period = p]
    /\ overlapped' = (overlapped \/ detail.pc # "idle")
    /\ UNCHANGED <<time, rows, phase, canon, detail, disturbances, assigned>>

\* Mutant: only a period that begins now.
Ready_NoResume(p, resuming) == clock = p.start

\* Mutant: any period that is still to come.
Ready_Later(p, resuming) == clock <= p.start \/ (resuming /\ clock = p.end)

\* The clock is at the period's start, or at its end and the run has been here.
Ready(p, resuming) == clock = p.start \/ (resuming /\ clock = p.end)

\* The run's row is committed before the clock is looked at.
OpenRun ==
    /\ macro.pc = "open"
    /\ LET p == macro.period
           blocked == run[p] = "interrupted" /\ Break(p) # {}
       IN  /\ SaveRun(p, IF blocked THEN run[p] ELSE "running")
           /\ macro' = IF ~blocked /\ Ready(p, run[p] # "absent")
                       THEN [macro EXCEPT !.pc = "break", !.version = version] ELSE NoCall
    /\ UNCHANGED <<time, breaks, effects, phase, canon, detail, bounds>>

CheckBreak ==
    /\ macro.pc = "break"
    /\ macro' = IF Break(macro.period) # {}
                THEN [macro EXCEPT !.pc = "interrupt", !.at = First(Break(macro.period))]
                ELSE [macro EXCEPT !.pc = "tick"]
    /\ UNCHANGED <<time, rows, phase, canon, detail, bounds>>

\* _interrupt
Interrupt ==
    /\ macro.pc = "interrupt" /\ Ends
    /\ AddInterruption(macro.period, macro.at)
    /\ SaveRun(macro.period, "interrupted")
    /\ UNCHANGED <<time, effects, phase, canon, detail, bounds>>

\* _commit_clock: the command's key is looked up, then the world's version
\* must be what it was when the clock was read.
CommitClock ==
    /\ macro.pc = "tick"
    /\ \/ /\ macro.period \in ticked
          /\ macro' = [macro EXCEPT !.pc = "read"] /\ UNCHANGED time
       \/ /\ macro.period \notin ticked /\ version = macro.version
          /\ macro' = [macro EXCEPT !.pc = "read"]
          /\ clock' = macro.period.end /\ version' = version + 1
          /\ ticked' = ticked \cup {macro.period} /\ UNCHANGED phaseTicked
       \/ /\ macro.period \notin ticked /\ version # macro.version
          /\ Ends /\ UNCHANGED time
    /\ UNCHANGED <<rows, phase, canon, detail, bounds>>

\* _fire_due_schedules: everything due up to the end, late ones included.
ReadDue ==
    /\ macro.pc = "read"
    /\ \E seq \in InOrder(Due(macro.period.end - 1)) :
           macro' = [macro EXCEPT !.pc = "fire", !.due = seq]
    /\ UNCHANGED <<time, rows, phase, canon, detail, bounds>>

FireDue(newest) ==
    /\ macro.pc = "fire"
    /\ LET due == {macro.due[k] : k \in DOMAIN macro.due}
       IN  IF (\A s \in due : Unfired(s)) /\ ~SomeRaises(macro.due, newest)
           THEN /\ Fired(due, <<"macro", macro.period>>)
                /\ house' = After(macro.due, newest)
                /\ macro' = [macro EXCEPT !.pc = "finish", !.fired = due, !.due = <<>>]
           ELSE Ends /\ UNCHANGED <<status, fired, house>>
    /\ UNCHANGED <<time, rows, phase, cancelling, detail, bounds>>

\* Mutant: one effect for each kind.
Decomposed_ByKind(p, S) == {<<p, "clock">>, <<p, "schedule_progress">>}

Decomposed(p, S) == {<<p, "clock">>} \cup {<<p, s>> : s \in S}

FinishRun ==
    /\ macro.pc = "finish" /\ Ends
    /\ AddEffects(Decomposed(macro.period, macro.fired))
    /\ SaveRun(macro.period, "completed")
    /\ UNCHANGED <<time, breaks, phase, canon, detail, bounds>>

-----------------------------------------------------------------------------
(* Detailed phases                                                         *)

\* Mutant: any phase may be asked for.
Consecutive_Any(i) == TRUE
Consecutive(i) == clock + 1 = i \/ clock = i

\* advance_phase: one call at a time here (two phases have slots of their own,
\* but the later one needs the earlier one's run).
RequestPhase(i) ==
    /\ detail.pc = "idle" /\ phase[i] # "completed" /\ Consecutive(i)
    /\ detail' = [NoPhase EXCEPT !.pc = "previous", !.index = i]
    /\ phase' = [phase EXCEPT ![i] = "open"]
    /\ overlapped' = (overlapped \/ macro.pc # "idle")
    /\ UNCHANGED <<time, rows, canon, macro, disturbances, assigned>>

Covers(i) == \E p \in Periods : p.end = i /\ run[p] = "completed"

\* _require_previous_complete
RequirePrevious ==
    /\ detail.pc = "previous"
    /\ LET i == detail.index
           ready == \/ i <= 1 \/ phase[i - 1] = "completed"
                    \/ phase[i - 1] = "absent" /\ Covers(i)
       IN  detail' = IF ready THEN [detail EXCEPT !.pc = "read"] ELSE NoPhase
    /\ UNCHANGED <<time, rows, phase, canon, macro, bounds>>

\* _tick reads the world anew: a clock that stands at the index is left.
ReadClock ==
    /\ detail.pc = "read"
    /\ detail' = [detail EXCEPT !.version = version, !.pc = IF clock = detail.index THEN "due" ELSE "tick"]
    /\ UNCHANGED <<time, rows, phase, canon, macro, bounds>>

\* The command sets the clock to the index, from wherever it is; its key is
\* spent once.
TickPhase ==
    /\ detail.pc = "tick"
    /\ IF version = detail.version /\ detail.index \notin phaseTicked
       THEN /\ clock' = detail.index /\ version' = version + 1
            /\ phaseTicked' = phaseTicked \cup {detail.index} /\ UNCHANGED ticked
            /\ detail' = [detail EXCEPT !.pc = "due"]
       ELSE detail' = NoPhase /\ UNCHANGED time
    /\ UNCHANGED <<rows, phase, canon, macro, bounds>>

\* _fire_due_schedules of a phase: events without consequences.
ReadPhaseDue ==
    /\ detail.pc = "due"
    /\ detail' = [detail EXCEPT !.pc = "fire", !.due = Due(detail.index)]
    /\ UNCHANGED <<time, rows, phase, canon, macro, bounds>>

FirePhase ==
    /\ detail.pc = "fire"
    /\ IF \A s \in detail.due : Unfired(s)
       THEN /\ Fired(detail.due, <<"phase", detail.index>>)
            /\ detail' = [detail EXCEPT !.pc = "work", !.due = {}]
       ELSE detail' = NoPhase /\ UNCHANGED <<status, fired>>
    /\ UNCHANGED <<time, rows, phase, cancelling, house, macro, bounds>>

\* The rest of the phase completes or fails.
CompletePhase ==
    /\ detail.pc = "work" /\ detail' = NoPhase
    /\ phase' = [phase EXCEPT ![detail.index] = "completed"]
    /\ UNCHANGED <<time, rows, canon, macro, bounds>>

-----------------------------------------------------------------------------
(* Other commands, and calls that die                                      *)

Disturbance == disturbances < MaxDisturbances /\ disturbances' = disturbances + 1
               /\ UNCHANGED overlapped

\* cancel_schedule: a row that is pending when it is read is cancelled, whatever
\* has become of it when it is written (the UPDATE names only the id).
Cancel(s) ==
    /\ status[s] = "pending" /\ s \notin cancelling
    /\ cancelling' = cancelling \cup {s}
    /\ Disturbance /\ UNCHANGED <<time, rows, phase, status, fired, house, macro, detail, assigned>>

CancelLands(s) ==
    /\ s \in cancelling /\ cancelling' = cancelling \ {s}
    /\ status' = [status EXCEPT ![s] = "cancelled"]
    /\ UNCHANGED <<time, rows, phase, fired, house, macro, detail, bounds>>

\* assign_focus: the operator names any position in time.
Assign(slot, p, at, newest) ==
    /\ MayAssign(house, slot, p, newest)
    /\ house' = Assigned(house, slot, p, at) /\ assigned' = assigned + 1
    /\ Disturbance /\ UNCHANGED <<time, rows, phase, status, cancelling, fired, macro, detail>>

MacroDies ==
    /\ macro.pc # "idle" /\ Ends
    /\ Disturbance /\ UNCHANGED <<time, rows, phase, canon, detail, assigned>>

PhaseDies ==
    /\ detail.pc # "idle" /\ detail' = NoPhase
    /\ Disturbance /\ UNCHANGED <<time, rows, phase, canon, macro, assigned>>

-----------------------------------------------------------------------------
MacroStep ==
    \/ OpenRun \/ CheckBreak \/ Interrupt \/ CommitClock \/ ReadDue
    \/ (\E newest \in BOOLEAN : FireDue(newest)) \/ FinishRun

PhaseStep == RequirePrevious \/ ReadClock \/ TickPhase \/ ReadPhaseDue \/ FirePhase \/ CompletePhase

Next ==
    \/ \E p \in Periods : RequestMacro(p)
    \/ MacroStep
    \/ \E i \in Index : RequestPhase(i)
    \/ PhaseStep
    \/ \E s \in Schedules : Cancel(s) \/ CancelLands(s)
    \/ \E slot \in Slots, p \in Persons, at \in {0, clock, MaxIndex}, newest \in BOOLEAN :
           Assign(slot, p, at, newest)
    \/ MacroDies \/ PhaseDies

Spec == Init /\ [][Next]_vars

\* Calls return (none of their steps waits; said so, TLC need not evaluate
\* whether a whole family's step is enabled), and every period is asked for
\* again and again.
Fairness ==
    /\ []<>(macro.pc = "idle") /\ WF_vars(PhaseStep)
    /\ \A p \in Periods : SF_vars(RequestMacro(p))

FairSpec == Spec /\ Fairness

-----------------------------------------------------------------------------
(* Properties                                                              *)

\* "applied rows never refire" (engine.py, _fire_due_schedules): macro and
\* phases, which may run at once, fire a schedule once between them, and one
\* that is cancelled in time not at all.
FiresOnce ==
    \A s \in Schedules :
        /\ Cardinality(fired[s]) <= 1
        /\ status[s] = "pending" => fired[s] = {}
        /\ status[s] = "applied" => fired[s] # {}

\* Without calls that overlap, the clock never goes back.
ClockForward == [][overlapped' \/ clock' >= clock]_vars

\* Without overlap, every phase behind the clock is completed, or in a period
\* whose clock command was committed.
NothingSkipped ==
    ~overlapped => \A i \in 1..(clock - 1) :
        \/ phase[i] = "completed"
        \/ \E p \in ticked : p.start <= i /\ i < p.end

\* The days behind the clock were lived, in detail or as a period, and what was
\* due in them came about once.
HistoryIsWhole == FiresOnce /\ NothingSkipped

\* "re-entry heals the remaining steps instead of doubling" (engine.py): no two
\* periods whose clock commands are committed share a phase, and none holds a
\* phase that was simulated in detail (calls that overlap left aside).
OneResolution == ~overlapped =>
    /\ \A p, q \in ticked : p # q => p.end <= q.start \/ q.end <= p.start
    /\ \A i \in Index, p \in ticked : phase[i] = "completed" => ~(p.start < i /\ i < p.end)

\* A dead holder has no eligible living descendant born before the death.
Passed(h) ==
    \A slot \in Slots, p \in Persons, newest \in BOOLEAN :
        Holds(h, slot, p, newest) /\ h.life[p] = "dead" =>
            \A c \in Descendants(p) \cap Eligible : h.life[c] = "alive" => h.born[c] > h.died[p]

\* Dates tell what comes first: no two deaths, nor a birth and a death, are due
\* at one index; what the founding house dates comes before what is due; and
\* that house has the parents of its children, and its slots were passed on.
Dated ==
    LET of(kind) == {s \in Schedules : Schedule[s].kind = kind}
    IN  /\ \A s \in of("death"), t \in of("death") \cup of("birth") :
              s # t => Schedule[s].due # Schedule[t].due
        /\ \A s \in of("birth"), p \in Persons :
              Founding.life[p] = "dead" => Founding.died[p] < Schedule[s].due
        /\ \A slot \in Slots : \A k \in DOMAIN Founding.focus[slot] :
              /\ \A s \in of("death") : Founding.focus[slot][k].effective < Schedule[s].due
              /\ \A j \in DOMAIN Founding.focus[slot] :
                    j # k => Founding.focus[slot][j].effective # Founding.focus[slot][k].effective
        /\ \A p \in Persons : Founding.life[p] # "unborn" => ~Orphan(Founding, p)
        /\ Passed(Founding)

\* "when a recorded focus holder dies, each held slot passes to the eldest
\* eligible living descendant, or stays vacant" (genealogy.py), whatever calls
\* die or overlap between the schedules.  Where nobody was assigned by hand.
Succession == assigned = 0 => Passed(house)

\* A period whose clock has moved is completed in the end, unless the world
\* goes on from there or a schedule it must fire raises.
Poisoned(p) == \E seq \in InOrder(Due(p.end - 1)) : SomeRaises(seq, TRUE)
TickedHeals ==
    \A p \in Periods : p \in ticked ~> run[p] = "completed" \/ clock # p.end \/ Poisoned(p)

\* The clock goes forward, and what it has been carried over is completed.
PeriodsClose == ClockForward /\ TickedHeals
=============================================================================
