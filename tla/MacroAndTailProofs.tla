------------------------- MODULE MacroAndTailProofs -------------------------
(***************************************************************************)
(* Proofs about the two engines that have no module of proofs of their     *)
(* own; they share nothing but lemmas about numbers.                       *)
(*                                                                         *)
(* The macro engine beside detailed phases, for any resolutions,           *)
(* schedules, families and number of disturbances:                         *)
(*   TypeInv   the calls are where the code can be, runs and phases have   *)
(*             their states.                                               *)
(*   TickInv   a period that is completed has committed its clock.         *)
(*   ClockInv  without overlap, whoever is about to move the clock found   *)
(*             it where it stands, and all behind that was lived.          *)
(*   LineInv   the family's dates come before those of the schedules that  *)
(*             are pending, and a call fires its own before all others.    *)
(*                                                                         *)
(* The tail of the scenes, for any tables, narrations, dice, sheets,       *)
(* spars, deaths and links:                                                *)
(*   RowsInv   every row has a sound sheet under its name, every pool the  *)
(*             maximum of its kind.                                        *)
(*   StepInv   where the call and the route can be, and what they hold.    *)
(*   FightInv  a fight reckons with members of the party and with the      *)
(*             pools as they are, and keeps every body within its limits.  *)
(*   CapInv    a seat too many is paid for by a join that overlapped.      *)
(*   OnceInv   blows fall with the combat event, and once.                 *)
(*   LinksInv  one link makes one conflict, after which the roster is      *)
(*             read again.                                                 *)
(*   HeardInv  what a tag leaves behind is never silence.                  *)
(*   OwedInv   a narration that calls for a fight has had it, or its call  *)
(*             is on the way to it.                                        *)
(***************************************************************************)
EXTENDS MacroPeriod, SceneTail, FiniteSetTheorems, WellFoundedInduction, TLAPS

TypeInv ==
    /\ clock \in Nat /\ version \in Nat
    /\ run \in [Periods -> RunState] /\ ticked \subseteq Periods
    /\ phase \in [Index -> {"absent", "open", "completed"}]
    /\ status \in [Schedules -> {"pending", "applied", "cancelled"}]
    /\ DOMAIN macro = {"pc", "period", "version", "at", "due", "fired"}
    /\ macro.pc \in {"idle", "open", "break", "interrupt", "tick", "read", "fire", "finish"}
    /\ macro.pc # "idle" => macro.period \in Periods
    /\ DOMAIN detail = {"pc", "index", "version", "due"}
    /\ detail.pc \in {"idle", "previous", "read", "tick", "due", "fire", "work"}
    /\ detail.pc # "idle" => detail.index \in Index
    /\ overlapped \in BOOLEAN

TickInv ==
    /\ macro.pc \in {"read", "fire", "finish"} => macro.period \in ticked
    /\ \A p \in Periods : run[p] = "completed" => p \in ticked

\* What is behind the clock has been lived, in detail or as a period.
Lived(i) == \/ i \in Index /\ phase[i] = "completed"
            \/ \E p \in ticked : p.start <= i /\ i < p.end

Alone == macro.pc = "idle" \/ detail.pc = "idle"

\* A period is passed from its start, or was passed before.
InPlace == macro.pc \in {"break", "interrupt", "tick"} =>
    clock = macro.period.start \/ clock = macro.period.end

FollowsOn == detail.pc # "idle" => clock + 1 = detail.index \/ clock = detail.index

Led == detail.pc \in {"read", "tick"} => detail.index <= 1 \/ Lived(detail.index - 1)

Behind == \A i \in 1..(clock - 1) : Lived(i)

ClockInv == ~overlapped => Alone /\ InPlace /\ FollowsOn /\ Led /\ Behind

\* The parents of whoever was born were born.
Kin(h) == \A p \in Persons : h.life[p] # "unborn" => ~Orphan(h, p)

Pending == {s \in Schedules : status[s] = "pending"}

\* What the family's dates are, to the schedules R that are still to come.
HouseDated(h, R) ==
    /\ \A s \in R, p \in Persons :
          Schedule[s].kind = "birth" /\ h.life[p] = "dead" => h.died[p] < Schedule[s].due
    /\ \A slot \in Slots : \A k \in DOMAIN h.focus[slot] :
          /\ \A s \in R : Schedule[s].kind = "death" => h.focus[slot][k].effective < Schedule[s].due
          /\ \A j \in DOMAIN h.focus[slot] :
                j # k => h.focus[slot][j].effective # h.focus[slot][k].effective

HouseInv(h, R) == h \in House /\ Kin(h) /\ HouseDated(h, R) /\ Passed(h)

\* The schedules that a call is about to fire are in order, and ahead of all
\* others that are pending.
DueInOrder(seq) ==
    /\ seq \in Seq(Schedules)
    /\ \A j, k \in DOMAIN seq : j < k => Schedule[seq[j]].due <= Schedule[seq[k]].due /\ seq[j] # seq[k]
    /\ \A s \in Pending, k \in DOMAIN seq :
          s \notin {seq[j] : j \in DOMAIN seq} => Schedule[seq[k]].due < Schedule[s].due

LineInv ==
    /\ assigned \in Nat /\ (assigned = 0 => HouseInv(house, Pending))
    /\ macro.pc = "fire" => DueInOrder(macro.due)

-----------------------------------------------------------------------------
(* Periods                                                                 *)

LEMMA Longer ==
    \A a, b, c \in Nat : b # 0 /\ c # 0 => a * c \in Nat /\ (a + b) * c \in Nat /\ a * c < (a + b) * c
  <1> SUFFICES ASSUME NEW a \in Nat, NEW b \in Nat, NEW c \in Nat, b # 0, c # 0
               PROVE  a * c \in Nat /\ (a + b) * c \in Nat /\ a * c < (a + b) * c
    OBVIOUS
  <1>1. a * c \in Nat /\ b * c \in Nat /\ b * c > 0
    OBVIOUS
  <1>2. (a + b) * c = a * c + b * c
    OBVIOUS
  <1>3. QED
    BY <1>1, <1>2

\* A period has a phase at least.
LEMMA PeriodBounds ==
    ASSUME NEW p \in Periods
    PROVE  p.start \in Nat /\ p.end \in Nat /\ p.start < p.end
  <1>1. PICK day \in 1..Days, days \in Resolutions : p = PeriodOf(day, days)
    BY DEF Periods
  <1> DEFINE first == ((day - 1) \div days) * days
  <1>2. day - 1 \in Nat /\ days \in Nat /\ days # 0 /\ PhasesPerDay \in Nat /\ PhasesPerDay # 0
    BY MacroAssumption
  <1>3. (day - 1) \div days \in Nat
    BY <1>2
  <1>4. first \in Nat
    BY <1>2, <1>3
  <1> HIDE DEF first
  <1>5. first * PhasesPerDay \in Nat /\ (first + days) * PhasesPerDay \in Nat
        /\ first * PhasesPerDay < (first + days) * PhasesPerDay
    BY <1>2, <1>4, Longer
  <1>6. p.start = first * PhasesPerDay /\ p.end = (first + days) * PhasesPerDay
    BY <1>1 DEF PeriodOf, first
  <1>7. QED
    BY <1>5, <1>6

-----------------------------------------------------------------------------
(* Types                                                                   *)

LEMMA InitType == Init => TypeInv
  <1> SUFFICES ASSUME Init PROVE TypeInv
    OBVIOUS
  <1>1. overlapped \in BOOLEAN
    BY Zenon DEF Init
  <1>2. QED
    BY <1>1 DEF Init, TypeInv, NoCall, NoPhase, RunState

\* The schedules' rows, whoever fires them.
LEMMA FiredType ==
    ASSUME status \in [Schedules -> {"pending", "applied", "cancelled"}], NEW S, NEW by, Fired(S, by)
    PROVE  status' \in [Schedules -> {"pending", "applied", "cancelled"}]
  BY DEF Fired

\* A period whose schedules were fired goes on, or its call ends.
LEMMA FireDueGoes ==
    ASSUME TypeInv, NEW newest, FireDue(newest)
    PROVE  /\ DOMAIN macro' = {"pc", "period", "version", "at", "due", "fired"}
           /\ macro.pc = "fire" /\ macro'.pc \in {"idle", "finish"}
           /\ macro'.pc # "idle" => macro'.period = macro.period
  <1>1. macro.pc = "fire"
    BY DEF FireDue
  <1>2. CASE Ends
    BY <1>1, <1>2 DEF Ends, NoCall
  <1>3. ASSUME NEW due, macro' = [macro EXCEPT !.pc = "finish", !.fired = due, !.due = <<>>]
        PROVE  DOMAIN macro' = DOMAIN macro /\ macro'.pc = "finish" /\ macro'.period = macro.period
    BY <1>3 DEF TypeInv
  <1>4. Ends \/ \E due : macro' = [macro EXCEPT !.pc = "finish", !.fired = due, !.due = <<>>]
    BY DEF FireDue
  <1>5. QED
    BY <1>1, <1>2, <1>3, <1>4 DEF TypeInv

LEMMA MacroType ==
    ASSUME TypeInv, MacroStep \/ MacroDies \/ \E p \in Periods : RequestMacro(p)
    PROVE  TypeInv'
  <1>1. ASSUME NEW p \in Periods, RequestMacro(p) PROVE TypeInv'
    <2>1. overlapped' \in BOOLEAN
      BY <1>1, Zenon DEF RequestMacro
    <2>2. /\ DOMAIN macro' = {"pc", "period", "version", "at", "due", "fired"}
          /\ macro'.pc = "open" /\ macro'.period = p
      BY <1>1 DEF RequestMacro, NoCall
    <2>3. UNCHANGED <<clock, version, run, ticked, phase, status, detail>>
      BY <1>1 DEF RequestMacro, time, rows, canon
    <2>4. QED
      BY <2>1, <2>2, <2>3 DEF TypeInv
  <1>2. CASE OpenRun
    BY <1>2 DEF OpenRun, SaveRun, TypeInv, NoCall, RunState, time, canon, bounds
  <1>3. CASE CheckBreak
    BY <1>3 DEF CheckBreak, TypeInv, time, rows, canon, bounds
  <1>4. CASE Interrupt
    BY <1>4 DEF Interrupt, Ends, SaveRun, TypeInv, NoCall, RunState, time, canon, bounds
  <1>5. CASE CommitClock
    <2>1. macro.period \in Periods /\ macro.period.end \in Nat
      BY <1>5, PeriodBounds DEF CommitClock, TypeInv
    <2>2. QED
      BY <1>5, <2>1 DEF CommitClock, Ends, TypeInv, NoCall, time, rows, canon, bounds
  <1>6. CASE ReadDue
    BY <1>6 DEF ReadDue, TypeInv, time, rows, canon, bounds
  <1>7. ASSUME NEW newest \in BOOLEAN, FireDue(newest) PROVE TypeInv'
    <2>1. status' \in [Schedules -> {"pending", "applied", "cancelled"}]
      BY <1>7, FiredType DEF FireDue, TypeInv
    <2>2. QED
      BY <1>7, <2>1, FireDueGoes DEF FireDue, TypeInv, time, rows, bounds
  <1>8. CASE FinishRun
    BY <1>8 DEF FinishRun, Ends, SaveRun, TypeInv, NoCall, RunState, time, canon, bounds
  <1>9. CASE MacroDies
    BY <1>9 DEF MacroDies, Ends, Disturbance, TypeInv, NoCall, time, rows, canon
  <1>10. QED
    BY <1>1, <1>2, <1>3, <1>4, <1>5, <1>6, <1>7, <1>8, <1>9 DEF MacroStep

\* So does a phase whose schedules were fired.
LEMMA FirePhaseGoes ==
    ASSUME TypeInv, FirePhase
    PROVE  /\ DOMAIN detail' = {"pc", "index", "version", "due"}
           /\ detail.pc = "fire" /\ detail'.pc \in {"idle", "work"}
           /\ detail'.pc # "idle" => detail'.index = detail.index
  <1>1. CASE detail' = NoPhase
    BY <1>1 DEF FirePhase, NoPhase
  <1>2. CASE detail' = [detail EXCEPT !.pc = "work", !.due = {}]
    <2>1. DOMAIN detail' = DOMAIN detail /\ detail'.pc = "work" /\ detail'.index = detail.index
      BY <1>2 DEF TypeInv
    <2>2. detail.pc = "fire"
      BY DEF FirePhase
    <2>3. QED
      BY <2>1, <2>2 DEF TypeInv
  <1>3. QED
    BY <1>1, <1>2 DEF FirePhase

LEMMA PhaseType ==
    ASSUME TypeInv, PhaseStep \/ PhaseDies \/ \E i \in Index : RequestPhase(i)
    PROVE  TypeInv'
  <1>1. ASSUME NEW i \in Index, RequestPhase(i) PROVE TypeInv'
    <2>1. overlapped' \in BOOLEAN
      BY <1>1, Zenon DEF RequestPhase
    <2>2. QED
      BY <1>1, <2>1 DEF RequestPhase, TypeInv, NoPhase, time, rows, canon
  <1>2. CASE RequirePrevious
    BY <1>2 DEF RequirePrevious, TypeInv, NoPhase, time, rows, canon, bounds
  <1>3. CASE ReadClock
    BY <1>3 DEF ReadClock, TypeInv, time, rows, canon, bounds
  <1>4. CASE TickPhase
    BY <1>4 DEF TickPhase, TypeInv, NoPhase, time, rows, canon, bounds, Index
  <1>5. CASE ReadPhaseDue
    BY <1>5 DEF ReadPhaseDue, TypeInv, time, rows, canon, bounds
  <1>6. CASE FirePhase
    <2>1. status' \in [Schedules -> {"pending", "applied", "cancelled"}]
      BY <1>6, FiredType DEF FirePhase, TypeInv
    <2>2. QED
      BY <1>6, <2>1, FirePhaseGoes DEF FirePhase, TypeInv, time, rows, bounds
  <1>7. CASE CompletePhase
    BY <1>7 DEF CompletePhase, TypeInv, NoPhase, time, rows, canon, bounds
  <1>8. CASE PhaseDies
    BY <1>8 DEF PhaseDies, Disturbance, TypeInv, NoPhase, time, rows, canon
  <1>9. QED
    BY <1>1, <1>2, <1>3, <1>4, <1>5, <1>6, <1>7, <1>8 DEF PhaseStep

\* What cancellations and assignments leave alone.
Aside == UNCHANGED <<time, rows, phase, macro, detail, overlapped>>

LEMMA StepsAside ==
    ASSUME Next
    PROVE  \/ \E p \in Periods : RequestMacro(p)
           \/ MacroStep \/ MacroDies
           \/ \E i \in Index : RequestPhase(i)
           \/ PhaseStep \/ PhaseDies
           \/ Aside /\ (UNCHANGED <<status, fired>> \/ \E s \in Schedules : CancelLands(s))
  BY DEF Next, Cancel, CancelLands, Assign, Disturbance, Aside, bounds

LEMMA TypeStep ==
    ASSUME TypeInv, [Next]_vars
    PROVE  TypeInv'
  <1>1. CASE UNCHANGED vars
    BY <1>1 DEF TypeInv, vars, time, rows, canon, bounds
  <1>2. CASE Aside /\ (UNCHANGED <<status, fired>> \/ \E s \in Schedules : CancelLands(s))
    <2>1. status' \in [Schedules -> {"pending", "applied", "cancelled"}]
      BY <1>2 DEF CancelLands, TypeInv
    <2>2. QED
      BY <1>2, <2>1 DEF Aside, TypeInv, time, rows
  <1>3. QED
    BY <1>1, <1>2, StepsAside, MacroType, PhaseType

LEMMA Typed == Spec => []TypeInv
  <1>1. TypeInv /\ [Next]_vars => TypeInv'
    BY TypeStep
  <1>2. QED
    BY <1>1, InitType, PTL DEF Spec

-----------------------------------------------------------------------------
(* Schedules fire once                                                     *)

LEMMA FiredOnce ==
    ASSUME FiresOnce, NEW S, NEW by, \A s \in S : Unfired(s), Fired(S, by)
    PROVE  FiresOnce'
  <1> SUFFICES ASSUME NEW s \in Schedules
               PROVE  /\ Cardinality(fired'[s]) <= 1
                      /\ status'[s] = "pending" => fired'[s] = {}
                      /\ status'[s] = "applied" => fired'[s] # {}
    BY DEF FiresOnce
  <1>1. CASE s \in S
    <2>1. fired'[s] = {by} /\ status'[s] = "applied"
      BY <1>1 DEF Fired, Unfired
    <2>2. QED
      BY <2>1, FS_Singleton
  <1>2. CASE s \notin S
    BY <1>2 DEF Fired, FiresOnce
  <1>3. QED
    BY <1>1, <1>2

LEMMA FiresOnceStep ==
    ASSUME TypeInv, FiresOnce, [Next]_vars
    PROVE  FiresOnce'
  <1>1. CASE UNCHANGED <<status, fired>>
    BY <1>1 DEF FiresOnce
  <1>2. ASSUME NEW s \in Schedules, CancelLands(s) PROVE FiresOnce'
    BY <1>2 DEF CancelLands, FiresOnce, TypeInv
  <1>3. ASSUME NEW newest \in BOOLEAN, FireDue(newest) PROVE FiresOnce'
    BY <1>1, <1>3, FiredOnce DEF FireDue
  <1>4. CASE FirePhase
    BY <1>1, <1>4, FiredOnce DEF FirePhase
  <1>5. UNCHANGED canon => UNCHANGED <<status, fired>>
    BY DEF canon
  <1>6. CASE UNCHANGED vars
    BY <1>1, <1>5, <1>6 DEF vars
  <1>7. CASE MacroStep \/ MacroDies \/ \E p \in Periods : RequestMacro(p)
    BY <1>1, <1>3, <1>5, <1>7 DEF MacroStep, MacroDies, RequestMacro, OpenRun, CheckBreak, Interrupt,
       CommitClock, ReadDue, FinishRun
  <1>8. CASE PhaseStep \/ PhaseDies \/ \E i \in Index : RequestPhase(i)
    BY <1>1, <1>4, <1>5, <1>8 DEF PhaseStep, PhaseDies, RequestPhase, RequirePrevious, ReadClock,
       TickPhase, ReadPhaseDue, CompletePhase
  <1>9. QED
    BY <1>1, <1>2, <1>6, <1>7, <1>8, StepsAside

LEMMA InitFires == Init => FiresOnce
  BY FS_EmptySet DEF Init, FiresOnce

\* "applied rows never refire" (macro/engine.py, _fire_due_schedules): periods and
\* phases, which may run at once, fire a schedule once between them, and one that
\* was cancelled in time not at all, wherever a call dies.
THEOREM FiresOnceHolds == Spec => []FiresOnce
  <1>1. TypeInv /\ FiresOnce /\ [Next]_vars => FiresOnce'
    BY FiresOnceStep
  <1>2. QED
    BY <1>1, InitFires, Typed, PTL DEF Spec

-----------------------------------------------------------------------------
(* The clock                                                               *)

LEMMA TickStep ==
    ASSUME TypeInv, TickInv, [Next]_vars
    PROVE  TickInv' /\ ticked \subseteq ticked'
  <1>1. CASE UNCHANGED <<time, run, macro>>
    BY <1>1 DEF TickInv, time
  <1>2. UNCHANGED vars \/ Aside => UNCHANGED <<time, run, macro>>
    BY DEF vars, Aside, rows
  <1>3. ASSUME NEW p \in Periods, RequestMacro(p) PROVE TickInv' /\ ticked \subseteq ticked'
    BY <1>3 DEF RequestMacro, TypeInv, TickInv, NoCall, time, rows
  <1>4. CASE OpenRun
    BY <1>4 DEF OpenRun, SaveRun, TypeInv, TickInv, NoCall, time
  <1>5. CASE CheckBreak \/ ReadDue \/ MacroDies
    <2>1. CASE CheckBreak
      BY <2>1 DEF CheckBreak, TypeInv, TickInv, time, rows
    <2>2. CASE ReadDue
      BY <2>2 DEF ReadDue, TypeInv, TickInv, time, rows
    <2>3. CASE MacroDies
      BY <2>3 DEF MacroDies, Ends, TickInv, NoCall, time, rows
    <2>4. QED
      BY <1>5, <2>1, <2>2, <2>3
  <1>6. CASE Interrupt
    BY <1>6 DEF Interrupt, Ends, SaveRun, TypeInv, TickInv, NoCall, time
  <1>7. CASE CommitClock
    BY <1>7 DEF CommitClock, Ends, TypeInv, TickInv, NoCall, time, rows
  <1>8. ASSUME NEW newest \in BOOLEAN, FireDue(newest) PROVE TickInv' /\ ticked \subseteq ticked'
    BY <1>8, FireDueGoes DEF FireDue, TickInv, time, rows
  <1>9. CASE FinishRun
    BY <1>9 DEF FinishRun, Ends, SaveRun, TypeInv, TickInv, NoCall, time
  <1>10. CASE PhaseStep \/ PhaseDies \/ \E i \in Index : RequestPhase(i)
    <2>1. UNCHANGED <<ticked, run, macro>>
      BY <1>10 DEF PhaseStep, PhaseDies, RequestPhase, RequirePrevious, ReadClock, TickPhase,
         ReadPhaseDue, FirePhase, CompletePhase, time, rows
    <2>2. QED
      BY <2>1 DEF TickInv
  <1>11. QED
    BY <1>1, <1>2, <1>3, <1>4, <1>5, <1>6, <1>7, <1>8, <1>9, <1>10, StepsAside DEF MacroStep

\* What was lived stays so.
LEMMA StaysLived ==
    ASSUME TypeInv, TickInv, [Next]_vars, NEW i, Lived(i)
    PROVE  Lived(i)'
  <1>1. ticked \subseteq ticked'
    BY TickStep
  <1>2. i \in Index /\ phase[i] = "completed" => phase'[i] = "completed"
    <2>1. CASE UNCHANGED phase
      BY <2>1
    <2>2. ASSUME NEW j \in Index, RequestPhase(j), i \in Index, phase[i] = "completed"
          PROVE  phase'[i] = "completed"
      BY <2>2 DEF RequestPhase, TypeInv
    <2>3. CASE CompletePhase
      BY <2>3 DEF CompletePhase, TypeInv
    <2>4. CASE MacroStep \/ MacroDies \/ \E p \in Periods : RequestMacro(p)
      BY <2>1, <2>4 DEF MacroStep, MacroDies, RequestMacro, OpenRun, CheckBreak, Interrupt,
         CommitClock, ReadDue, FireDue, FinishRun
    <2>5. CASE PhaseStep \/ PhaseDies
      BY <2>1, <2>3, <2>5 DEF PhaseStep, PhaseDies, RequirePrevious, ReadClock, TickPhase,
         ReadPhaseDue, FirePhase
    <2>6. QED
      BY <2>1, <2>2, <2>4, <2>5, StepsAside DEF Aside, vars
  <1>3. QED
    BY <1>1, <1>2 DEF Lived

\* A step that moves neither the clock nor the calls but forward.
LEMMA BehindStays ==
    ASSUME TypeInv, TickInv, Behind, [Next]_vars, clock' = clock
    PROVE  Behind'
  BY StaysLived DEF Behind

LEMMA OverlapStays ==
    ASSUME [Next]_vars, overlapped
    PROVE  overlapped'
  <1>1. CASE UNCHANGED overlapped
    BY <1>1
  <1>2. ASSUME NEW p \in Periods, RequestMacro(p) PROVE overlapped'
    BY <1>2, Zenon DEF RequestMacro
  <1>3. ASSUME NEW i \in Index, RequestPhase(i) PROVE overlapped'
    BY <1>3, Zenon DEF RequestPhase
  <1>4. MacroStep \/ MacroDies => UNCHANGED overlapped
    BY DEF MacroStep, MacroDies, Disturbance, OpenRun, CheckBreak, Interrupt, CommitClock, ReadDue,
       FireDue, FinishRun, bounds
  <1>5. PhaseStep \/ PhaseDies => UNCHANGED overlapped
    BY DEF PhaseStep, PhaseDies, Disturbance, RequirePrevious, ReadClock, TickPhase, ReadPhaseDue,
       FirePhase, CompletePhase, bounds
  <1>6. UNCHANGED vars => UNCHANGED overlapped
    BY DEF vars, bounds
  <1>7. QED
    BY <1>1, <1>2, <1>3, <1>4, <1>5, <1>6, StepsAside DEF Aside

\* The clock, where only a period's command or a phase's moves it.
LEMMA ClockMoves ==
    ASSUME [Next]_vars, ~CommitClock, ~TickPhase
    PROVE  clock' = clock
  <1>1. MacroStep \/ MacroDies \/ (\E p \in Periods : RequestMacro(p)) => clock' = clock
    BY DEF MacroStep, MacroDies, RequestMacro, OpenRun, CheckBreak, Interrupt, ReadDue, FireDue,
       FinishRun, time
  <1>2. PhaseStep \/ PhaseDies \/ (\E i \in Index : RequestPhase(i)) => clock' = clock
    BY DEF PhaseStep, PhaseDies, RequestPhase, RequirePrevious, ReadClock, ReadPhaseDue, FirePhase,
       CompletePhase, time
  <1>3. QED
    BY <1>1, <1>2, StepsAside DEF Aside, vars, time

-----------------------------------------------------------------------------
(* The steps of a period                                                   *)

\* Where a step leaves the macro call.
LEMMA MacroGoes ==
    ASSUME TypeInv, MacroStep \/ MacroDies
    PROVE  /\ macro.pc # "idle" /\ detail' = detail
           /\ macro'.pc \in {"break", "interrupt", "tick"} =>
                 \/ macro'.period = macro.period /\ macro.pc \in {"break", "interrupt", "tick"} /\ clock' = clock
                 \/ macro'.period = macro.period /\ clock' = clock
                    /\ (clock = macro.period.start \/ clock = macro.period.end)
  <1>1. macro.pc # "idle" /\ detail' = detail
    BY DEF MacroStep, MacroDies, OpenRun, CheckBreak, Interrupt, CommitClock, ReadDue, FireDue, FinishRun
  <1> DEFINE Kept == macro'.pc \in {"break", "interrupt", "tick"} =>
                 \/ macro'.period = macro.period /\ macro.pc \in {"break", "interrupt", "tick"} /\ clock' = clock
                 \/ macro'.period = macro.period /\ clock' = clock
                    /\ (clock = macro.period.start \/ clock = macro.period.end)
  <1>2. CASE OpenRun
    BY <1>2 DEF OpenRun, Ready, NoCall, TypeInv, time
  <1>3. CASE CheckBreak
    BY <1>3 DEF CheckBreak, TypeInv, time
  <1>4. CASE Interrupt \/ FinishRun \/ MacroDies
    BY <1>4 DEF Interrupt, FinishRun, MacroDies, Ends, NoCall
  <1>5. CASE CommitClock
    BY <1>5 DEF CommitClock, Ends, NoCall, TypeInv
  <1>6. CASE ReadDue
    BY <1>6 DEF ReadDue, TypeInv
  <1>7. ASSUME NEW newest \in BOOLEAN, FireDue(newest) PROVE Kept
    BY <1>7, FireDueGoes
  <1>8. QED
    BY <1>1, <1>2, <1>3, <1>4, <1>5, <1>6, <1>7 DEF MacroStep

\* The clock command of a period that begins where the world stands, or ends there.
LEMMA CommitLives ==
    ASSUME TypeInv, TickInv, InPlace, Behind, [Next]_vars, CommitClock
    PROVE  Behind' /\ clock' >= clock
  <1>1. CASE clock' = clock
    BY <1>1, BehindStays DEF TypeInv
  <1>2. CASE clock' # clock
    <2>1. /\ macro.pc = "tick" /\ clock' = macro.period.end
          /\ ticked' = ticked \cup {macro.period}
      BY <1>2 DEF CommitClock, time
    <2>2. PICK p \in Periods : p = macro.period
      BY <2>1 DEF TypeInv
    <2>3. p.start \in Nat /\ p.end \in Nat /\ p.start < p.end /\ clock \in Nat
      BY PeriodBounds DEF TypeInv
    <2>4. clock = p.start \/ clock = p.end
      BY <2>1, <2>2 DEF InPlace
    <2>5. clock = p.start /\ clock' = p.end /\ p \in ticked'
      BY <1>2, <2>1, <2>2, <2>4
    <2>6. ASSUME NEW i \in 1..(p.end - 1) PROVE Lived(i)'
      <3>1. CASE i < p.start
        BY <2>3, <2>5, <3>1, StaysLived DEF Behind
      <3>2. CASE p.start <= i
        BY <2>3, <2>5, <3>2 DEF Lived
      <3>3. QED
        BY <2>3, <3>1, <3>2
    <2>7. QED
      BY <2>3, <2>5, <2>6 DEF Behind
  <1>3. QED
    BY <1>1, <1>2

-----------------------------------------------------------------------------
(* The steps of a phase                                                    *)

LEMMA PhaseGoes ==
    ASSUME TypeInv, PhaseStep \/ PhaseDies
    PROVE  /\ detail.pc # "idle" /\ macro' = macro
           /\ detail'.pc # "idle" => detail'.index = detail.index
  <1>1. CASE RequirePrevious
    BY <1>1 DEF RequirePrevious, NoPhase, TypeInv
  <1>2. CASE ReadClock
    BY <1>2 DEF ReadClock, TypeInv
  <1>3. CASE TickPhase
    BY <1>3 DEF TickPhase, NoPhase, TypeInv
  <1>4. CASE ReadPhaseDue
    BY <1>4 DEF ReadPhaseDue, TypeInv
  <1>5. FirePhase => detail.pc = "fire" /\ macro' = macro
    BY DEF FirePhase
  <1>6. CASE CompletePhase \/ PhaseDies
    BY <1>6 DEF CompletePhase, PhaseDies, NoPhase
  <1>7. QED
    BY <1>1, <1>2, <1>3, <1>4, <1>5, <1>6, FirePhaseGoes DEF PhaseStep

\* A phase that goes ahead has its predecessor behind it, lived.
LEMMA LedStep ==
    ASSUME TypeInv, TickInv, Led, [Next]_vars, PhaseStep \/ PhaseDies
    PROVE  Led'
  <1> USE DEF Led
  <1>1. CASE RequirePrevious
    <2>1. PICK i \in Index : i = detail.index
      BY <1>1 DEF RequirePrevious, TypeInv
    <2>2. CASE i <= 1
      BY <1>1, <2>1, <2>2 DEF RequirePrevious, NoPhase, TypeInv
    <2>3. CASE i > 1 /\ (phase[i - 1] = "completed" \/ Covers(i))
      <3>1. i \in Nat /\ i - 1 \in Index
        BY <2>3, MacroAssumption DEF Index
      <3>2. Lived(i - 1)
        <4>1. CASE phase[i - 1] = "completed"
          BY <3>1, <4>1 DEF Lived
        <4>2. CASE Covers(i)
          <5>1. PICK p \in Periods : p.end = i /\ run[p] = "completed"
            BY <4>2 DEF Covers
          <5>2. p \in ticked /\ p.start <= i - 1 /\ i - 1 < p.end
            BY <3>1, <5>1, PeriodBounds DEF TickInv
          <5>3. QED
            BY <5>2 DEF Lived
        <4>3. QED
          BY <2>3, <4>1, <4>2
      <3>3. Lived(i - 1)'
        BY <3>2, StaysLived
      <3>4. detail'.pc # "idle" => detail'.index = i
        BY <1>1, <2>1, PhaseGoes
      <3>5. QED
        BY <3>3, <3>4
    <2>4. CASE ~(i <= 1 \/ phase[i - 1] = "completed" \/ Covers(i))
      BY <1>1, <2>1, <2>4 DEF RequirePrevious, NoPhase
    <2>5. i \in Nat
      BY DEF Index
    <2>6. QED
      BY <2>2, <2>3, <2>4, <2>5
  <1>2. CASE ReadClock
    <2>1. detail.pc = "read" /\ detail'.index = detail.index
      BY <1>2 DEF ReadClock, TypeInv
    <2>2. CASE detail.index <= 1
      BY <2>1, <2>2
    <2>3. CASE Lived(detail.index - 1)
      <3>1. PICK j : j = detail.index - 1
        OBVIOUS
      <3>2. Lived(j)'
        BY <2>3, <3>1, StaysLived
      <3>3. QED
        BY <2>1, <3>1, <3>2
    <2>4. QED
      BY <2>1, <2>2, <2>3
  <1>3. CASE TickPhase \/ ReadPhaseDue \/ FirePhase \/ CompletePhase \/ PhaseDies
    <2>1. detail'.pc \notin {"read", "tick"}
      <3>1. CASE TickPhase
        BY <3>1 DEF TickPhase, NoPhase, TypeInv
      <3>2. CASE ReadPhaseDue
        BY <3>2 DEF ReadPhaseDue, TypeInv
      <3>3. CASE CompletePhase \/ PhaseDies
        BY <3>3 DEF CompletePhase, PhaseDies, NoPhase
      <3>4. QED
        BY <1>3, <3>1, <3>2, <3>3, FirePhaseGoes
    <2>2. QED
      BY <2>1
  <1>4. QED
    BY <1>1, <1>2, <1>3 DEF PhaseStep

\* The clock command of a phase that follows on from the one before.
LEMMA TickLives ==
    ASSUME TypeInv, TickInv, FollowsOn, Led, Behind, [Next]_vars, TickPhase
    PROVE  /\ Behind' /\ clock' >= clock
           /\ clock' = clock \/ clock' = detail.index
  <1>1. CASE clock' = clock
    BY <1>1, BehindStays DEF TypeInv
  <1>2. CASE clock' # clock
    <2>1. detail.pc = "tick" /\ clock' = detail.index
      BY <1>2 DEF TickPhase, time
    <2>2. PICK k \in Index : k = detail.index
      BY <2>1 DEF TypeInv
    <2>3. k \in Nat /\ clock \in Nat /\ clock' = k
      BY <2>1, <2>2 DEF Index, TypeInv
    <2>4. clock + 1 = k
      BY <1>2, <2>1, <2>2, <2>3 DEF FollowsOn
    <2>5. k <= 1 \/ Lived(k - 1)
      BY <2>1, <2>2 DEF Led
    <2>6. ASSUME NEW i \in 1..(k - 1) PROVE Lived(i)'
      <3>1. i \in 1..(clock - 1) \/ i = k - 1
        BY <2>3, <2>4
      <3>2. Lived(i)
        BY <2>3, <2>5, <3>1 DEF Behind
      <3>3. QED
        BY <3>2, StaysLived
    <2>7. QED
      BY <2>1, <2>3, <2>4, <2>6 DEF Behind
  <1>3. QED
    BY <1>1, <1>2

-----------------------------------------------------------------------------
(* History                                                                 *)

\* A period is asked for.
LEMMA RequestMacroStep ==
    ASSUME TypeInv, TickInv, ClockInv, [Next]_vars, ~overlapped', NEW p \in Periods, RequestMacro(p)
    PROVE  ClockInv'
  <1>1. ~overlapped /\ detail.pc = "idle"
    BY Zenon DEF RequestMacro
  <1>2. macro'.pc = "open" /\ UNCHANGED <<clock, detail>>
    BY DEF RequestMacro, NoCall, time
  <1>3. Behind'
    BY <1>1, <1>2, BehindStays DEF ClockInv
  <1>4. QED
    BY <1>1, <1>2, <1>3 DEF ClockInv, Alone, InPlace, FollowsOn, Led

LEMMA RequestPhaseStep ==
    ASSUME TypeInv, TickInv, ClockInv, [Next]_vars, ~overlapped', NEW i \in Index, RequestPhase(i)
    PROVE  ClockInv'
  <1>1. ~overlapped /\ macro.pc = "idle"
    BY Zenon DEF RequestPhase
  <1>2. detail'.pc = "previous" /\ detail'.index = i /\ UNCHANGED <<clock, macro>>
    BY DEF RequestPhase, NoPhase, time
  <1>3. Behind'
    BY <1>1, <1>2, BehindStays DEF ClockInv
  <1>4. clock + 1 = i \/ clock = i
    BY DEF RequestPhase, Consecutive
  <1>5. QED
    BY <1>1, <1>2, <1>3, <1>4 DEF ClockInv, Alone, InPlace, FollowsOn, Led

LEMMA MacroStepKeeps ==
    ASSUME TypeInv, TickInv, ClockInv, [Next]_vars, ~overlapped', MacroStep \/ MacroDies
    PROVE  ClockInv' /\ clock' >= clock
  <1>1. ~overlapped
    BY OverlapStays
  <1>2. macro.pc # "idle" /\ detail' = detail /\ detail.pc = "idle"
    BY <1>1, MacroGoes DEF ClockInv, Alone
  <1>3. ~TickPhase
    BY <1>2 DEF TickPhase
  <1>4. Behind' /\ clock' >= clock
    <2>1. CASE CommitClock
      BY <1>1, <2>1, CommitLives DEF ClockInv
    <2>2. CASE ~CommitClock
      BY <1>1, <1>3, <2>2, ClockMoves, BehindStays DEF ClockInv, TypeInv
    <2>3. QED
      BY <2>1, <2>2
  <1>5. InPlace'
    BY <1>1, MacroGoes DEF ClockInv, InPlace
  <1>6. QED
    BY <1>2, <1>4, <1>5 DEF ClockInv, Alone, FollowsOn, Led

LEMMA PhaseStepKeeps ==
    ASSUME TypeInv, TickInv, ClockInv, [Next]_vars, ~overlapped', PhaseStep \/ PhaseDies
    PROVE  ClockInv' /\ clock' >= clock
  <1>1. ~overlapped /\ Alone /\ FollowsOn /\ Led /\ Behind
    BY OverlapStays DEF ClockInv
  <1>2. macro' = macro /\ macro.pc = "idle" /\ detail.pc # "idle"
        /\ (detail'.pc # "idle" => detail'.index = detail.index)
    BY <1>1, PhaseGoes DEF Alone
  <1>3. ~CommitClock
    BY <1>2 DEF CommitClock
  <1>4. Behind' /\ clock' >= clock /\ (clock' = clock \/ clock' = detail.index)
    <2>1. CASE TickPhase
      BY <1>1, <2>1, TickLives
    <2>2. CASE ~TickPhase
      BY <1>1, <1>3, <2>2, ClockMoves, BehindStays DEF TypeInv
    <2>3. QED
      BY <2>1, <2>2
  <1>5. FollowsOn'
    BY <1>1, <1>2, <1>4 DEF FollowsOn
  <1>6. Led'
    BY <1>1, LedStep
  <1>7. QED
    BY <1>2, <1>4, <1>5, <1>6 DEF ClockInv, Alone, InPlace

\* Nothing that runs alone loses its place.
LEMMA ClockStep ==
    ASSUME TypeInv, TickInv, ClockInv, [Next]_vars
    PROVE  ClockInv' /\ (overlapped' \/ clock' >= clock)
  <1>1. CASE overlapped'
    BY <1>1 DEF ClockInv
  <1>2. CASE ~overlapped' /\ UNCHANGED <<clock, macro, detail>>
    <2>1. ~overlapped /\ ClockInv /\ clock \in Nat
      BY <1>2, OverlapStays DEF TypeInv
    <2>2. Behind'
      BY <1>2, <2>1, BehindStays DEF ClockInv
    <2>3. Led'
      <3>1. CASE detail.pc \in {"read", "tick"} /\ Lived(detail.index - 1)
        <4>1. PICK j : j = detail.index - 1
          OBVIOUS
        <4>2. Lived(j)'
          BY <3>1, <4>1, StaysLived
        <4>3. QED
          BY <1>2, <4>1, <4>2 DEF Led
      <3>2. QED
        BY <1>2, <2>1, <3>1 DEF ClockInv, Led
    <2>4. QED
      BY <1>2, <2>1, <2>2, <2>3 DEF ClockInv, Alone, InPlace, FollowsOn
  <1>3. UNCHANGED vars \/ Aside => UNCHANGED <<clock, macro, detail>>
    BY DEF vars, Aside, time
  <1>4. ASSUME NEW p \in Periods, RequestMacro(p), ~overlapped' PROVE ClockInv' /\ clock' >= clock
    <2>1. clock' = clock /\ clock \in Nat
      BY <1>4 DEF RequestMacro, time, TypeInv
    <2>2. QED
      BY <1>4, <2>1, RequestMacroStep
  <1>5. ASSUME NEW i \in Index, RequestPhase(i), ~overlapped' PROVE ClockInv' /\ clock' >= clock
    <2>1. clock' = clock /\ clock \in Nat
      BY <1>5 DEF RequestPhase, time, TypeInv
    <2>2. QED
      BY <1>5, <2>1, RequestPhaseStep
  <1>6. QED
    BY <1>1, <1>2, <1>3, <1>4, <1>5, MacroStepKeeps, PhaseStepKeeps, StepsAside

LEMMA InitClock == Init => TickInv /\ ClockInv
  <1> SUFFICES ASSUME Init PROVE TickInv /\ ClockInv
    OBVIOUS
  <1>1. macro.pc = "idle" /\ detail.pc = "idle" /\ clock = 0 /\ run = [p \in Periods |-> "absent"]
    BY DEF Init, NoCall, NoPhase
  <1>2. 1..(clock - 1) = {}
    BY <1>1
  <1>3. QED
    BY <1>1, <1>2 DEF TickInv, ClockInv, Alone, InPlace, FollowsOn, Led, Behind

LEMMA ClockHolds == Spec => [](TypeInv /\ TickInv /\ ClockInv)
  <1>1. TypeInv /\ TickInv /\ ClockInv /\ [Next]_vars => TickInv' /\ ClockInv'
    BY TickStep, ClockStep
  <1>2. QED
    BY <1>1, InitClock, Typed, PTL DEF Spec

\* The days behind the clock were lived, in detail or as a period whose clock
\* command is committed, and what was due in them came about once (macro/engine.py,
\* advance_period; _require_previous_complete of the phases), whatever dies.
THEOREM HistoryIsWholeHolds == Spec => []HistoryIsWhole
  <1>1. ClockInv => NothingSkipped
    BY DEF ClockInv, Behind, Lived, NothingSkipped
  <1>2. QED
    BY <1>1, ClockHolds, FiresOnceHolds, PTL DEF HistoryIsWhole

\* Calls that do not overlap never set the clock back (macro/engine.py,
\* _commit_clock, and the tick of a phase, which sets it from wherever it is).
THEOREM ClockForwardHolds == Spec => ClockForward
  <1>1. TypeInv /\ TickInv /\ ClockInv /\ [Next]_vars => [overlapped' \/ clock' >= clock]_vars
    BY ClockStep
  <1>2. QED
    BY <1>1, ClockHolds, PTL DEF Spec, ClockForward

-----------------------------------------------------------------------------
(* Numbers                                                                 *)

LEMMA LeastOf ==
    ASSUME NEW T \in SUBSET Nat, T # {}
    PROVE  Min(T) \in T /\ \A y \in T : Min(T) <= y
  <1> DEFINE Less == {p \in Nat \X Nat : p[1] < p[2]}
  <1>1. IsWellFoundedOn(Less, Nat)
    BY NatLessThanWellFounded DEF OpToRel
  <1>2. PICK x \in T : \A y \in T : ~(<<y, x>> \in Less)
    BY <1>1, WFMin
  <1>3. ASSUME NEW y \in T PROVE x <= y
    <2>1. <<y, x>> \in Nat \X Nat /\ <<y, x>>[1] = y /\ <<y, x>>[2] = x
      OBVIOUS
    <2>2. ~(y < x)
      BY <1>2, <2>1
    <2>3. QED
      BY <2>2
  <1>4. QED
    BY <1>3 DEF Min

LEMMA GreatestOf ==
    ASSUME NEW n \in Nat, NEW T \in SUBSET (0..n), T # {}
    PROVE  Max(T) \in T /\ \A y \in T : Max(T) >= y
  <1> DEFINE U == {n - t : t \in T}
  <1>1. U \in SUBSET Nat /\ U # {}
    <2>1. \A t \in T : n - t \in Nat
      OBVIOUS
    <2>2. QED
      BY <2>1
  <1>2. Min(U) \in U /\ \A y \in U : Min(U) <= y
    <2> HIDE DEF U
    <2>1. QED
      BY <1>1, LeastOf
  <1>3. PICK x \in T : Min(U) = n - x
    BY <1>2
  <1>4. ASSUME NEW y \in T PROVE x >= y
    <2>1. n - x <= n - y
      BY <1>2, <1>3
    <2>2. x \in Int /\ y \in Int
      OBVIOUS
    <2>3. QED
      BY <2>1, <2>2
  <1>5. QED
    BY <1>4 DEF Max

\* What is so at 0 and stays so from each number to the next is so up to n.
LEMMA Climb ==
    ASSUME NEW n \in Nat, NEW S, 0 \in S, \A m \in 1..n : m - 1 \in S => m \in S
    PROVE  0..n \subseteq S
  <1> DEFINE Bad == {m \in 0..n : m \notin S}
  <1>1. ASSUME Bad # {} PROVE FALSE
    <2>1. Bad \in SUBSET Nat
      OBVIOUS
    <2>2. PICK m \in Bad : \A j \in Bad : m <= j
      <3> HIDE DEF Bad
      <3>1. QED
        BY <1>1, <2>1, LeastOf
    <2>3. m \in 1..n /\ m \notin S
      OBVIOUS
    <2>4. m - 1 \in 0..n /\ m - 1 < m
      BY <2>3
    <2>5. m - 1 \in S
      BY <2>2, <2>4
    <2>6. QED
      BY <2>3, <2>5
  <1>2. QED
    BY <1>1

-----------------------------------------------------------------------------
(* Lines of descent                                                        *)

\* The parent by whom a line comes to its k-th member.
Forebear(p, line, k) == IF k = 1 THEN p ELSE line[k - 1]

IsLine(p, S, line, n) ==
    line \in [1..n -> S] /\ \A k \in 1..n : Forebear(p, line, k) \in Parents[line[k]]

LEMMA LineOf ==
    ASSUME NEW p, NEW S, NEW line
    PROVE  line \in Lines(p, S) <=> \E n \in 1..Cardinality(Persons) : IsLine(p, S, line, n)
  BY DEF Lines, IsLine, Forebear

LEMMA EndOf ==
    ASSUME NEW S, NEW n \in Nat \ {0}, NEW line \in [1..n -> S]
    PROVE  Len(line) = n /\ Last(line) = line[n] /\ Last(line) \in S /\ DOMAIN line = 1..n
  <1>1. line \in Seq(S) /\ DOMAIN line = 1..n
    OBVIOUS
  <1>2. Len(line) = n
    BY <1>1
  <1>3. QED
    BY <1>2 DEF Last

LEMMA PersonsCounted == Cardinality(Persons) \in Nat
  BY FS_CardinalityType, GenealogyAssumption

\* Whoever is in the line of somebody who was born was born, too.
LEMMA BornLine ==
    ASSUME NEW h \in House, Kin(h), NEW p \in Persons, NEW line \in Lines(p, Recorded),
           h.life[Last(line)] # "unborn"
    PROVE  line \in Lines(p, Linked(h))
  <1>1. PICK n \in 1..Cardinality(Persons) : IsLine(p, Recorded, line, n)
    BY LineOf
  <1>2. n \in Nat \ {0} /\ line \in [1..n -> Recorded]
    BY <1>1, PersonsCounted DEF IsLine
  <1>3. Last(line) = line[n]
    BY <1>2, EndOf
  <1> DEFINE Lost == {k \in 1..n : h.life[line[k]] = "unborn"}
  <1>4. ASSUME Lost # {} PROVE FALSE
    <2>1. Lost \in SUBSET (0..n)
      BY <1>2
    <2>2. PICK k \in Lost : \A j \in Lost : k >= j
      <3> HIDE DEF Lost
      <3>1. QED
        BY <1>2, <1>4, <2>1, GreatestOf
    <2>3. k \in 1..n /\ h.life[line[k]] = "unborn"
      OBVIOUS
    <2>4. k # n
      BY <1>3, <2>3
    <2>5. k + 1 \in 1..n /\ (k + 1) - 1 = k /\ k + 1 # 1 /\ ~(k >= k + 1)
      BY <1>2, <2>3, <2>4
    <2>6. h.life[line[k + 1]] # "unborn"
      BY <2>2, <2>5
    <2>7. line[k] \in Parents[line[k + 1]]
      BY <1>1, <2>5 DEF IsLine, Forebear
    <2>8. line[k + 1] \in Persons
      BY <1>2, <2>5, GenealogyAssumption
    <2>9. QED
      BY <2>3, <2>6, <2>7, <2>8 DEF Kin, Orphan
  <1>5. \A k \in 1..n : line[k] \in Linked(h)
    BY <1>2, <1>4 DEF Linked
  <1>6. line \in [1..n -> Linked(h)]
    BY <1>2, <1>5
  <1>7. IsLine(p, Linked(h), line, n)
    BY <1>1, <1>6 DEF IsLine
  <1>8. QED
    BY <1>7, LineOf

\* Of lines some are found no later than any other.
LEMMA SoonestLine ==
    ASSUME NEW h \in House, NEW F, F # {},
           \A line \in F : \E n \in Nat \ {0} : line \in [1..n -> Persons]
    PROVE  \E a \in F : \A b \in F : ~Sooner(h, b, a)
  <1> DEFINE lens == {Len(a) : a \in F}
  <1>1. \A a \in F : Len(a) \in Nat \ {0} /\ a \in [1..Len(a) -> Persons] /\ DOMAIN a = 1..Len(a)
    <2>1. SUFFICES ASSUME NEW a \in F
                   PROVE  Len(a) \in Nat \ {0} /\ a \in [1..Len(a) -> Persons] /\ DOMAIN a = 1..Len(a)
      OBVIOUS
    <2>2. PICK n \in Nat \ {0} : a \in [1..n -> Persons]
      OBVIOUS
    <2>3. QED
      BY <2>2, EndOf
  <1>2. PICK n \in lens : \A l \in lens : n <= l
    <2>0. \A a \in F : Len(a) \in Nat
      BY <1>1
    <2>1. lens \in SUBSET Nat /\ lens # {}
      BY <2>0
    <2> HIDE DEF lens
    <2>2. QED
      BY <2>1, LeastOf
  <1>3. n \in Nat \ {0}
    BY <1>1
  <1> DEFINE G == {a \in F : Len(a) = n}
             Beats(b, a, k) == h.born[b[k]] < h.born[a[k]] /\ \A j \in 1..(k - 1) : b[j] = a[j]
             Best(m) == \E a \in G : \A b \in G, k \in 1..m : ~Beats(b, a, k)
             S == {m \in 0..n : Best(m)}
  <1>4. \A a \in G, k \in 1..n : h.born[a[k]] \in Nat
    <2>1. \A p \in Persons : h.born[p] \in Nat
      BY DEF House
    <2>2. \A a \in G : a \in [1..n -> Persons]
      BY <1>1
    <2>3. QED
      BY <2>1, <2>2
  <1>5. 0 \in S
    <2>1. PICK a \in G : TRUE
      OBVIOUS
    <2>2. 1..0 = {}
      OBVIOUS
    <2>3. Best(0)
      BY <2>1, <2>2
    <2>4. QED
      BY <1>3, <2>3
  <1>6. ASSUME NEW m \in 1..n, m - 1 \in S PROVE m \in S
    <2>1. PICK a \in G : \A b \in G, k \in 1..(m - 1) : ~Beats(b, a, k)
      BY <1>6
    <2> DEFINE H == {b \in G : \A j \in 1..(m - 1) : b[j] = a[j]}
               births == {h.born[b[m]] : b \in H}
    <2>2. PICK c \in H : \A b \in H : h.born[c[m]] <= h.born[b[m]]
      <3>1. births \in SUBSET Nat /\ births # {}
        BY <1>4
      <3>2. PICK t \in births : \A u \in births : t <= u
        <4> HIDE DEF births
        <4>1. QED
          BY <3>1, LeastOf
      <3>3. PICK c \in H : t = h.born[c[m]]
        OBVIOUS
      <3>4. \A b \in H : h.born[b[m]] \in births
        OBVIOUS
      <3>5. QED
        BY <3>2, <3>3, <3>4
    <2>3. ASSUME NEW b \in G, NEW k \in 1..m, Beats(b, c, k) PROVE FALSE
      <3>1. CASE k = m
        <4>1. b \in H
          BY <2>3, <3>1
        <4>2. h.born[c[m]] <= h.born[b[m]] /\ h.born[b[m]] < h.born[c[m]]
          BY <2>2, <2>3, <3>1, <4>1
        <4>3. h.born[c[m]] \in Nat /\ h.born[b[m]] \in Nat
          BY <1>4
        <4>4. QED
          BY <4>2, <4>3
      <3>2. CASE k # m
        <4>1. k \in 1..(m - 1) /\ \A j \in 1..(k - 1) : j \in 1..(m - 1)
          BY <3>2
        <4>2. c[k] = a[k] /\ \A j \in 1..(k - 1) : c[j] = a[j]
          BY <4>1
        <4>3. Beats(b, a, k)
          BY <2>3, <4>2
        <4>4. QED
          BY <2>1, <4>1, <4>3
      <3>3. QED
        BY <3>1, <3>2
    <2>4. c \in G
      OBVIOUS
    <2> HIDE DEF Beats, G, H
    <2>5. Best(m)
      BY <2>3, <2>4
    <2>6. QED
      BY <2>5
  <1>7. n \in S
    <2> HIDE DEF S
    <2>1. \A m \in 1..n : m - 1 \in S => m \in S
      BY <1>6
    <2>2. 0..n \subseteq S
      BY <1>3, <1>5, <2>1, Climb
    <2>3. n \in 0..n
      BY <1>3
    <2>4. QED
      BY <2>2, <2>3
  <1>8. PICK a \in G : \A b \in G, k \in 1..n : ~Beats(b, a, k)
    BY <1>7
  <1>9. ASSUME NEW b \in F, Sooner(h, b, a) PROVE FALSE
    <2>1. Len(a) = n /\ n <= Len(b) /\ Len(b) \in Nat
      BY <1>1, <1>2
    <2>2. Len(b) = n /\ b \in G /\ DOMAIN b = 1..n
      BY <1>1, <1>3, <1>9, <2>1 DEF Sooner
    <2>3. \E k \in 1..n : Beats(b, a, k)
      BY <1>9, <2>1, <2>2, <1>3 DEF Sooner
    <2>4. QED
      BY <1>8, <2>2, <2>3
  <1>10. QED
    BY <1>9

\* The search finds somebody if there is anybody to be found, and whom it finds lives.
LEMMA HeirFound ==
    ASSUME NEW h \in House, Kin(h), NEW p \in Persons, NEW c \in Descendants(p) \cap Eligible,
           h.life[c] = "alive"
    PROVE  Heirs(h, p) # {}
  <1>1. PICK line \in Lines(p, Recorded) : c = Last(line)
    BY DEF Descendants
  <1>2. line \in Lines(p, Linked(h))
    BY <1>1, BornLine
  <1> DEFINE fit == {a \in Lines(p, Linked(h)) :
                        Last(a) \in Eligible /\ h.life[Last(a)] = "alive"}
  <1>3. line \in fit
    BY <1>1, <1>2
  <1>4. ASSUME NEW a \in fit PROVE \E n \in Nat \ {0} : a \in [1..n -> Persons]
    <2>1. PICK n \in 1..Cardinality(Persons) : IsLine(p, Linked(h), a, n)
      BY LineOf
    <2>2. n \in Nat \ {0} /\ a \in [1..n -> Persons]
      BY <2>1, PersonsCounted, GenealogyAssumption DEF IsLine, Linked
    <2>3. QED
      BY <2>2
  <1> HIDE DEF fit
  <1>5. PICK a \in fit : \A b \in fit : ~Sooner(h, b, a)
    BY <1>3, <1>4, SoonestLine
  <1>6. Last(a) \in Heirs(h, p)
    BY <1>5 DEF Heirs, fit
  <1>7. QED
    BY <1>6

LEMMA HeirLives ==
    ASSUME NEW h \in House, NEW p \in Persons, NEW c \in Heirs(h, p)
    PROVE  c \in Persons /\ h.life[c] = "alive"
  <1>1. PICK a \in Lines(p, Linked(h)) : c = Last(a) /\ h.life[Last(a)] = "alive"
    BY DEF Heirs
  <1>2. PICK n \in 1..Cardinality(Persons) : IsLine(p, Linked(h), a, n)
    BY LineOf
  <1>3. n \in Nat \ {0} /\ a \in [1..n -> Persons]
    BY <1>2, PersonsCounted, GenealogyAssumption DEF IsLine, Linked
  <1>4. QED
    BY <1>1, <1>3, EndOf

-----------------------------------------------------------------------------
(* Who holds a slot                                                        *)

FocusRow == [to : Persons, effective : Nat]

Apart(list) == \A k, j \in DOMAIN list : j # k => list[j].effective # list[k].effective

\* Of rows with dates of their own one is the latest, however rows are listed.
LEMMA OneHolder ==
    ASSUME NEW list \in Seq(FocusRow), Apart(list), NEW n1 \in BOOLEAN, NEW n2 \in BOOLEAN,
           NEW p \in Holders(list, n1)
    PROVE  p \in Holders(list, n2)
  <1> DEFINE latest == {k \in DOMAIN list : \A j \in DOMAIN list : list[j].effective <= list[k].effective}
  <1>1. PICK k \in latest : p = list[k].to
    BY DEF Holders
  <1>2. ASSUME NEW j \in latest PROVE j = k
    <2>1. list[j] \in FocusRow /\ list[k] \in FocusRow
      OBVIOUS
    <2>2. list[j].effective \in Nat /\ list[k].effective \in Nat
      BY <2>1 DEF FocusRow
    <2>3. list[j].effective = list[k].effective
      BY <2>2
    <2>4. QED
      BY <2>3 DEF Apart
  <1>3. k \in Nat
    OBVIOUS
  <1> HIDE DEF latest
  <1>4. \A j \in latest : IF n2 THEN j <= k ELSE k <= j
    BY <1>2, <1>3
  <1>5. QED
    BY <1>1, <1>4 DEF Holders, latest

\* A row that is dated after all others is the one that counts.
LEMMA NewHolder ==
    ASSUME NEW list \in Seq(FocusRow), Apart(list), NEW row \in FocusRow,
           \A k \in DOMAIN list : list[k].effective < row.effective,
           NEW longer, longer = Append(list, row)
    PROVE  /\ longer \in Seq(FocusRow) /\ Apart(longer)
           /\ \A k \in DOMAIN longer : longer[k].effective <= row.effective
           /\ \A newest \in BOOLEAN : Holders(longer, newest) \subseteq {row.to}
  <1> DEFINE c == row.to
             at == row.effective
  <1>1. row.to = c /\ row.effective = at /\ at \in Nat
    BY DEF FocusRow
  <1>2. longer = Append(list, row)
    OBVIOUS
  <1>0. \A k \in DOMAIN list : list[k].effective < at
    OBVIOUS
  <1> HIDE DEF c, at
  <1>3. Len(list) \in Nat /\ DOMAIN list = 1..Len(list) /\ DOMAIN longer = 1..(Len(list) + 1)
    BY <1>1, <1>2
  <1>4. longer[Len(list) + 1] = row /\ \A k \in DOMAIN list : longer[k] = list[k]
    BY <1>1, <1>2
  <1>5. longer \in Seq(FocusRow)
    BY <1>1, <1>2
  <1>6. \A k \in DOMAIN list : list[k].effective \in Nat
    <2>1. \A k \in DOMAIN list : list[k] \in FocusRow
      OBVIOUS
    <2>2. QED
      BY <2>1 DEF FocusRow
  <1>7. \A k \in DOMAIN longer : k \in DOMAIN list \/ k = Len(list) + 1
    BY <1>3
  <1>8. \A k \in DOMAIN list : longer[k].effective < at
    BY <1>0, <1>4
  <1>9. Apart(longer)
    BY <1>1, <1>4, <1>6, <1>7, <1>8 DEF Apart
  <1>10. \A k \in DOMAIN longer : longer[k].effective <= at
    BY <1>1, <1>4, <1>6, <1>7, <1>8
  <1>11. ASSUME NEW newest \in BOOLEAN, NEW q \in Holders(longer, newest) PROVE q = c
    <2>1. PICK k \in DOMAIN longer :
              q = longer[k].to /\ \A j \in DOMAIN longer : longer[j].effective <= longer[k].effective
      BY DEF Holders
    <2>2. Len(list) + 1 \in DOMAIN longer
      BY <1>3
    <2>3. at <= longer[k].effective
      BY <1>1, <1>4, <2>1, <2>2
    <2>4. k = Len(list) + 1
      BY <1>1, <1>6, <1>4, <1>7, <1>8, <2>3
    <2>5. QED
      BY <1>1, <1>4, <2>1, <2>4
  <1>12. QED
    BY <1>1, <1>5, <1>9, <1>10, <1>11

-----------------------------------------------------------------------------
(* A birth, a death                                                        *)

LEMMA HouseParts ==
    ASSUME NEW h \in House
    PROVE  /\ DOMAIN h = {"life", "born", "died", "focus"}
           /\ h.life \in [Persons -> Life] /\ h.born \in [Persons -> Nat]
           /\ h.died \in [Persons -> Nat] /\ h.focus \in [Slots -> Seq(FocusRow)]
  BY DEF House, FocusRow

LEMMA MakesHouse ==
    ASSUME NEW h, DOMAIN h = {"life", "born", "died", "focus"},
           h = [life |-> h.life, born |-> h.born, died |-> h.died, focus |-> h.focus],
           h.life \in [Persons -> Life], h.born \in [Persons -> Nat],
           h.died \in [Persons -> Nat], h.focus \in [Slots -> Seq(FocusRow)]
    PROVE  h \in House
  BY DEF House, FocusRow

LEMMA BirthHouse ==
    ASSUME NEW h \in House, NEW p \in Persons, NEW at \in Nat
    PROVE  Birth(h, p, at) \in House
  <1>1. CASE h.life[p] # "unborn"
    BY <1>1 DEF Birth
  <1>2. CASE h.life[p] = "unborn"
    <2> DEFINE g == Birth(h, p, at)
    <2>1. g = [h EXCEPT !.life[p] = "alive", !.born[p] = at]
      BY <1>2 DEF Birth
    <2>2. /\ DOMAIN g = DOMAIN h
          /\ g.life = [h.life EXCEPT ![p] = "alive"] /\ g.born = [h.born EXCEPT ![p] = at]
          /\ g.died = h.died /\ g.focus = h.focus
      BY <2>1, HouseParts
    <2>3. g = [life |-> g.life, born |-> g.born, died |-> g.died, focus |-> g.focus]
      BY <2>1, HouseParts
    <2> HIDE DEF g
    <2>4. g.life \in [Persons -> Life] /\ g.born \in [Persons -> Nat]
      BY <2>2, HouseParts DEF Life
    <2>5. g \in House
      BY <2>2, <2>3, <2>4, HouseParts, MakesHouse
    <2>6. QED
      BY <2>5 DEF g
  <1>3. QED
    BY <1>1, <1>2

LEMMA DeathHouse ==
    ASSUME NEW h \in House, NEW p \in Persons, NEW at \in Nat, NEW newest
    PROVE  Death(h, p, at, newest) \in House
  <1>1. CASE h.life[p] = "dead"
    BY <1>1 DEF Death
  <1>2. CASE h.life[p] # "dead"
    <2> DEFINE e == [h EXCEPT !.life[p] = "dead"]
               d == [h EXCEPT !.life[p] = "dead", !.died[p] = at]
               g == Succeeded(d, p, at, newest)
               heir == CHOOSE c \in Heirs(d, p) : TRUE
               left(slot) == Holds(d, slot, p, newest) /\ Heirs(d, p) # {}
    <2>1. /\ DOMAIN d = DOMAIN h
          /\ d.life = [h.life EXCEPT ![p] = "dead"] /\ d.died = [h.died EXCEPT ![p] = at]
          /\ d.born = h.born /\ d.focus = h.focus
      BY HouseParts
    <2>2. d = [life |-> d.life, born |-> d.born, died |-> d.died, focus |-> d.focus]
      <3>1. h = [life |-> h.life, born |-> h.born, died |-> h.died, focus |-> h.focus]
        BY DEF House
      <3>2. e = [life |-> e.life, born |-> h.born, died |-> h.died, focus |-> h.focus]
        BY <3>1
      <3>3. d = [e EXCEPT !.died[p] = at]
        OBVIOUS
      <3> HIDE DEF d, e
      <3>4. QED
        BY <3>2, <3>3
    <2>3. g = [d EXCEPT !.focus = [slot \in Slots |->
                  IF left(slot) THEN Append(d.focus[slot], [to |-> heir, effective |-> at])
                  ELSE d.focus[slot]]]
      BY DEF Succeeded
    <2> HIDE DEF d, e, g, heir, left
    <2>4. d.life \in [Persons -> Life] /\ d.died \in [Persons -> Nat]
      BY <2>1, HouseParts DEF Life
    <2>5. d \in House
      BY <2>1, <2>2, <2>4, HouseParts, MakesHouse
    <2>6. /\ g.life = d.life /\ g.born = d.born /\ g.died = d.died /\ DOMAIN g = DOMAIN d
          /\ g = [life |-> g.life, born |-> g.born, died |-> g.died, focus |-> g.focus]
          /\ g.focus = [slot \in Slots |->
                  IF left(slot) THEN Append(d.focus[slot], [to |-> heir, effective |-> at])
                  ELSE d.focus[slot]]
      BY <2>3, <2>5, HouseParts
    <2>7. ASSUME NEW slot \in Slots PROVE g.focus[slot] \in Seq(FocusRow)
      <3>1. d.focus[slot] \in Seq(FocusRow)
        BY <2>5, HouseParts
      <3>2. CASE left(slot)
        <4>1. heir \in Heirs(d, p)
          BY <3>2 DEF left, heir
        <4>2. heir \in Persons
          BY <2>5, <4>1, HeirLives
        <4>3. [to |-> heir, effective |-> at] \in FocusRow
          BY <4>2 DEF FocusRow
        <4>4. g.focus[slot] = Append(d.focus[slot], [to |-> heir, effective |-> at])
          BY <2>6, <3>2
        <4>5. QED
          BY <3>1, <4>3, <4>4
      <3>3. CASE ~left(slot)
        BY <2>6, <3>1, <3>3
      <3>4. QED
        BY <3>2, <3>3
    <2>8. g.focus \in [Slots -> Seq(FocusRow)]
      BY <2>6, <2>7
    <2>9. g \in House
      BY <2>1, <2>4, <2>5, <2>6, <2>8, HouseParts, MakesHouse
    <2>10. Death(h, p, at, newest) = g
      BY <1>2 DEF Death, g, d
    <2>11. QED
      BY <2>9, <2>10
  <1>3. QED
    BY <1>1, <1>2

LEMMA Fewer ==
    ASSUME NEW h, NEW R, NEW Q, Q \subseteq R, HouseInv(h, R)
    PROVE  HouseInv(h, Q)
  BY DEF HouseInv, HouseDated

LEMMA SchedulesType ==
    ASSUME NEW s \in Schedules
    PROVE  Schedule[s].due \in Nat /\ Schedule[s].who \in Persons
  BY MacroAssumption

LEMMA BirthKeeps ==
    ASSUME NEW R \in SUBSET Schedules, NEW h, HouseInv(h, R), NEW s \in R, Schedule[s].kind = "birth",
           NEW p, p = Schedule[s].who, NEW at, at = Schedule[s].due, ~Raises(h, "birth", p, at)
    PROVE  HouseInv(Birth(h, p, at), R \ {s})
  <1>1. CASE h.life[p] # "unborn"
    BY <1>1, Fewer DEF Birth
  <1>2. CASE h.life[p] = "unborn"
    <2> DEFINE g == Birth(h, p, at)
    <2>1. h \in House /\ p \in Persons /\ at \in Nat
      BY SchedulesType DEF HouseInv
    <2>2. g = [h EXCEPT !.life[p] = "alive", !.born[p] = at]
      BY <1>2 DEF Birth
    <2>3. /\ DOMAIN g = DOMAIN h
          /\ g.life = [h.life EXCEPT ![p] = "alive"] /\ g.born = [h.born EXCEPT ![p] = at]
          /\ g.died = h.died /\ g.focus = h.focus
      BY <2>1, <2>2, HouseParts
    <2> HIDE DEF g
    <2>4. g \in House
      BY <2>1, BirthHouse DEF g
    <2>5. /\ \A q \in Persons : q # p => g.life[q] = h.life[q] /\ g.born[q] = h.born[q]
          /\ g.life[p] = "alive" /\ g.born[p] = at
      BY <2>1, <2>3, HouseParts
    <2>7. Kin(g)
      <3>1. SUFFICES ASSUME NEW q \in Persons, g.life[q] # "unborn", NEW r \in Parents[q]
                     PROVE  g.life[r] # "unborn"
        BY DEF Kin, Orphan
      <3>2. r \in Persons
        BY GenealogyAssumption
      <3>3. h.life[r] # "unborn"
        BY <3>1, <1>2, <2>1, <2>5 DEF Raises, Orphan, HouseInv, Kin
      <3>4. QED
        BY <2>5, <3>2, <3>3
    <2>8. HouseDated(g, R \ {s})
      <3>1. \A q \in Persons : g.life[q] = "dead" => h.life[q] = "dead"
        BY <2>5
      <3>2. QED
        BY <2>3, <3>1 DEF HouseInv, HouseDated
    <2>9. Passed(g)
      <3>1. SUFFICES ASSUME NEW slot \in Slots, NEW q \in Persons, NEW newest \in BOOLEAN,
                            Holds(g, slot, q, newest), g.life[q] = "dead",
                            NEW c \in Descendants(q) \cap Eligible, g.life[c] = "alive"
                     PROVE  g.born[c] > g.died[q]
        BY DEF Passed
      <3>2. Holds(h, slot, q, newest)
        BY <2>3, <3>1 DEF Holds
      <3>3. h.life[q] = "dead" /\ h.died[q] \in Nat
        BY <2>1, <2>5, <3>1, HouseParts
      <3>4. CASE c = p
        <4>1. h.died[q] < at
          BY <3>3 DEF HouseInv, HouseDated
        <4>2. g.born[c] = at
          BY <2>5, <3>4
        <4>3. QED
          BY <2>1, <2>3, <3>3, <4>1, <4>2
      <3>5. CASE c # p
        <4>1. c \in Persons
          BY GenealogyAssumption
        <4>2. h.life[c] = "alive" /\ g.born[c] = h.born[c]
          BY <2>5, <3>1, <3>5, <4>1
        <4>3. h.born[c] > h.died[q]
          BY <3>2, <3>3, <4>2 DEF HouseInv, Passed
        <4>4. QED
          BY <2>3, <4>2, <4>3
      <3>6. QED
        BY <3>4, <3>5
    <2>10. QED
      BY <2>4, <2>7, <2>8, <2>9 DEF HouseInv, g
  <1>3. QED
    BY <1>1, <1>2

\* Who is dead leaves each slot to somebody who lives, or nobody is to have it.
LEMMA DeathKeeps ==
    ASSUME Dated, NEW R \in SUBSET Schedules, NEW h, HouseInv(h, R),
           NEW s \in R, Schedule[s].kind = "death", \A t \in R : Schedule[s].due <= Schedule[t].due,
           NEW p, p = Schedule[s].who, NEW at, at = Schedule[s].due, NEW newest \in BOOLEAN,
           ~Raises(h, "death", p, at)
    PROVE  HouseInv(Death(h, p, at, newest), R \ {s})
  <1>1. CASE h.life[p] = "dead"
    BY <1>1, Fewer DEF Death
  <1>2. CASE h.life[p] # "dead"
    <2> DEFINE d == [h EXCEPT !.life[p] = "dead", !.died[p] = at]
               g == Succeeded(d, p, at, newest)
               left(slot) == Holds(d, slot, p, newest) /\ Heirs(d, p) # {}
               heir == CHOOSE c \in Heirs(d, p) : TRUE
    <2>1. h \in House /\ p \in Persons /\ at \in Nat
      BY SchedulesType DEF HouseInv
    <2>2. /\ DOMAIN d = DOMAIN h
          /\ d.life = [h.life EXCEPT ![p] = "dead"] /\ d.died = [h.died EXCEPT ![p] = at]
          /\ d.born = h.born /\ d.focus = h.focus
          /\ d = [life |-> d.life, born |-> d.born, died |-> d.died, focus |-> d.focus]
      <3>1. DOMAIN d = DOMAIN h
        OBVIOUS
      <3>2. /\ d.life = [h.life EXCEPT ![p] = "dead"] /\ d.died = [h.died EXCEPT ![p] = at]
            /\ d.born = h.born /\ d.focus = h.focus
        BY <2>1, HouseParts
      <3>3. d = [life |-> d.life, born |-> d.born, died |-> d.died, focus |-> d.focus]
        <4>1. h = [life |-> h.life, born |-> h.born, died |-> h.died, focus |-> h.focus]
          BY <2>1 DEF House
        <4> DEFINE e == [h EXCEPT !.life[p] = "dead"]
        <4>2. e = [life |-> e.life, born |-> h.born, died |-> h.died, focus |-> h.focus]
          BY <4>1
        <4>3. d = [e EXCEPT !.died[p] = at]
          OBVIOUS
        <4> HIDE DEF d, e
        <4>4. QED
          BY <4>2, <4>3
      <3>4. QED
        BY <3>1, <3>2, <3>3
    <2>3. /\ d.life \in [Persons -> Life] /\ d.died \in [Persons -> Nat]
          /\ \A q \in Persons : q # p => d.life[q] = h.life[q] /\ d.died[q] = h.died[q]
          /\ d.life[p] = "dead" /\ d.died[p] = at
      <3> HIDE DEF d
      <3>1. QED
        BY <2>1, <2>2, HouseParts DEF Life
    <2>4. d \in House
      <3> HIDE DEF d
      <3>1. QED
        BY <2>1, <2>2, <2>3, HouseParts, MakesHouse
    <2>5. g = [d EXCEPT !.focus = [slot \in Slots |->
                  IF left(slot) THEN Append(d.focus[slot], [to |-> heir, effective |-> at])
                  ELSE d.focus[slot]]]
      BY DEF Succeeded
    <2>6. /\ g.life = d.life /\ g.born = d.born /\ g.died = d.died /\ DOMAIN g = DOMAIN d
          /\ g = [life |-> g.life, born |-> g.born, died |-> g.died, focus |-> g.focus]
          /\ g.focus = [slot \in Slots |->
                  IF left(slot) THEN Append(d.focus[slot], [to |-> heir, effective |-> at])
                  ELSE d.focus[slot]]
      <3> HIDE DEF d, g, left, heir
      <3>1. QED
        BY <2>4, <2>5, HouseParts
    <2> HIDE DEF d, g
    <2>7. Kin(d)
      <3>1. \A q \in Persons : d.life[q] = "unborn" => h.life[q] = "unborn"
        BY <2>3
      <3>2. \A q \in Persons : h.life[q] = "unborn" /\ q # p => d.life[q] = "unborn"
        BY <2>3
      <3>3. h.life[p] # "unborn"
        BY DEF Raises
      <3>4. SUFFICES ASSUME NEW q \in Persons, d.life[q] # "unborn", NEW r \in Parents[q]
                     PROVE  d.life[r] # "unborn"
        BY DEF Kin, Orphan
      <3>5. r \in Persons
        BY GenealogyAssumption
      <3>6. QED
        BY <3>1, <3>2, <3>3, <3>4, <3>5 DEF HouseInv, Kin, Orphan
    <2>8. \A q \in Heirs(d, p) : q \in Persons /\ d.life[q] = "alive"
      BY <2>1, <2>4, HeirLives
    <2>9. \A slot \in Slots : /\ h.focus[slot] \in Seq(FocusRow) /\ Apart(h.focus[slot])
                              /\ \A k \in DOMAIN h.focus[slot] : h.focus[slot][k].effective < at
      <3>1. \A slot \in Slots : h.focus[slot] \in Seq(FocusRow)
        BY <2>1, HouseParts
      <3>2. QED
        BY <3>1 DEF HouseInv, HouseDated, Apart
    <2>10. ASSUME NEW slot \in Slots, left(slot)
           PROVE  /\ g.focus[slot] \in Seq(FocusRow) /\ Apart(g.focus[slot])
                  /\ \A k \in DOMAIN g.focus[slot] : g.focus[slot][k].effective <= at
                  /\ \A n \in BOOLEAN, q \in Persons : Holds(g, slot, q, n) => d.life[q] = "alive"
      <3>1. heir \in Persons /\ d.life[heir] = "alive"
        BY <2>8, <2>10
      <3>2. g.focus[slot] = Append(h.focus[slot], [to |-> heir, effective |-> at])
        BY <2>2, <2>6, <2>10
      <3> HIDE DEF heir, left
      <3>3. /\ g.focus[slot] \in Seq(FocusRow) /\ Apart(g.focus[slot])
            /\ \A k \in DOMAIN g.focus[slot] : g.focus[slot][k].effective <= at
            /\ \A n \in BOOLEAN : Holders(g.focus[slot], n) \subseteq {heir}
        <4> DEFINE row == [to |-> heir, effective |-> at]
        <4>1. row \in FocusRow /\ row.to = heir /\ row.effective = at
          BY <2>1, <3>1 DEF FocusRow
        <4>2. g.focus[slot] = Append(h.focus[slot], row)
          BY <3>2
        <4> DEFINE list == h.focus[slot]
                   longer == g.focus[slot]
        <4>3. list \in Seq(FocusRow) /\ Apart(list) /\ longer = Append(list, row)
              /\ \A k \in DOMAIN list : list[k].effective < row.effective
          BY <2>9, <4>1, <4>2
        <4> HIDE DEF row, list, longer
        <4>4. /\ longer \in Seq(FocusRow) /\ Apart(longer)
              /\ \A k \in DOMAIN longer : longer[k].effective <= row.effective
              /\ \A n \in BOOLEAN : Holders(longer, n) \subseteq {row.to}
          BY <4>1, <4>3, NewHolder
        <4>5. QED
          BY <4>1, <4>4 DEF longer
      <3>4. QED
        BY <3>1, <3>3 DEF Holds
    <2>11. ASSUME NEW slot \in Slots, ~left(slot)
           PROVE  g.focus[slot] = h.focus[slot]
      BY <2>2, <2>6, <2>11
    <2>12. g \in House
      <3>1. Death(h, p, at, newest) \in House
        BY <2>1, DeathHouse
      <3>2. QED
        BY <1>2, <3>1 DEF Death, g, d
    <2>13. Kin(g)
      BY <2>6, <2>7 DEF Kin, Orphan
    <2>14. \A t \in R \ {s} : Schedule[t].kind \in {"birth", "death"} => at < Schedule[t].due
      <3>1. SUFFICES ASSUME NEW t \in R \ {s}, Schedule[t].kind \in {"birth", "death"}
                     PROVE  at < Schedule[t].due
        OBVIOUS
      <3>2. Schedule[t].due # at
        BY <3>1 DEF Dated
      <3>3. Schedule[t].due \in Nat /\ at <= Schedule[t].due
        BY SchedulesType
      <3>4. QED
        BY <2>1, <3>2, <3>3
    <2>15. HouseDated(g, R \ {s})
      <3>1. ASSUME NEW t \in R \ {s}, NEW q \in Persons, Schedule[t].kind = "birth", g.life[q] = "dead"
            PROVE  g.died[q] < Schedule[t].due
        <4>1. CASE q = p
          BY <2>3, <2>6, <2>14, <3>1, <4>1
        <4>2. CASE q # p
          BY <2>3, <2>6, <3>1, <4>2 DEF HouseInv, HouseDated
        <4>3. QED
          BY <4>1, <4>2
      <3>2. ASSUME NEW slot \in Slots, NEW k \in DOMAIN g.focus[slot]
            PROVE  /\ \A t \in R \ {s} : Schedule[t].kind = "death" =>
                         g.focus[slot][k].effective < Schedule[t].due
                   /\ \A j \in DOMAIN g.focus[slot] :
                         j # k => g.focus[slot][j].effective # g.focus[slot][k].effective
        <4> HIDE DEF left
        <4>1. CASE ~left(slot)
          BY <2>11, <4>1 DEF HouseInv, HouseDated
        <4>2. CASE left(slot)
          <5>1. g.focus[slot][k].effective \in Nat /\ g.focus[slot][k].effective <= at
            <6>1. g.focus[slot] \in Seq(FocusRow)
              BY <2>10, <4>2
            <6>2. g.focus[slot][k] \in FocusRow
              BY <3>2, <6>1
            <6>3. QED
              BY <2>10, <3>2, <4>2, <6>2 DEF FocusRow
          <5>2. ASSUME NEW t \in R \ {s}, Schedule[t].kind = "death"
                PROVE  g.focus[slot][k].effective < Schedule[t].due
            <6>1. at < Schedule[t].due /\ Schedule[t].due \in Nat
              BY <2>14, <5>2, SchedulesType
            <6>2. QED
              BY <2>1, <5>1, <6>1
          <5>3. QED
            BY <2>10, <3>2, <4>2, <5>2 DEF Apart
        <4>3. QED
          BY <4>1, <4>2
      <3>3. QED
        BY <3>1, <3>2 DEF HouseDated
    <2>16. Passed(g)
      <3>1. SUFFICES ASSUME NEW slot \in Slots, NEW q \in Persons, NEW n \in BOOLEAN,
                            Holds(g, slot, q, n), g.life[q] = "dead",
                            NEW c \in Descendants(q) \cap Eligible, g.life[c] = "alive"
                     PROVE  g.born[c] > g.died[q]
        BY DEF Passed
      <3>2. ~left(slot)
        <4> HIDE DEF left
        <4>1. QED
          BY <2>6, <2>10, <3>1
      <3>3. Holds(h, slot, q, n)
        BY <2>11, <3>1, <3>2 DEF Holds
      <3>4. c \in Persons
        BY GenealogyAssumption
      <3>5. CASE q = p
        <4>1. Holds(d, slot, p, n)
          BY <2>2, <3>3, <3>5 DEF Holds
        <4>2. Heirs(d, p) # {}
          <5>1. d.life[c] = "alive" /\ c \in Descendants(p) \cap Eligible
            BY <2>6, <3>1, <3>5
          <5>2. QED
            BY <2>1, <2>4, <2>7, <5>1, HeirFound
        <4>3. ~Holds(d, slot, p, newest)
          BY <3>2, <4>2
        <4>4. p \in Holders(h.focus[slot], n) /\ p \notin Holders(h.focus[slot], newest)
          BY <2>2, <4>1, <4>3 DEF Holds
        <4>5. QED
          <5>1. h.focus[slot] \in Seq(FocusRow) /\ Apart(h.focus[slot])
            BY <2>9
          <5>2. QED
            BY <4>4, <5>1, OneHolder
      <3>6. CASE q # p
        <4>1. h.life[q] = "dead" /\ g.died[q] = h.died[q]
          BY <2>3, <2>6, <3>1, <3>6
        <4>2. h.life[c] = "alive" /\ g.born[c] = h.born[c]
          BY <2>2, <2>3, <2>6, <3>1, <3>4
        <4>3. QED
          BY <3>3, <4>1, <4>2 DEF HouseInv, Passed
      <3>7. QED
        BY <3>5, <3>6
    <2>17. HouseInv(g, R \ {s})
      BY <2>12, <2>13, <2>15, <2>16 DEF HouseInv
    <2>18. Death(h, p, at, newest) = g
      BY <1>2 DEF Death, g, d
    <2>19. QED
      BY <2>17, <2>18
  <1>3. QED
    BY <1>1, <1>2

-----------------------------------------------------------------------------
(* The schedules of a period, one after the other                          *)

NextHouse(h, s, newest) ==
    Consequence(h, Schedule[s].kind, Schedule[s].who, Schedule[s].due, newest)

LEMMA ConsequenceKeeps ==
    ASSUME Dated, NEW R \in SUBSET Schedules, NEW h, HouseInv(h, R),
           NEW s \in R, \A t \in R : Schedule[s].due <= Schedule[t].due, NEW newest \in BOOLEAN,
           ~Raises(h, Schedule[s].kind, Schedule[s].who, Schedule[s].due)
    PROVE  HouseInv(NextHouse(h, s, newest), R \ {s})
  <1> DEFINE p == Schedule[s].who
             at == Schedule[s].due
  <1>1. CASE Schedule[s].kind = "birth"
    <2>1. ~Raises(h, "birth", p, at)
      BY <1>1
    <2>2. NextHouse(h, s, newest) = Birth(h, p, at)
      BY <1>1 DEF NextHouse, Consequence
    <2>3. HouseInv(Birth(h, p, at), R \ {s})
      BY <1>1, <2>1, BirthKeeps
    <2>4. QED
      BY <2>2, <2>3
  <1>2. CASE Schedule[s].kind = "death"
    <2>1. ~Raises(h, "death", p, at)
      BY <1>2
    <2>2. NextHouse(h, s, newest) = Death(h, p, at, newest)
      BY <1>2 DEF NextHouse, Consequence
    <2>3. HouseInv(Death(h, p, at, newest), R \ {s})
      BY <1>2, <2>1, DeathKeeps
    <2>4. QED
      BY <2>2, <2>3
  <1>3. CASE Schedule[s].kind \notin {"birth", "death"}
    <2>1. NextHouse(h, s, newest) = h
      BY <1>3 DEF NextHouse, Consequence
    <2>2. QED
      BY <2>1, Fewer
  <1>4. QED
    BY <1>1, <1>2, <1>3

\* A stage is the one before after one schedule more.
StagesOf(f, n, seq, newest) ==
    f = [k \in 0..n |-> IF k = 0 THEN house ELSE NextHouse(f[k - 1], seq[k], newest)]

LEMMA StagesExist ==
    ASSUME NEW n \in Nat, NEW seq, NEW newest
    PROVE  \E f : StagesOf(f, n, seq, newest)
  <1> DEFINE S == {m \in 0..n : \E f : StagesOf(f, m, seq, newest)}
  <1>1. 0 \in S
    <2>1. StagesOf([k \in 0..0 |-> house], 0, seq, newest)
      BY DEF StagesOf
    <2>2. QED
      BY <2>1
  <1>2. ASSUME NEW m \in 1..n, m - 1 \in S PROVE m \in S
    <2>1. PICK f : StagesOf(f, m - 1, seq, newest)
      BY <1>2
    <2> DEFINE g == [k \in 0..m |-> IF k = m THEN NextHouse(f[m - 1], seq[m], newest) ELSE f[k]]
    <2>2. ASSUME NEW k \in 0..m
          PROVE  g[k] = IF k = 0 THEN house ELSE NextHouse(g[k - 1], seq[k], newest)
      <3>1. CASE k = m
        <4>1. m - 1 \in 0..m /\ m - 1 # m /\ m # 0
          OBVIOUS
        <4>2. g[m - 1] = f[m - 1] /\ g[m] = NextHouse(f[m - 1], seq[m], newest)
          BY <4>1
        <4>3. QED
          BY <3>1, <4>1, <4>2
      <3>2. CASE k # m
        <4>1. k \in 0..(m - 1) /\ g[k] = f[k]
          BY <3>2
        <4>2. k # 0 => k - 1 \in 0..m /\ k - 1 # m /\ g[k - 1] = f[k - 1]
          BY <3>2
        <4>3. f[k] = IF k = 0 THEN house ELSE NextHouse(f[k - 1], seq[k], newest)
          BY <2>1, <4>1 DEF StagesOf
        <4>4. QED
          BY <4>1, <4>2, <4>3
      <3>3. QED
        BY <3>1, <3>2
    <2>3. DOMAIN g = 0..m /\ g = [k \in 0..m |-> g[k]]
      OBVIOUS
    <2> HIDE DEF g
    <2>4. StagesOf(g, m, seq, newest)
      BY <2>2, <2>3 DEF StagesOf
    <2>5. QED
      BY <2>4
  <1> HIDE DEF S
  <1>3. \A m \in 1..n : m - 1 \in S => m \in S
    BY <1>2
  <1>4. 0..n \subseteq S
    BY <1>1, <1>3, Climb
  <1>5. n \in S
    BY <1>4
  <1>6. QED
    BY <1>5 DEF S

LEMMA StagesAre ==
    ASSUME NEW seq \in Seq(Schedules), NEW newest
    PROVE  /\ Stages(seq, newest)[0] = house
           /\ \A k \in 1..Len(seq) :
                 Stages(seq, newest)[k] = NextHouse(Stages(seq, newest)[k - 1], seq[k], newest)
  <1> DEFINE f == Stages(seq, newest)
  <1>1. Len(seq) \in Nat
    OBVIOUS
  <1>2. f = CHOOSE g : StagesOf(g, Len(seq), seq, newest)
    BY DEF Stages, StagesOf, NextHouse
  <1> HIDE DEF f
  <1>3. StagesOf(f, Len(seq), seq, newest)
    BY <1>1, <1>2, StagesExist
  <1>4. f[0] = house /\ \A k \in 1..Len(seq) : f[k] = NextHouse(f[k - 1], seq[k], newest)
    <2>1. 0 \in 0..Len(seq) /\ \A k \in 1..Len(seq) : k \in 0..Len(seq) /\ k # 0
      BY <1>1
    <2>2. QED
      BY <1>3, <2>1 DEF StagesOf
  <1>5. QED
    BY <1>4 DEF f

\* Schedules that are fired in order leave the house to those that are left.
LEMMA StagesKeep ==
    ASSUME Dated, HouseInv(house, Pending), NEW seq, DueInOrder(seq), NEW newest \in BOOLEAN,
           \A k \in DOMAIN seq : seq[k] \in Pending, ~SomeRaises(seq, newest)
    PROVE  HouseInv(After(seq, newest), Pending \ {seq[k] : k \in DOMAIN seq})
  <1> DEFINE n == Len(seq)
             f == Stages(seq, newest)
             Left(m) == Pending \ {seq[k] : k \in 1..m}
             S == {m \in 0..n : HouseInv(f[m], Left(m))}
  <1>1. seq \in Seq(Schedules) /\ n \in Nat /\ DOMAIN seq = 1..n
    BY DEF DueInOrder
  <1>2. f[0] = house /\ \A k \in 1..n : f[k] = NextHouse(f[k - 1], seq[k], newest)
    BY <1>1, StagesAre
  <1>3. \A k \in 1..n : ~Raises(f[k - 1], Schedule[seq[k]].kind, Schedule[seq[k]].who, Schedule[seq[k]].due)
    BY <1>1 DEF SomeRaises
  <1>4. After(seq, newest) = f[n]
    BY DEF After
  <1> HIDE DEF f, n
  <1>5. 0 \in S
    <2>1. Left(0) = Pending
      OBVIOUS
    <2>2. HouseInv(f[0], Left(0))
      BY <1>2, <2>1
    <2>3. QED
      BY <1>1, <2>2
  <1>6. ASSUME NEW m \in 1..n, m - 1 \in S PROVE m \in S
    <2> DEFINE s == seq[m]
               R == Left(m - 1)
    <2>1. HouseInv(f[m - 1], R) /\ R \in SUBSET Schedules
      BY <1>6 DEF Pending
    <2>2. m \in DOMAIN seq /\ s \in Pending
      BY <1>1
    <2>3. s \in R
      <3>1. \A k \in 1..(m - 1) : k \in DOMAIN seq /\ k < m
        BY <1>1
      <3>2. \A k \in 1..(m - 1) : seq[k] # s
        BY <2>2, <3>1 DEF DueInOrder
      <3>3. QED
        BY <2>2, <3>2
    <2>4. ASSUME NEW t \in R PROVE Schedule[s].due <= Schedule[t].due
      <3>1. s \in Schedules /\ t \in Schedules
        BY <2>1, <2>3
      <3>2. Schedule[s].due \in Nat /\ Schedule[t].due \in Nat
        BY <3>1, SchedulesType
      <3>3. CASE t \notin {seq[k] : k \in DOMAIN seq}
        <4>1. Schedule[s].due < Schedule[t].due
          BY <2>2, <3>3 DEF DueInOrder
        <4>2. QED
          BY <3>2, <4>1
      <3>4. ASSUME NEW k \in DOMAIN seq, t = seq[k] PROVE Schedule[s].due <= Schedule[t].due
        <4>1. k \in 1..n /\ k \notin 1..(m - 1)
          BY <1>1, <3>4
        <4>2. k = m \/ m < k
          BY <4>1
        <4>3. CASE k = m
          BY <3>2, <3>4, <4>3
        <4>4. CASE m < k
          BY <2>2, <3>4, <4>4 DEF DueInOrder
        <4>5. QED
          BY <4>2, <4>3, <4>4
      <3>5. QED
        BY <3>3, <3>4
    <2>5. ~Raises(f[m - 1], Schedule[s].kind, Schedule[s].who, Schedule[s].due)
      BY <1>3
    <2>6. Left(m) = R \ {s}
      <3>1. \A k \in 1..m : k \in 1..(m - 1) \/ k = m
        BY <1>1
      <3>2. \A k \in 1..(m - 1) : k \in 1..m
        BY <1>1
      <3>3. m \in 1..m
        BY <1>1
      <3>4. QED
        BY <3>1, <3>2, <3>3
    <2>7. f[m] = NextHouse(f[m - 1], s, newest)
      BY <1>2
    <2> HIDE DEF s, R, Left
    <2>8. HouseInv(NextHouse(f[m - 1], s, newest), R \ {s})
      BY <2>1, <2>3, <2>4, <2>5, ConsequenceKeeps
    <2>9. m \in 0..n
      BY <1>1
    <2>10. QED
      BY <2>6, <2>7, <2>8, <2>9
  <1>7. n \in S
    <2> HIDE DEF S
    <2>1. \A m \in 1..n : m - 1 \in S => m \in S
      BY <1>6
    <2>2. 0..n \subseteq S
      BY <1>1, <1>5, <2>1, Climb
    <2>3. QED
      BY <1>1, <2>2
  <1>8. Left(n) = Pending \ {seq[k] : k \in DOMAIN seq}
    BY <1>1
  <1>9. QED
    BY <1>4, <1>7, <1>8

-----------------------------------------------------------------------------
(* Succession                                                              *)

\* All that is due is listed, each schedule once.
LEMMA InOrderLists ==
    ASSUME TypeInv, NEW last \in Int, NEW seq \in InOrder(Due(last))
    PROVE  DueInOrder(seq)
  <1> DEFINE D == Due(last)
             n == Cardinality(D)
  <1>1. IsFiniteSet(D) /\ D \subseteq Schedules /\ D \subseteq Pending
    BY MacroAssumption, FS_Subset DEF Due, Pending
  <1>2. n \in Nat /\ IsFiniteSet(1..n) /\ Cardinality(1..n) = n
    <2> HIDE DEF D
    <2>1. n \in Nat
      BY <1>1, FS_CardinalityType
    <2>2. IsFiniteSet(1..n) /\ Cardinality(1..n) = n
      BY <2>1, FS_Interval
    <2>3. QED
      BY <2>1, <2>2
  <1>3. /\ seq \in [1..n -> D] /\ \A j, k \in 1..n : j # k => seq[j] # seq[k]
        /\ \A j, k \in 1..n : j < k => Schedule[seq[j]].due <= Schedule[seq[k]].due
    BY DEF InOrder, SetToSeqs
  <1>4. \A s \in D, t \in Pending \ D : Schedule[s].due < Schedule[t].due
    <2>1. SUFFICES ASSUME NEW s \in D, NEW t \in Pending \ D PROVE Schedule[s].due < Schedule[t].due
      OBVIOUS
    <2>2. s \in Schedules /\ t \in Schedules
      BY DEF Due, Pending
    <2>3. Schedule[s].due <= last /\ ~(Schedule[t].due <= last)
      BY DEF Due, Pending
    <2>4. QED
      BY <2>2, <2>3, SchedulesType
  <1> HIDE DEF D, n
  <1>5. seq \in Injection(1..n, D)
    BY <1>3 DEF Injection, IsInjective
  <1>6. seq \in Surjection(1..n, D)
    BY <1>1, <1>2, <1>5, FS_Injection DEF n
  <1>7. \A s \in D : \E k \in 1..n : seq[k] = s
    BY <1>6 DEF Surjection
  <1>8. seq \in Seq(Schedules) /\ DOMAIN seq = 1..n
    BY <1>1, <1>2, <1>3
  <1>9. \A j, k \in 1..n : j < k => j # k
    BY <1>2
  <1>10. QED
    BY <1>3, <1>4, <1>7, <1>8, <1>9 DEF DueInOrder

\* No schedule becomes pending.
LEMMA PendingShrinks ==
    ASSUME TypeInv, [Next]_vars
    PROVE  Pending' \subseteq Pending
  <1>1. CASE UNCHANGED status
    BY <1>1 DEF Pending
  <1>2. ASSUME NEW S, NEW by, Fired(S, by) PROVE Pending' \subseteq Pending
    BY <1>2 DEF Fired, Pending
  <1>3. ASSUME NEW s \in Schedules, CancelLands(s) PROVE Pending' \subseteq Pending
    BY <1>3 DEF CancelLands, Pending, TypeInv
  <1>4. ASSUME NEW newest \in BOOLEAN, FireDue(newest) PROVE Pending' \subseteq Pending
    BY <1>1, <1>2, <1>4 DEF FireDue
  <1>5. CASE FirePhase
    BY <1>1, <1>2, <1>5 DEF FirePhase
  <1>6. UNCHANGED canon => UNCHANGED status
    BY DEF canon
  <1>7. CASE UNCHANGED vars
    BY <1>1, <1>6, <1>7 DEF vars
  <1>8. CASE MacroStep \/ MacroDies \/ \E p \in Periods : RequestMacro(p)
    BY <1>1, <1>4, <1>6, <1>8 DEF MacroStep, MacroDies, RequestMacro, OpenRun, CheckBreak, Interrupt,
       CommitClock, ReadDue, FinishRun
  <1>9. CASE PhaseStep \/ PhaseDies \/ \E i \in Index : RequestPhase(i)
    BY <1>1, <1>5, <1>6, <1>9 DEF PhaseStep, PhaseDies, RequestPhase, RequirePrevious, ReadClock,
       TickPhase, ReadPhaseDue, CompletePhase
  <1>10. QED
    BY <1>1, <1>3, <1>7, <1>8, <1>9, StepsAside

LEMMA StaysListed ==
    ASSUME NEW seq, DueInOrder(seq), Pending' \subseteq Pending
    PROVE  DueInOrder(seq)'
  BY DEF DueInOrder

\* What a list of due schedules is made by, and who changes the house.
LEMMA HouseSteps ==
    ASSUME TypeInv, [Next]_vars
    PROVE  \/ \E newest \in BOOLEAN : FireDue(newest)
           \/ \E slot \in Slots, p \in Persons, at \in {0, clock, MaxIndex}, newest \in BOOLEAN :
                 Assign(slot, p, at, newest)
           \/ /\ UNCHANGED <<house, assigned>>
              /\ ReadDue \/ UNCHANGED macro \/ macro'.pc # "fire"
  <1> DEFINE quiet == UNCHANGED <<house, assigned>>
                      /\ (ReadDue \/ UNCHANGED macro \/ macro'.pc # "fire")
  <1>1. CASE UNCHANGED vars
    BY <1>1 DEF vars, canon, bounds
  <1>2. UNCHANGED canon => UNCHANGED house
    BY DEF canon
  <1>3. UNCHANGED bounds => UNCHANGED assigned
    BY DEF bounds
  <1>4. ASSUME NEW p \in Periods, RequestMacro(p) PROVE quiet
    BY <1>2, <1>4 DEF RequestMacro, NoCall
  <1>5. CASE OpenRun
    BY <1>2, <1>3, <1>5 DEF OpenRun, NoCall, TypeInv
  <1>6. CASE CheckBreak
    BY <1>2, <1>3, <1>6 DEF CheckBreak, TypeInv
  <1>7. CASE Interrupt
    BY <1>2, <1>3, <1>7 DEF Interrupt, Ends, NoCall
  <1>8. CASE CommitClock
    BY <1>2, <1>3, <1>8 DEF CommitClock, Ends, NoCall, TypeInv
  <1>9. CASE ReadDue
    BY <1>2, <1>3, <1>9 DEF ReadDue
  <1>10. CASE FinishRun
    BY <1>2, <1>3, <1>10 DEF FinishRun, Ends, NoCall
  <1>11. CASE MacroDies
    BY <1>2, <1>11 DEF MacroDies, Ends, NoCall
  <1>12. CASE PhaseStep \/ PhaseDies \/ \E i \in Index : RequestPhase(i)
    BY <1>2, <1>3, <1>12 DEF PhaseStep, PhaseDies, RequestPhase, RequirePrevious, ReadClock,
       TickPhase, ReadPhaseDue, FirePhase, CompletePhase
  <1>13. ASSUME NEW s \in Schedules, Cancel(s) \/ CancelLands(s) PROVE quiet
    BY <1>3, <1>13 DEF Cancel, CancelLands
  <1>14. QED
    BY <1>1, <1>4, <1>5, <1>6, <1>7, <1>8, <1>9, <1>10, <1>11, <1>12, <1>13 DEF Next, MacroStep

LEMMA LineFires ==
    ASSUME TypeInv, Dated, LineInv, NEW newest \in BOOLEAN, FireDue(newest),
           Pending' \subseteq Pending
    PROVE  LineInv'
  <1> DEFINE due == {macro.due[k] : k \in DOMAIN macro.due}
  <1>1. macro.pc = "fire" /\ DueInOrder(macro.due) /\ macro'.pc # "fire"
    BY FireDueGoes DEF FireDue, LineInv
  <1>2. assigned' = assigned
    BY DEF FireDue, bounds
  <1>3. CASE house' = house
    <2>1. assigned = 0 => HouseInv(house, Pending')
      BY Fewer DEF LineInv
    <2>2. QED
      BY <1>1, <1>2, <1>3, <2>1 DEF LineInv
  <1>4. CASE house' # house
    <2>1. /\ \A s \in due : Unfired(s)
          /\ ~SomeRaises(macro.due, newest)
          /\ Fired(due, <<"macro", macro.period>>)
          /\ house' = After(macro.due, newest)
      BY <1>4 DEF FireDue
    <2>2. \A k \in DOMAIN macro.due : macro.due[k] \in due /\ macro.due[k] \in Schedules
      BY <1>1 DEF DueInOrder
    <2> HIDE DEF due
    <2>3. \A k \in DOMAIN macro.due : macro.due[k] \in Pending
      BY <2>1, <2>2 DEF Unfired, Pending
    <2>4. Pending' \subseteq Pending \ due
      BY <2>1 DEF Fired, Pending
    <2>5. assigned = 0 => HouseInv(house', Pending \ due)
      BY <1>1, <2>1, <2>3, StagesKeep DEF LineInv, due
    <2>6. assigned = 0 => HouseInv(house', Pending')
      BY <2>4, <2>5, Fewer
    <2>7. QED
      BY <1>1, <1>2, <2>6 DEF LineInv
  <1>5. QED
    BY <1>3, <1>4

LEMMA LineStep ==
    ASSUME TypeInv, Dated, LineInv, [Next]_vars
    PROVE  LineInv'
  <1>1. Pending' \subseteq Pending
    BY PendingShrinks
  <1>2. ASSUME NEW slot \in Slots, NEW p \in Persons, NEW at \in {0, clock, MaxIndex},
               NEW newest \in BOOLEAN, Assign(slot, p, at, newest)
        PROVE  LineInv'
    <2>1. assigned' = assigned + 1 /\ UNCHANGED <<macro, status>>
      BY <1>2 DEF Assign
    <2>2. assigned' \in Nat /\ assigned' # 0
      BY <2>1 DEF LineInv
    <2>3. macro.pc = "fire" => DueInOrder(macro.due)'
      BY <1>1, <2>1, StaysListed DEF LineInv
    <2>4. QED
      BY <2>1, <2>2, <2>3 DEF LineInv
  <1>3. CASE UNCHANGED <<house, assigned>> /\ (ReadDue \/ UNCHANGED macro \/ macro'.pc # "fire")
    <2>1. assigned' \in Nat /\ (assigned' = 0 => HouseInv(house', Pending'))
      BY <1>1, <1>3, Fewer DEF LineInv
    <2>2. ASSUME macro'.pc = "fire" PROVE DueInOrder(macro.due)'
      <3>1. CASE UNCHANGED macro
        BY <1>1, <2>2, <3>1, StaysListed DEF LineInv
      <3>2. CASE ReadDue
        <4>1. PICK seq \in InOrder(Due(macro.period.end - 1)) :
                  macro' = [macro EXCEPT !.pc = "fire", !.due = seq]
          BY <3>2 DEF ReadDue
        <4>2. macro'.due = seq
          BY <4>1 DEF TypeInv
        <4>3. macro.period \in Periods
          BY <3>2 DEF ReadDue, TypeInv
        <4>4. macro.period.end - 1 \in Int
          BY <4>3, PeriodBounds
        <4>5. DueInOrder(seq)
          BY <4>1, <4>4, InOrderLists
        <4>6. QED
          BY <1>1, <4>2, <4>5 DEF DueInOrder
      <3>3. QED
        BY <1>3, <2>2, <3>1, <3>2
    <2>3. QED
      BY <2>1, <2>2 DEF LineInv
  <1>4. QED
    BY <1>1, <1>2, <1>3, HouseSteps, LineFires

LEMMA InitLine == ASSUME Dated PROVE Init => LineInv
  <1> SUFFICES ASSUME Init PROVE LineInv
    OBVIOUS
  <1>1. house = Founding /\ assigned = 0 /\ macro.pc = "idle" /\ Pending \subseteq Schedules
    BY DEF Init, NoCall, Pending
  <1>2. Founding \in House /\ Kin(Founding) /\ Passed(Founding)
    BY MacroAssumption DEF Dated, Kin
  <1>3. HouseDated(Founding, Schedules)
    BY DEF Dated, HouseDated
  <1>4. HouseInv(house, Pending)
    BY <1>1, <1>2, <1>3, Fewer DEF HouseInv
  <1>5. QED
    BY <1>1, <1>4 DEF LineInv

\* "when a recorded focus holder dies, each held slot passes to the eldest
\* eligible living descendant, or stays vacant" (genealogy.py), for any family and
\* any schedules whose dates tell what comes first, whatever calls die, are refused
\* or overlap: a dead holder has no eligible living descendant born before.
THEOREM SuccessionHolds == ASSUME Dated PROVE Spec => []Succession
  <1>1. Init => LineInv
    BY InitLine
  <1>2. TypeInv /\ LineInv /\ [Next]_vars => LineInv'
    BY LineStep
  <1>3. LineInv => Succession
    BY DEF LineInv, HouseInv, Succession
  <1>4. QED
    BY <1>1, <1>2, <1>3, Typed, PTL DEF Spec

-----------------------------------------------------------------------------
(* Types of the rows                                                       *)

LEMMA NextIsHouse ==
    ASSUME NEW h \in House, NEW s \in Schedules, NEW newest
    PROVE  NextHouse(h, s, newest) \in House
  BY SchedulesType, BirthHouse, DeathHouse DEF NextHouse, Consequence

LEMMA AfterIsHouse ==
    ASSUME house \in House, NEW seq \in Seq(Schedules), NEW newest
    PROVE  After(seq, newest) \in House
  <1> DEFINE n == Len(seq)
             f == Stages(seq, newest)
             S == {m \in 0..n : f[m] \in House}
  <1>1. n \in Nat /\ \A k \in 1..n : seq[k] \in Schedules
    OBVIOUS
  <1>2. f[0] = house /\ \A k \in 1..n : f[k] = NextHouse(f[k - 1], seq[k], newest)
    BY StagesAre
  <1>3. After(seq, newest) = f[n]
    BY DEF After
  <1> HIDE DEF f, n
  <1>4. 0 \in S
    BY <1>1, <1>2
  <1>5. ASSUME NEW m \in 1..n, m - 1 \in S PROVE m \in S
    <2>1. f[m - 1] \in House
      BY <1>5
    <2>2. f[m] \in House
      BY <1>1, <1>2, <2>1, NextIsHouse
    <2>3. m \in 0..n
      BY <1>1
    <2>4. QED
      BY <2>2, <2>3
  <1>6. n \in S
    <2> HIDE DEF S
    <2>1. \A m \in 1..n : m - 1 \in S => m \in S
      BY <1>5
    <2>2. 0..n \subseteq S
      BY <1>1, <1>4, <2>1, Climb
    <2>3. QED
      BY <1>1, <2>2
  <1>7. QED
    BY <1>3, <1>6

LEMMA AssignedHouse ==
    ASSUME NEW h \in House, NEW slot \in Slots, NEW p \in Persons, NEW at \in Nat
    PROVE  Assigned(h, slot, p, at) \in House
  <1> DEFINE row == [to |-> p, effective |-> at]
             g == [h EXCEPT !.focus[slot] = Append(@, row)]
  <1>1. row \in FocusRow
    BY DEF FocusRow
  <1> HIDE DEF row
  <1>2. /\ DOMAIN g = DOMAIN h /\ g.life = h.life /\ g.born = h.born /\ g.died = h.died
        /\ g.focus = [h.focus EXCEPT ![slot] = Append(h.focus[slot], row)]
    BY HouseParts
  <1>3. g = [life |-> g.life, born |-> g.born, died |-> g.died, focus |-> g.focus]
    <2>1. h = [life |-> h.life, born |-> h.born, died |-> h.died, focus |-> h.focus]
      BY DEF House
    <2> DEFINE list == [h.focus EXCEPT ![slot] = Append(h.focus[slot], row)]
    <2>2. g = [h EXCEPT !.focus = list]
      OBVIOUS
    <2> HIDE DEF g, list
    <2>3. QED
      BY <2>1, <2>2
  <1>4. Append(h.focus[slot], row) \in Seq(FocusRow)
    BY <1>1, HouseParts
  <1> HIDE DEF g
  <1>5. g.focus \in [Slots -> Seq(FocusRow)]
    BY <1>2, <1>4, HouseParts
  <1>6. g \in House
    BY <1>2, <1>3, <1>5, HouseParts, MakesHouse
  <1>7. QED
    BY <1>6 DEF Assigned, g, row

\* The least of the breaks in a window is a number.
LEMMA FirstIsNat ==
    ASSUME NEW p, Break(p) # {}
    PROVE  First(Break(p)) \in Nat
  <1>1. Break(p) \in SUBSET Nat
    BY SchedulesType DEF Break, Due
  <1>2. Min(Break(p)) \in Break(p)
    BY <1>1, LeastOf
  <1>3. First(Break(p)) = Min(Break(p))
    BY DEF First, Min
  <1>4. QED
    BY <1>1, <1>2, <1>3

\* What the rows hold, and what a call is about to write to them.
RowTypesInv ==
    /\ breaks \subseteq Periods \X Nat
    /\ effects \subseteq Periods \X (Schedules \cup {"clock"})
    /\ phaseTicked \subseteq Index
    /\ cancelling \subseteq Schedules /\ \A s \in Schedules : IsFiniteSet(fired[s])
    /\ house \in House /\ assigned \in Nat /\ disturbances \in 0..MaxDisturbances
    /\ macro.fired \subseteq Schedules /\ detail.due \subseteq Schedules
    /\ macro.pc = "interrupt" => macro.at \in Nat
    /\ macro.pc = "fire" => macro.due \in Seq(Schedules)

LEMMA FiredFinite ==
    ASSUME \A s \in Schedules : IsFiniteSet(fired[s]), NEW S, NEW by, Fired(S, by)
    PROVE  \A s \in Schedules : IsFiniteSet(fired'[s])
  <1> SUFFICES ASSUME NEW s \in Schedules PROVE IsFiniteSet(fired'[s])
    OBVIOUS
  <1>1. fired'[s] = fired[s] \/ fired'[s] = fired[s] \cup {by}
    BY DEF Fired
  <1>2. QED
    BY <1>1, FS_AddElement

LEMMA RowsFire ==
    ASSUME TypeInv, RowTypesInv, NEW newest \in BOOLEAN, FireDue(newest)
    PROVE  RowTypesInv'
  <1> DEFINE due == {macro.due[k] : k \in DOMAIN macro.due}
  <1>1. macro.pc = "fire" /\ macro.due \in Seq(Schedules) /\ macro'.pc \in {"idle", "finish"}
    BY FireDueGoes DEF FireDue, RowTypesInv
  <1>2. due \subseteq Schedules
    BY <1>1
  <1>3. UNCHANGED <<breaks, effects, phaseTicked, cancelling, detail, assigned, disturbances>>
    BY DEF FireDue, time, rows, bounds
  <1>4. CASE Ends /\ UNCHANGED <<status, fired, house>>
    <2>1. macro'.fired = {} /\ macro'.pc = "idle"
      BY <1>4 DEF Ends, NoCall
    <2>2. QED
      BY <1>3, <1>4, <2>1 DEF RowTypesInv
  <1>5. CASE /\ Fired(due, <<"macro", macro.period>>) /\ house' = After(macro.due, newest)
             /\ macro' = [macro EXCEPT !.pc = "finish", !.fired = due, !.due = <<>>]
    <2> HIDE DEF due
    <2>1. macro'.fired = due /\ macro'.pc = "finish"
      BY <1>5 DEF TypeInv
    <2>2. house' \in House
      BY <1>1, <1>5, AfterIsHouse DEF RowTypesInv
    <2>3. \A s \in Schedules : IsFiniteSet(fired'[s])
      BY <1>5, FiredFinite DEF RowTypesInv
    <2>4. QED
      BY <1>2, <1>3, <2>1, <2>2, <2>3 DEF RowTypesInv
  <1>6. QED
    BY <1>4, <1>5 DEF FireDue

LEMMA RowsMacro ==
    ASSUME TypeInv, RowTypesInv, MacroStep \/ MacroDies \/ \E p \in Periods : RequestMacro(p)
    PROVE  RowTypesInv'
  <1>1. MaxDisturbances \in Nat
    BY MacroAssumption
  <1>2. ASSUME NEW p \in Periods, RequestMacro(p) PROVE RowTypesInv'
    BY <1>2 DEF RequestMacro, NoCall, RowTypesInv, time, rows, canon
  <1>3. CASE OpenRun
    BY <1>3 DEF OpenRun, NoCall, TypeInv, RowTypesInv, time, canon, bounds
  <1>4. CASE CheckBreak
    <2>1. UNCHANGED <<breaks, effects, phaseTicked, cancelling, fired, house, detail, assigned, disturbances>>
      BY <1>4 DEF CheckBreak, time, rows, canon, bounds
    <2>2. CASE Break(macro.period) # {}
      <3> DEFINE at == First(Break(macro.period))
      <3>1. at \in Nat
        BY <2>2, FirstIsNat
      <3> HIDE DEF at
      <3>2. macro' = [macro EXCEPT !.pc = "interrupt", !.at = at]
        BY <1>4, <2>2 DEF CheckBreak, at
      <3>3. macro'.pc = "interrupt" /\ macro'.at = at /\ macro'.fired = macro.fired
        BY <3>2 DEF TypeInv
      <3>4. QED
        BY <2>1, <3>1, <3>3 DEF RowTypesInv
    <2>3. CASE Break(macro.period) = {}
      <3>1. macro'.pc = "tick" /\ macro'.fired = macro.fired
        BY <1>4, <2>3 DEF CheckBreak, TypeInv
      <3>2. QED
        BY <2>1, <3>1 DEF RowTypesInv
    <2>4. QED
      BY <2>2, <2>3
  <1>5. CASE Interrupt
    <2>1. <<macro.period, macro.at>> \in Periods \X Nat
      BY <1>5 DEF Interrupt, TypeInv, RowTypesInv
    <2>2. breaks' \subseteq Periods \X Nat
      BY <1>5, <2>1 DEF Interrupt, AddInterruption, RowTypesInv
    <2>3. macro'.pc = "idle" /\ macro'.fired = {}
      BY <1>5 DEF Interrupt, Ends, NoCall
    <2>4. QED
      BY <1>5, <2>2, <2>3 DEF Interrupt, RowTypesInv, time, canon, bounds
  <1>6. CASE CommitClock
    <2>1. macro'.pc \in {"idle", "read"} /\ macro'.fired \subseteq Schedules
      BY <1>6 DEF CommitClock, Ends, NoCall, TypeInv, RowTypesInv
    <2>2. phaseTicked' = phaseTicked
      BY <1>6 DEF CommitClock, time
    <2>3. QED
      BY <1>6, <2>1, <2>2 DEF CommitClock, RowTypesInv, rows, canon, bounds
  <1>7. CASE ReadDue
    <2>1. PICK seq \in InOrder(Due(macro.period.end - 1)) :
              macro' = [macro EXCEPT !.pc = "fire", !.due = seq]
      BY <1>7 DEF ReadDue
    <2>2. macro'.due = seq /\ macro'.pc = "fire" /\ macro'.fired = macro.fired
      BY <2>1 DEF TypeInv
    <2>3. macro.period \in Periods /\ macro.period.end - 1 \in Int
      BY <1>7, PeriodBounds DEF ReadDue, TypeInv
    <2>4. seq \in Seq(Schedules)
      BY <2>3, InOrderLists DEF DueInOrder
    <2>5. QED
      BY <1>7, <2>2, <2>4 DEF ReadDue, RowTypesInv, time, rows, canon, bounds
  <1>8. ASSUME NEW newest \in BOOLEAN, FireDue(newest) PROVE RowTypesInv'
    BY <1>8, RowsFire
  <1>9. CASE FinishRun
    <2>1. macro.period \in Periods /\ macro.fired \subseteq Schedules
      BY <1>9 DEF FinishRun, TypeInv, RowTypesInv
    <2>2. Decomposed(macro.period, macro.fired) \subseteq Periods \X (Schedules \cup {"clock"})
      BY <2>1 DEF Decomposed
    <2>3. effects' \subseteq Periods \X (Schedules \cup {"clock"})
      BY <1>9, <2>2 DEF FinishRun, AddEffects, RowTypesInv
    <2>4. macro'.pc = "idle" /\ macro'.fired = {}
      BY <1>9 DEF FinishRun, Ends, NoCall
    <2>5. QED
      BY <1>9, <2>3, <2>4 DEF FinishRun, RowTypesInv, time, canon, bounds
  <1>10. CASE MacroDies
    <2>1. disturbances' \in 0..MaxDisturbances
      BY <1>1, <1>10 DEF MacroDies, Disturbance, RowTypesInv
    <2>2. macro'.pc = "idle" /\ macro'.fired = {}
      BY <1>10 DEF MacroDies, Ends, NoCall
    <2>3. QED
      BY <1>10, <2>1, <2>2 DEF MacroDies, RowTypesInv, time, rows, canon
  <1>11. QED
    BY <1>2, <1>3, <1>4, <1>5, <1>6, <1>7, <1>8, <1>9, <1>10 DEF MacroStep

LEMMA RowsPhase ==
    ASSUME TypeInv, RowTypesInv, PhaseStep \/ PhaseDies \/ \E i \in Index : RequestPhase(i)
    PROVE  RowTypesInv'
  <1>1. MaxDisturbances \in Nat
    BY MacroAssumption
  <1>2. ASSUME NEW i \in Index, RequestPhase(i) PROVE RowTypesInv'
    BY <1>2 DEF RequestPhase, NoPhase, RowTypesInv, time, rows, canon
  <1>3. CASE RequirePrevious
    BY <1>3 DEF RequirePrevious, NoPhase, TypeInv, RowTypesInv, time, rows, canon, bounds
  <1>4. CASE ReadClock
    BY <1>4 DEF ReadClock, TypeInv, RowTypesInv, time, rows, canon, bounds
  <1>5. CASE TickPhase
    <2>1. detail'.due \subseteq Schedules
      BY <1>5 DEF TickPhase, NoPhase, TypeInv, RowTypesInv
    <2>2. phaseTicked' \subseteq Index
      BY <1>5 DEF TickPhase, TypeInv, RowTypesInv, time
    <2>3. QED
      BY <1>5, <2>1, <2>2 DEF TickPhase, RowTypesInv, rows, canon, bounds
  <1>6. CASE ReadPhaseDue
    BY <1>6 DEF ReadPhaseDue, Due, TypeInv, RowTypesInv, time, rows, canon, bounds
  <1>7. CASE FirePhase
    <2>1. detail'.due = {}
      <3>1. CASE detail' = NoPhase
        BY <3>1 DEF NoPhase
      <3>2. CASE detail' = [detail EXCEPT !.pc = "work", !.due = {}]
        BY <3>2 DEF TypeInv
      <3>3. QED
        BY <1>7, <3>1, <3>2 DEF FirePhase
    <2>2. \A s \in Schedules : IsFiniteSet(fired'[s])
      BY <1>7, FiredFinite DEF FirePhase, RowTypesInv
    <2>3. QED
      BY <1>7, <2>1, <2>2 DEF FirePhase, RowTypesInv, time, rows, bounds
  <1>8. CASE CompletePhase
    BY <1>8 DEF CompletePhase, NoPhase, RowTypesInv, time, rows, canon, bounds
  <1>9. CASE PhaseDies
    <2>1. disturbances' \in 0..MaxDisturbances
      BY <1>1, <1>9 DEF PhaseDies, Disturbance, RowTypesInv
    <2>2. detail'.due = {}
      BY <1>9 DEF PhaseDies, NoPhase
    <2>3. QED
      BY <1>9, <2>1, <2>2 DEF PhaseDies, RowTypesInv, time, rows, canon
  <1>10. QED
    BY <1>2, <1>3, <1>4, <1>5, <1>6, <1>7, <1>8, <1>9 DEF PhaseStep

LEMMA RowTypesStep ==
    ASSUME TypeInv, RowTypesInv, [Next]_vars
    PROVE  RowTypesInv'
  <1>1. CASE UNCHANGED vars
    BY <1>1 DEF RowTypesInv, vars, time, rows, canon, bounds
  <1>2. MaxDisturbances \in Nat
    BY MacroAssumption
  <1>3. ASSUME NEW s \in Schedules, Cancel(s) PROVE RowTypesInv'
    <2>1. disturbances' \in 0..MaxDisturbances
      BY <1>2, <1>3 DEF Cancel, Disturbance, RowTypesInv
    <2>2. QED
      BY <1>3, <2>1 DEF Cancel, RowTypesInv, time, rows
  <1>4. ASSUME NEW s \in Schedules, CancelLands(s) PROVE RowTypesInv'
    BY <1>4 DEF CancelLands, RowTypesInv, time, rows, bounds
  <1>5. ASSUME NEW slot \in Slots, NEW p \in Persons, NEW at \in {0, clock, MaxIndex},
               NEW newest \in BOOLEAN, Assign(slot, p, at, newest)
        PROVE  RowTypesInv'
    <2>1. at \in Nat
      BY MacroAssumption DEF TypeInv
    <2>2. house' \in House
      BY <1>5, <2>1, AssignedHouse DEF Assign, RowTypesInv
    <2>3. disturbances' \in 0..MaxDisturbances /\ assigned' \in Nat
      BY <1>2, <1>5 DEF Assign, Disturbance, RowTypesInv
    <2>4. QED
      BY <1>5, <2>2, <2>3 DEF Assign, RowTypesInv, time, rows
  <1>6. QED
    BY <1>1, <1>3, <1>4, <1>5, RowsMacro, RowsPhase DEF Next

\* Rows and calls are what they can be, a family's records and the rows of its
\* slots included.
THEOREM MacroTypeCorrect == Spec => []TypeOK
  <1>1. Init => RowTypesInv
    <2>1. MaxDisturbances \in Nat /\ Founding \in House
      BY MacroAssumption
    <2>2. QED
      BY <2>1, FS_EmptySet DEF Init, RowTypesInv, NoCall, NoPhase
  <1>2. TypeInv /\ RowTypesInv /\ [Next]_vars => RowTypesInv'
    BY RowTypesStep
  <1>3. TypeInv /\ RowTypesInv => TypeOK
    BY DEF TypeInv, RowTypesInv, TypeOK
  <1>4. QED
    BY <1>1, <1>2, <1>3, Typed, PTL DEF Spec

-----------------------------------------------------------------------------
(* The tail of the scenes: its invariant                                   *)

\* The sheets of a roster, by position.
Sheets(sheets) == DOMAIN sheets \subseteq Nat /\ \A p \in DOMAIN sheets : Sound(sheets[p])

\* A pool with the maximum of its kind.
Whole(k, pool) == {"hp", "max"} \subseteq DOMAIN pool /\ pool.max = Vigour(k) /\ pool.hp \in 0..pool.max

\* The state of the fold over the tags.
Working(r, sheets) ==
    /\ DOMAIN r = {"hp", "conditions", "pools", "touched", "changed", "spawned", "outcomes",
                   "unresolved", "draws"}
    /\ DOMAIN r.hp = DOMAIN sheets /\ \A p \in DOMAIN sheets : r.hp[p] \in Span(sheets[p].max)
    /\ \A k \in DOMAIN r.pools : Whole(k, r.pools[k])
    /\ r.touched \subseteq DOMAIN sheets /\ r.changed \subseteq DOMAIN r.pools
    /\ r.outcomes \in Nat /\ r.unresolved \in Nat /\ r.draws \in Nat \ {0}

Recruits == UNION {ToSet(n.recruits) : n \in Narrations}
Tags == UNION {ToSet(n.tags) : n \in Narrations}

RowOf(row, name) == DOMAIN row = {"sheet", "version"} /\ SheetOf(row.sheet, name) /\ row.version \in Nat

Stored(k, pool) == Whole(k, pool) /\ "version" \in DOMAIN pool /\ pool.version \in Nat

\* Every row has a sound sheet under its name, every pool the maximum of its kind.
RowsInv ==
    /\ IsFiniteSet(Names) /\ DOMAIN Founders \subseteq Names
    /\ \A n \in Names : RowOf(party[n], n)
    /\ \A k \in DOMAIN pools : Stored(k, pools[k])

\* Where the call can be, and what it holds there.
CallInv ==
    /\ DOMAIN call = {"pc", "scene", "seen", "roster", "live", "tries", "todo", "report"}
    /\ call.pc \in CallSteps /\ call.scene \in 1..Scenes /\ call.tries \in 0..1
    /\ call.pc \in {"recruit", "join"} => call.todo \in Seq(Recruits) /\ call.todo # <<>>
    /\ At("join") => call.seen.n \in 0..(MaxParty - 1) /\ call.seen.top \in 1..MaxLevel
    /\ At("reckon") => call.todo \in Seq(Tags)

\* The steps at which a narration is there and its fight is due.
Owing == {"recruit", "join", "load", "reckon", "fight"}

ToldInv ==
    /\ DOMAIN told = 1..Scenes
    /\ \A s \in 1..Scenes : told[s] = Untold \/ \E n \in Narrations : told[s] = Told(n)
    /\ call.pc \in Owing => told[Here].written

\* Where everything else can be.
StepInv ==
    /\ CallInv /\ ToldInv
    /\ rolls \in [1..Scenes -> Streams]
    /\ route.pc \in {"idle", "seat"}
    /\ route.pc = "seat" => route.name \in DOMAIN Newcomers /\ route.seats \in 0..(MaxParty - 1)
    /\ spent \in [faults : 0..MaxFaults, links : 0..MaxLinks]

\* A fight reckons with members of the party, whose rows only a new version
\* changes under it, and with the pools as they are.
FightInv == call.pc \in {"reckon", "fight"} =>
    /\ Sheets(SheetsOf(call.roster))
    /\ \A p \in DOMAIN call.roster :
          call.roster[p].sheet.name \in Names /\ RowOf(call.roster[p], call.roster[p].sheet.name)
    /\ call.live = pools
    /\ Working(call.report, SheetsOf(call.roster))

CapInv == past.overlaps \in Nat /\ CapHolds

OnceInv == /\ bouts \subseteq 1..Scenes /\ past.dealt \in [1..Scenes -> Nat] /\ DealtOnce
           /\ DOMAIN past = {"dealt", "overlaps", "cut"} /\ past.cut \subseteq 1..Scenes
           /\ \A g \in gates : g[1] \in 1..Scenes /\ g[2] \in DOMAIN Sparring[g[1]]

\* The versions a fight holds are those of the rows.
Current == \A p \in DOMAIN call.roster : party[call.roster[p].sheet.name].version = call.roster[p].version

\* One link makes one conflict, after which the roster is read again.
LinksInv == call.pc \in {"reckon", "fight"} =>
    /\ call.tries = 0 /\ spent.links = 0 => Current
    /\ call.tries = 1 => spent.links # 0 /\ (spent.links = 1 => Current)

\* What a tag leaves behind is never silence.
HeardInv ==
    /\ At("reckon") => \/ told[Here].tags = <<>> \/ call.todo # <<>> \/ ~Silent(call.report)
    /\ At("fight") => told[Here].tags = <<>> \/ ~Silent(call.report)

\* A scene whose narration calls for a fight has had it, or its call is on the way to it.
OwedInv == DOMAIN Founders # {} => \A s \in 1..Scenes :
    (told[s].written /\ told[s].tags # <<>> /\ s \notin past.cut /\ spent.links <= 1)
        => s \in bouts \/ (s = Here /\ call.pc \in Owing)

TailInv == RowsInv /\ StepInv /\ FightInv /\ CapInv /\ OnceInv /\ LinksInv /\ HeardInv /\ OwedInv

-----------------------------------------------------------------------------
(* Dice                                                                    *)

\* Sums of the first numbers of a list, each the one before and the next number.
SumsOf(f, m, start, d) == \A k \in 0..m : f[k] = IF k = 0 THEN start ELSE f[k - 1] + d[k]

LEMMA SumsExist ==
    ASSUME NEW n \in Nat, NEW start \in Nat, NEW d, \A k \in 1..n : d[k] \in Nat
    PROVE  \E f \in [0..n -> Nat] : SumsOf(f, n, start, d)
  <1> DEFINE Reached(m) == \E f \in [0..m -> Nat] : SumsOf(f, m, start, d)
             Bad == {m \in 0..n : ~Reached(m)}
  <1>1. Reached(0)
    <2>1. [k \in 0..0 |-> start] \in [0..0 -> Nat]
      OBVIOUS
    <2>2. SumsOf([k \in 0..0 |-> start], 0, start, d)
      BY DEF SumsOf
    <2>3. QED
      BY <2>1, <2>2
  <1>2. ASSUME NEW m \in 1..n, Reached(m - 1) PROVE Reached(m)
    <2>1. m \in Nat /\ m - 1 \in 0..(m - 1) /\ d[m] \in Nat
      OBVIOUS
    <2>2. PICK f \in [0..(m - 1) -> Nat] : SumsOf(f, m - 1, start, d)
      BY <1>2
    <2> DEFINE g == [k \in 0..m |-> IF k = m THEN f[m - 1] + d[m] ELSE f[k]]
    <2>3. \A k \in 0..m : k # m => k \in 0..(m - 1)
      BY <2>1
    <2>4. \A k \in 0..m : g[k] \in Nat
      BY <2>1, <2>3
    <2>5. g \in [0..m -> Nat]
      BY <2>4
    <2>6. ASSUME NEW k \in 0..m PROVE g[k] = IF k = 0 THEN start ELSE g[k - 1] + d[k]
      <3>1. CASE k = m
        <4>1. g[m] = f[m - 1] + d[m] /\ g[m - 1] = f[m - 1]
          BY <2>1
        <4>2. QED
          BY <3>1, <4>1
      <3>2. CASE k # m
        <4>1. k \in 0..(m - 1) /\ g[k] = f[k]
          BY <2>3, <3>2
        <4>2. k # 0 => k - 1 \in 0..(m - 1) /\ g[k - 1] = f[k - 1]
          BY <2>1, <4>1
        <4>3. f[k] = IF k = 0 THEN start ELSE f[k - 1] + d[k]
          BY <2>2, <4>1 DEF SumsOf
        <4>4. QED
          BY <4>1, <4>2, <4>3
      <3>3. QED
        BY <3>1, <3>2
    <2> HIDE DEF g
    <2>7. SumsOf(g, m, start, d)
      BY <2>6 DEF SumsOf
    <2>8. QED
      BY <2>5, <2>7
  <1> HIDE DEF Reached
  <1>3. ASSUME Bad # {} PROVE FALSE
    <2>1. Bad \in SUBSET Nat
      OBVIOUS
    <2>2. PICK m \in Bad : \A j \in Bad : m <= j
      <3> HIDE DEF Bad
      <3>1. QED
        BY <1>3, <2>1, LeastOf
    <2>3. m \in 0..n /\ ~Reached(m) /\ m # 0
      BY <1>1
    <2>4. m - 1 \in 0..n /\ m - 1 < m
      BY <2>3
    <2>5. Reached(m - 1)
      BY <2>2, <2>4
    <2>6. QED
      BY <1>2, <2>3, <2>5
  <1>4. Reached(n)
    BY <1>3
  <1>5. QED
    BY <1>4 DEF Reached

LEMMA SumIsNat ==
    ASSUME NEW n \in Nat, NEW start \in Nat, NEW d, \A k \in 1..n : d[k] \in Nat,
           NEW f, SumsOf(f, n, start, d)
    PROVE  f[n] \in Nat
  <1> DEFINE Bad == {m \in 0..n : f[m] \notin Nat}
  <1>1. ASSUME Bad # {} PROVE FALSE
    <2>1. Bad \in SUBSET Nat
      OBVIOUS
    <2>2. PICK m \in Bad : \A j \in Bad : m <= j
      <3> HIDE DEF Bad
      <3>1. QED
        BY <1>1, <2>1, LeastOf
    <2>3. m \in 0..n /\ f[m] \notin Nat
      OBVIOUS
    <2>4. m # 0
      BY <2>3 DEF SumsOf
    <2>5. m - 1 \in 0..n /\ m - 1 < m /\ m \in 1..n
      BY <2>3, <2>4
    <2>6. f[m - 1] \in Nat
      BY <2>2, <2>5
    <2>7. f[m] = f[m - 1] + d[m]
      BY <2>3, <2>4 DEF SumsOf
    <2>8. QED
      BY <2>3, <2>5, <2>6, <2>7
  <1>2. n \in 0..n
    OBVIOUS
  <1>3. QED
    BY <1>1, <1>2

Stream(s) == s \in Seq(0..19) /\ s # <<>>

LEMMA DieIsNat ==
    ASSUME NEW s, Stream(s), NEW i \in Nat \ {0}, NEW sides \in Nat
    PROVE  Die(Draw(s, i), sides) \in Nat
  <1>1. Len(s) \in Nat \ {0} /\ DOMAIN s = 1..Len(s)
    BY DEF Stream
  <1>2. ((i - 1) % Len(s)) + 1 \in DOMAIN s
    <2>1. i - 1 \in Int /\ Len(s) > 0
      BY <1>1
    <2>2. (i - 1) % Len(s) \in 0..(Len(s) - 1)
      BY <1>1, <2>1
    <2>3. QED
      BY <1>1, <2>2
  <1>3. Draw(s, i) \in 0..19
    BY <1>2 DEF Stream, Draw
  <1>4. \A u \in Nat, t \in Nat : u * t \in Nat
    OBVIOUS
  <1>5. \A v \in Nat : v \div 20 \in Nat
    OBVIOUS
  <1>6. QED
    BY <1>3, <1>4, <1>5 DEF Die

LEMMA RollIsNat ==
    ASSUME NEW s, Stream(s), NEW i \in Nat \ {0}, NEW dice \in Rolls
    PROVE  RollDice(dice, s, i) \in Nat
  <1> DEFINE d == [k \in 1..dice.n |-> Die(Draw(s, i + k - 1), dice.sides)]
             T(f) == f = [k \in 0..dice.n |-> IF k = 0 THEN dice.mod
                                             ELSE f[k - 1] + Die(Draw(s, i + k - 1), dice.sides)]
  <1>1. dice.n \in Nat /\ dice.sides \in Nat /\ dice.mod \in Nat
    BY DEF Rolls
  <1>2. ASSUME NEW k \in 1..dice.n
        PROVE  d[k] \in Nat /\ d[k] = Die(Draw(s, i + k - 1), dice.sides)
    <2>1. i + k - 1 \in Nat \ {0}
      BY <1>1
    <2>2. Die(Draw(s, i + k - 1), dice.sides) \in Nat
      BY <1>1, <2>1, DieIsNat
    <2>3. QED
      BY <2>2
  <1> HIDE DEF d
  <1>3. ASSUME NEW f, T(f) PROVE SumsOf(f, dice.n, dice.mod, d)
    <2>1. ASSUME NEW k \in 0..dice.n PROVE f[k] = IF k = 0 THEN dice.mod ELSE f[k - 1] + d[k]
      <3>1. f[k] = IF k = 0 THEN dice.mod ELSE f[k - 1] + Die(Draw(s, i + k - 1), dice.sides)
        BY <1>3
      <3>2. k # 0 => k \in 1..dice.n
        BY <1>1
      <3>3. QED
        BY <1>2, <3>1, <3>2
    <2>2. QED
      BY <2>1 DEF SumsOf
  <1>4. PICK f \in [0..dice.n -> Nat] : SumsOf(f, dice.n, dice.mod, d)
    BY <1>1, <1>2, SumsExist
  <1>5. T(f)
    <2>1. ASSUME NEW k \in 0..dice.n
          PROVE  f[k] = IF k = 0 THEN dice.mod ELSE f[k - 1] + Die(Draw(s, i + k - 1), dice.sides)
      <3>1. k # 0 => k \in 1..dice.n
        BY <1>1
      <3>2. f[k] = IF k = 0 THEN dice.mod ELSE f[k - 1] + d[k]
        BY <1>4 DEF SumsOf
      <3>3. QED
        BY <1>2, <3>1, <3>2
    <2>2. f = [k \in 0..dice.n |-> f[k]]
      OBVIOUS
    <2>3. QED
      BY <2>1, <2>2
  <1>6. T(CHOOSE g : T(g))
    BY <1>5
  <1>7. RollDice(dice, s, i) = (CHOOSE g : T(g))[dice.n]
    BY DEF RollDice
  <1> HIDE DEF T
  <1>8. SumsOf(CHOOSE g : T(g), dice.n, dice.mod, d)
    BY <1>3, <1>6
  <1>9. (CHOOSE g : T(g))[dice.n] \in Nat
    BY <1>1, <1>2, <1>8, SumIsNat
  <1>10. QED
    BY <1>7, <1>9

-----------------------------------------------------------------------------
(* The tags of a narration                                                 *)

LEMMA VigourIsNat == \A k : Vigour(k) \in Nat
  BY TablesAssumption DEF Vigour

LEMMA VigourOf ==
    ASSUME NEW m \in ToSet(Monsters)
    PROVE  m.hp \in Nat /\ Vigour(m.index) = m.hp
  BY TablesAssumption DEF Vigour

LEMMA ResolvedWorks ==
    ASSUME NEW sheets, NEW st, Working(st, sheets), NEW n \in Nat
    PROVE  Working(Resolved(st, n), sheets) /\ ~Silent(Resolved(st, n))
  <1> DEFINE r == Resolved(st, n)
  <1>1. DOMAIN r = DOMAIN st
    BY DEF Resolved, Working
  <1>2. /\ r.hp = st.hp /\ r.pools = st.pools /\ r.touched = st.touched
        /\ r.changed = st.changed /\ r.unresolved = st.unresolved
    BY DEF Resolved, Working
  <1>3. r.outcomes = st.outcomes + 1
    BY DEF Resolved, Working
  <1>4. r.draws = st.draws + n
    BY DEF Resolved, Working
  <1> HIDE DEF r
  <1>5. Working(r, sheets)
    BY <1>1, <1>2, <1>3, <1>4 DEF Working
  <1>6. ~Silent(r)
    BY <1>3 DEF Working, Silent
  <1>7. QED
    BY <1>5, <1>6 DEF r

LEMMA UnresolvedWorks ==
    ASSUME NEW sheets, NEW st, Working(st, sheets)
    PROVE  Working(Unresolved(st), sheets) /\ ~Silent(Unresolved(st))
  <1> DEFINE r == Unresolved(st)
  <1>1. DOMAIN r = DOMAIN st
    BY DEF Unresolved, Working
  <1>2. /\ r.hp = st.hp /\ r.pools = st.pools /\ r.touched = st.touched
        /\ r.changed = st.changed /\ r.outcomes = st.outcomes /\ r.draws = st.draws
    BY DEF Unresolved, Working
  <1>3. r.unresolved = st.unresolved + 1
    BY DEF Unresolved, Working
  <1> HIDE DEF r
  <1>4. Working(r, sheets)
    BY <1>1, <1>2, <1>3 DEF Working
  <1>5. ~Silent(r)
    BY <1>3 DEF Working, Silent
  <1>6. QED
    BY <1>4, <1>5 DEF r

LEMMA StruckInSpan ==
    ASSUME NEW max \in Int, NEW hp \in Span(max), NEW n \in Nat
    PROVE  /\ hp \in Int /\ Greater(0, hp - n) \in Span(max) /\ Lesser(max, hp + n) \in Span(max)
  BY DEF Span, Greater, Lesser

LEMMA HurtPartyWorks ==
    ASSUME NEW sheets, Sheets(sheets), NEW st, Working(st, sheets),
           NEW p \in DOMAIN sheets, NEW n \in Nat
    PROVE  Working(HurtParty(st, p, n), sheets)
  <1> DEFINE r == HurtParty(st, p, n)
  <1>1. /\ DOMAIN r = DOMAIN st /\ r.hp = [st.hp EXCEPT ![p] = Greater(0, @ - n)]
        /\ r.pools = st.pools /\ r.touched = st.touched \union {p}
        /\ r.changed = st.changed /\ r.outcomes = st.outcomes
        /\ r.unresolved = st.unresolved /\ r.draws = st.draws
    BY DEF HurtParty, Working
  <1>2. Greater(0, st.hp[p] - n) \in Span(sheets[p].max)
    BY StruckInSpan DEF Working, Sheets, Sound
  <1> HIDE DEF r
  <1>3. Working(r, sheets)
    BY <1>1, <1>2 DEF Working
  <1>4. QED
    BY <1>3 DEF r

LEMMA MendPartyWorks ==
    ASSUME NEW sheets, Sheets(sheets), NEW st, Working(st, sheets),
           NEW p \in DOMAIN sheets, NEW n \in Nat
    PROVE  Working(MendParty(st, sheets, p, n), sheets)
  <1> DEFINE r == MendParty(st, sheets, p, n)
  <1>1. /\ DOMAIN r = DOMAIN st /\ r.hp = [st.hp EXCEPT ![p] = Lesser(sheets[p].max, @ + n)]
        /\ r.pools = st.pools /\ r.touched = st.touched \union {p}
        /\ r.changed = st.changed /\ r.outcomes = st.outcomes
        /\ r.unresolved = st.unresolved /\ r.draws = st.draws
    BY DEF MendParty, Working
  <1>2. Lesser(sheets[p].max, st.hp[p] + n) \in Span(sheets[p].max)
    BY StruckInSpan DEF Working, Sheets, Sound
  <1> HIDE DEF r
  <1>3. Working(r, sheets)
    BY <1>1, <1>2 DEF Working
  <1>4. QED
    BY <1>3 DEF r

LEMMA HurtFoeWorks ==
    ASSUME NEW sheets, NEW st, Working(st, sheets), NEW foe, foe.max = Vigour(foe.key), NEW n \in Nat
    PROVE  Working(HurtFoe(st, foe, n), sheets)
  <1> DEFINE r == HurtFoe(st, foe, n)
             pool == IF foe.key \in DOMAIN st.pools THEN st.pools[foe.key]
                     ELSE [hp |-> foe.max, max |-> foe.max]
             left == Greater(0, pool.hp - n)
             after == [pool EXCEPT !.hp = left]
             stock == Over([k \in {foe.key} |-> after], st.pools)
  <1>1. Whole(foe.key, pool)
    BY VigourIsNat DEF Working, Whole
  <1>2. left \in 0..pool.max
    <2>1. pool.hp \in 0..pool.max /\ pool.max \in Nat
      BY <1>1, VigourIsNat DEF Whole
    <2> HIDE DEF pool
    <2>2. QED
      BY <2>1 DEF Greater
  <1> HIDE DEF pool, left
  <1>3. Whole(foe.key, after)
    BY <1>1, <1>2 DEF Whole
  <1> HIDE DEF after
  <1>4. \A k \in DOMAIN stock : Whole(k, stock[k])
    BY <1>3 DEF Working, Over
  <1>5. foe.key \in DOMAIN stock /\ DOMAIN st.pools \subseteq DOMAIN stock
    BY DEF Over
  <1>6. /\ DOMAIN r = DOMAIN st /\ r.hp = st.hp /\ r.pools = stock /\ r.touched = st.touched
        /\ r.changed \subseteq st.changed \union {foe.key} /\ r.outcomes = st.outcomes
        /\ r.unresolved = st.unresolved /\ r.draws = st.draws
    BY DEF HurtFoe, Working, pool, left, after
  <1> HIDE DEF r, stock
  <1>7. Working(r, sheets)
    BY <1>4, <1>5, <1>6 DEF Working
  <1>8. QED
    BY <1>7 DEF r

LEMMA HurtWorks ==
    ASSUME NEW sheets, Sheets(sheets), NEW st, Working(st, sheets),
           NEW p \in DOMAIN sheets \union {0}, NEW foe, foe.max = Vigour(foe.key), NEW n \in Nat
    PROVE  Working(Hurt(st, p, foe, n), sheets)
  <1>1. CASE p # 0
    BY <1>1, HurtPartyWorks DEF Hurt
  <1>2. CASE p = 0
    BY <1>2, HurtFoeWorks DEF Hurt
  <1>3. QED
    BY <1>1, <1>2

LEMMA PositionWithin ==
    ASSUME NEW sheets, Sheets(sheets), NEW words
    PROVE  Position(sheets, words) \in DOMAIN sheets \union {0}
  <1> DEFINE at == {p \in DOMAIN sheets : sheets[p].name = words}
  <1>1. at \in SUBSET Nat
    BY DEF Sheets
  <1>2. at # {} => Min(at) \in at
    <2> HIDE DEF at
    <2>1. QED
      BY <1>1, LeastOf
  <1>3. QED
    BY <1>2 DEF Position

LEMMA EncounterWorks ==
    ASSUME NEW sheets, NEW st, Working(st, sheets), NEW foes \in SUBSET ToSet(Monsters)
    PROVE  Working(Encounter(st, foes), sheets) /\ ~Silent(Encounter(st, foes))
  <1> DEFINE keys == {m.index : m \in foes}
             full == [k \in keys |-> LET m == CHOOSE x \in foes : x.index = k IN [hp |-> m.hp, max |-> m.hp]]
             stock == Over(full, st.pools)
             r == [st EXCEPT !.pools = stock, !.changed = @ \union keys, !.spawned = @ \union keys]
  <1>1. ASSUME NEW k \in keys PROVE Whole(k, full[k])
    <2>1. PICK m \in foes : m.index = k /\ full[k] = [hp |-> m.hp, max |-> m.hp]
      OBVIOUS
    <2>2. m.hp \in Nat /\ Vigour(k) = m.hp
      BY <2>1, VigourOf
    <2>3. QED
      BY <2>1, <2>2 DEF Whole
  <1>2. DOMAIN full = keys
    OBVIOUS
  <1> HIDE DEF full
  <1>3. \A k \in DOMAIN stock : Whole(k, stock[k])
    BY <1>1, <1>2 DEF Working, Over
  <1>4. keys \subseteq DOMAIN stock /\ DOMAIN st.pools \subseteq DOMAIN stock
    BY <1>2 DEF Over
  <1> HIDE DEF keys, stock
  <1>5. /\ DOMAIN r = DOMAIN st /\ r.hp = st.hp /\ r.pools = stock /\ r.touched = st.touched
        /\ r.changed = st.changed \union keys /\ r.outcomes = st.outcomes
        /\ r.unresolved = st.unresolved /\ r.draws = st.draws
    BY DEF Working
  <1>6. Encounter(st, foes) = IF foes = {} THEN Unresolved(st) ELSE Resolved(r, 0)
    BY DEF Encounter, keys, full, stock
  <1> HIDE DEF r
  <1>7. Working(r, sheets)
    BY <1>3, <1>4, <1>5 DEF Working
  <1>8. QED
    BY <1>6, <1>7, UnresolvedWorks, ResolvedWorks

LEMMA CarrierWithin ==
    ASSUME NEW sheets, Sheets(sheets), NEW at \in SUBSET DOMAIN sheets, at # {}
    PROVE  Min(at) \in DOMAIN sheets
  <1>1. at \in SUBSET Nat
    BY DEF Sheets
  <1>2. QED
    BY <1>1, LeastOf

LEMMA CritRolls == ASSUME NEW dice \in Rolls PROVE Crit(dice) \in Rolls
  BY DEF Crit, Rolls

LEMMA NoDiceRolls == NoDice \in Rolls
  BY DEF NoDice, Rolls

LEMMA RollWorks ==
    ASSUME NEW s, Stream(s), NEW sheets, NEW st, Working(st, sheets), NEW dice \in Rolls
    PROVE  Roll(st, dice, s) \in Nat /\ RollDice(dice, s, st.draws) \in Nat /\ dice.n \in Nat
  <1>1. st.draws \in Nat \ {0} /\ st.draws + 1 \in Nat \ {0}
    BY DEF Working
  <1>2. QED
    BY <1>1, RollIsNat DEF Roll, Rolls

LEMMA AttackWorks ==
    ASSUME NEW s, Stream(s), NEW sheets, Sheets(sheets), NEW st, Working(st, sheets),
           NEW tag, tag.weapon \in ToSet(Weapons) \union {Missing}, tag.foe.max = Vigour(tag.foe.key)
    PROVE  Working(Attack(st, sheets, tag, s), sheets) /\ ~Silent(Attack(st, sheets, tag, s))
  <1> DEFINE dice == IF tag.weapon = Missing THEN NoDice ELSE tag.weapon.dice
             p == Position(sheets, tag.on)
             nat == Natural(st, s)
             blow == IF nat = 20 THEN Crit(dice) ELSE dice
             hurt == Hurt(st, p, tag.foe, Roll(st, blow, s))
             r == Attack(st, sheets, tag, s)
  <1>1. \/ r = Unresolved(st)
        \/ r = Resolved(st, 1)
        \/ r = Resolved(hurt, 1 + blow.n)
    BY DEF Attack
  <1>2. dice \in Rolls
    BY TablesAssumption, NoDiceRolls
  <1>3. p \in DOMAIN sheets \union {0}
    BY PositionWithin
  <1> HIDE DEF dice, p, nat
  <1>4. blow \in Rolls
    BY <1>2, CritRolls
  <1> HIDE DEF blow
  <1>5. Roll(st, blow, s) \in Nat /\ 1 + blow.n \in Nat
    BY <1>4, RollWorks
  <1>6. Working(hurt, sheets)
    BY <1>3, <1>5, HurtWorks
  <1> HIDE DEF hurt, r
  <1>7. Working(r, sheets) /\ ~Silent(r)
    BY <1>1, <1>5, <1>6, UnresolvedWorks, ResolvedWorks
  <1>8. QED
    BY <1>7 DEF r

LEMMA HarmWorks ==
    ASSUME NEW s, Stream(s), NEW sheets, Sheets(sheets), NEW st, Working(st, sheets), NEW a,
           NEW p \in DOMAIN sheets \union {0}, NEW foe, foe.max = Vigour(foe.key),
           NEW spell, spell.dice \in Rolls
    PROVE  /\ Working(Harm(st, sheets, a, p, spell, foe, s), sheets)
           /\ ~Silent(Harm(st, sheets, a, p, spell, foe, s))
  <1> DEFINE r == Harm(st, sheets, a, p, spell, foe, s)
  <1>1. \A n \in Nat : n \div 2 \in Nat
    OBVIOUS
  <1>2. PICK dice \in Rolls, amount \in Nat, n \in Nat :
            r = Resolved(st, 1) \/ r = Resolved(Hurt(st, p, foe, amount), n)
    <2> DEFINE nat == Natural(st, s)
               dice == IF spell.attack /\ nat = 20 THEN Crit(spell.dice) ELSE spell.dice
               rolled == Roll(st, dice, s)
    <2>1. dice \in Rolls
      BY CritRolls
    <2> HIDE DEF dice
    <2>2. rolled \in Nat /\ dice.n \in Nat
      BY <2>1, RollWorks
    <2>3. \E amount \in {rolled, rolled \div 2, 0}, n \in {1 + dice.n, 1} :
             r = Resolved(st, 1) \/ r = Resolved(Hurt(st, p, foe, amount), n)
      BY DEF Harm, dice
    <2> HIDE DEF rolled, r
    <2>4. {rolled, rolled \div 2, 0} \subseteq Nat /\ {1 + dice.n, 1} \subseteq Nat
      BY <1>1, <2>2
    <2>5. QED
      BY <2>1, <2>3, <2>4
  <1>3. Working(Hurt(st, p, foe, amount), sheets)
    BY HurtWorks
  <1> HIDE DEF r
  <1>4. Working(r, sheets) /\ ~Silent(r)
    BY <1>2, <1>3, ResolvedWorks
  <1>5. QED
    BY <1>4 DEF r

LEMMA MendWorks ==
    ASSUME NEW s, Stream(s), NEW sheets, Sheets(sheets), NEW st, Working(st, sheets),
           NEW a \in DOMAIN sheets, NEW p \in DOMAIN sheets \union {0},
           NEW spell, spell.heal \in Rolls
    PROVE  /\ Working(Mend(st, sheets, a, p, spell, s), sheets)
           /\ ~Silent(Mend(st, sheets, a, p, spell, s))
  <1> DEFINE dice == HealDice(spell, sheets[a])
             amount == RollDice(dice, s, st.draws)
             done == IF p = 0 THEN st ELSE MendParty(st, sheets, p, amount)
  <1>1. sheets[a].healing \in Int
    BY DEF Sheets, Sound
  <1>2. dice \in Rolls
    BY <1>1 DEF HealDice, Unreadable, Rolls
  <1> HIDE DEF dice
  <1>3. amount \in Nat /\ dice.n \in Nat
    BY <1>2, RollWorks
  <1> HIDE DEF amount
  <1>4. Working(done, sheets)
    BY <1>3, MendPartyWorks
  <1>5. Mend(st, sheets, a, p, spell, s) = Resolved(done, dice.n)
    BY DEF Mend, dice, amount
  <1> HIDE DEF done
  <1>6. QED
    BY <1>3, <1>4, <1>5, ResolvedWorks

LEMMA SpellResolves ==
    ASSUME NEW spell \in ToSet(Spells), NEW sheet, Sound(sheet), NEW slot
    PROVE  LET r == ResolveSpell(spell, sheet, slot) IN r.dice \in Rolls /\ r.heal \in Rolls
  <1> DEFINE power == IF spell.level = 0 THEN sheet.level ELSE Greater(spell.level, slot)
             steps == {k \in DOMAIN spell.scale : IF spell.level = 0 THEN k <= power ELSE k = power}
             r == ResolveSpell(spell, sheet, slot)
  <1>1. /\ "dice" \in DOMAIN spell /\ spell.dice \in Rolls /\ spell.heal \in Rolls
        /\ spell.scale \in Seq(Rolls)
    BY TablesAssumption
  <1>2. Len(spell.scale) \in Nat /\ DOMAIN spell.scale = 1..Len(spell.scale)
    BY <1>1
  <1>3. steps \subseteq DOMAIN spell.scale
    OBVIOUS
  <1>4. /\ r.dice = IF steps = {} THEN spell.dice ELSE spell.scale[Max(steps)]
        /\ r.heal = spell.heal
    BY <1>1 DEF ResolveSpell
  <1> HIDE DEF steps, r
  <1>5. steps # {} => Max(steps) \in DOMAIN spell.scale
    <2>1. steps \in SUBSET (0..Len(spell.scale))
      BY <1>2, <1>3
    <2>2. QED
      BY <1>2, <1>3, <2>1, GreatestOf
  <1>6. r.dice \in Rolls /\ r.heal \in Rolls
    BY <1>1, <1>4, <1>5
  <1>7. QED
    BY <1>6 DEF r

LEMMA CastWorks ==
    ASSUME NEW s, Stream(s), NEW sheets, Sheets(sheets), NEW st, Working(st, sheets),
           NEW tag, tag.spell \in ToSet(Spells) \union {Missing}, tag.foe.max = Vigour(tag.foe.key)
    PROVE  Working(Cast(st, sheets, tag, s), sheets) /\ ~Silent(Cast(st, sheets, tag, s))
  <1> DEFINE at == {q \in DOMAIN sheets : tag.spell.index \in ToSet(sheets[q].spells)}
             a == IF at = {} THEN 0 ELSE Min(at)
             p == Position(sheets, tag.on)
             spell == ResolveSpell(tag.spell, sheets[a], tag.slot)
             r == Cast(st, sheets, tag, s)
  <1>1. \/ r = Unresolved(st)
        \/ /\ tag.spell # Missing /\ a # 0
           /\ \/ r = Harm(st, sheets, a, p, spell, tag.foe, s)
              \/ r = Mend(st, sheets, a, p, spell, s)
              \/ r = Resolved(st, 0)
    BY DEF Cast, FirstWith
  <1>2. a # 0 => a \in DOMAIN sheets
    <2> HIDE DEF at
    <2>1. at # {} => at \in SUBSET DOMAIN sheets
      BY DEF at
    <2>2. QED
      BY <2>1, CarrierWithin
  <1>3. p \in DOMAIN sheets \union {0}
    BY PositionWithin
  <1> HIDE DEF a, p
  <1>4. CASE r = Unresolved(st)
    BY <1>4, UnresolvedWorks
  <1>5. CASE /\ tag.spell # Missing /\ a # 0
             /\ \/ r = Harm(st, sheets, a, p, spell, tag.foe, s)
                \/ r = Mend(st, sheets, a, p, spell, s)
                \/ r = Resolved(st, 0)
    <2>1. a \in DOMAIN sheets /\ Sound(sheets[a])
      BY <1>2, <1>5 DEF Sheets
    <2>2. spell.dice \in Rolls /\ spell.heal \in Rolls
      BY <1>5, <2>1, SpellResolves
    <2> HIDE DEF spell, r
    <2>3. Working(r, sheets) /\ ~Silent(r)
      BY <1>3, <1>5, <2>1, <2>2, HarmWorks, MendWorks, ResolvedWorks
    <2>4. QED
      BY <2>3 DEF r
  <1>6. QED
    BY <1>1, <1>4, <1>5

LEMMA ConditionWorks ==
    ASSUME NEW sheets, Sheets(sheets), NEW st, Working(st, sheets), NEW tag
    PROVE  Working(Condition(st, sheets, tag), sheets) /\ ~Silent(Condition(st, sheets, tag))
  <1> DEFINE p == Position(sheets, tag.on)
             r == [st EXCEPT !.conditions[p] = @ \union {tag.what}, !.touched = @ \union {p}]
  <1>1. p \in DOMAIN sheets \union {0}
    BY PositionWithin
  <1> HIDE DEF p
  <1>2. /\ DOMAIN r = DOMAIN st /\ r.hp = st.hp /\ r.pools = st.pools
        /\ r.touched = st.touched \union {p} /\ r.changed = st.changed
        /\ r.outcomes = st.outcomes /\ r.unresolved = st.unresolved /\ r.draws = st.draws
    BY DEF Working
  <1>3. Condition(st, sheets, tag) = Resolved(IF p = 0 THEN st ELSE r, 0)
    BY DEF Condition, p
  <1> HIDE DEF r
  <1>4. p # 0 => Working(r, sheets)
    BY <1>1, <1>2 DEF Working
  <1>5. QED
    BY <1>3, <1>4, ResolvedWorks

LEMMA TagWorks ==
    ASSUME NEW s, Stream(s), NEW sheets, Sheets(sheets), NEW st, Working(st, sheets),
           NEW tag, Parsed(tag)
    PROVE  Working(ResolveTag(st, tag, sheets, s), sheets) /\ ~Silent(ResolveTag(st, tag, sheets, s))
  <1>1. CASE tag.kind = "encounter"
    <2>1. ResolveTag(st, tag, sheets, s) = Encounter(st, tag.foes) /\ tag.foes \in SUBSET ToSet(Monsters)
      BY <1>1 DEF ResolveTag, Parsed
    <2>2. QED
      BY <2>1, EncounterWorks
  <1>2. CASE tag.kind = "attack"
    <2>1. /\ ResolveTag(st, tag, sheets, s) = Attack(st, sheets, tag, s)
          /\ tag.weapon \in ToSet(Weapons) \union {Missing} /\ tag.foe.max = Vigour(tag.foe.key)
      BY <1>2 DEF ResolveTag, Parsed
    <2>2. QED
      BY <2>1, AttackWorks
  <1>3. CASE tag.kind = "cast"
    <2>1. /\ ResolveTag(st, tag, sheets, s) = Cast(st, sheets, tag, s)
          /\ tag.spell \in ToSet(Spells) \union {Missing} /\ tag.foe.max = Vigour(tag.foe.key)
      BY <1>3 DEF ResolveTag, Parsed
    <2>2. QED
      BY <2>1, CastWorks
  <1>4. CASE tag.kind = "condition"
    <2>1. ResolveTag(st, tag, sheets, s) = Condition(st, sheets, tag)
      BY <1>4 DEF ResolveTag
    <2>2. QED
      BY <2>1, ConditionWorks
  <1>5. QED
    BY <1>1, <1>2, <1>3, <1>4 DEF Parsed

LEMMA OpeningWorks ==
    ASSUME NEW sheets, Sheets(sheets), NEW stock, \A k \in DOMAIN stock : Whole(k, stock[k])
    PROVE  Working(Opening(sheets, stock), sheets)
  <1> DEFINE r == Opening(sheets, stock)
  <1>1. DOMAIN r = {"hp", "conditions", "pools", "touched", "changed", "spawned", "outcomes",
                    "unresolved", "draws"}
    BY DEF Opening
  <1>2. DOMAIN r.hp = DOMAIN sheets /\ \A p \in DOMAIN sheets : r.hp[p] \in Span(sheets[p].max)
    BY DEF Opening, Sheets, Sound
  <1>3. ASSUME NEW k \in DOMAIN r.pools PROVE Whole(k, r.pools[k])
    <2>1. k \in DOMAIN stock /\ stock[k].max = Vigour(k) /\ stock[k].hp \in 0..stock[k].max
      BY <1>3 DEF Opening, Whole
    <2>2. r.pools[k] = [hp |-> Greater(0, Lesser(stock[k].hp, stock[k].max)), max |-> stock[k].max]
      BY <2>1 DEF Opening
    <2>3. stock[k].max \in Nat
      BY <2>1, VigourIsNat
    <2>4. Greater(0, Lesser(stock[k].hp, stock[k].max)) \in 0..stock[k].max
      BY <2>1, <2>3 DEF Greater, Lesser
    <2>5. QED
      BY <2>1, <2>2, <2>4 DEF Whole
  <1>4. /\ r.touched = {} /\ r.changed = {} /\ r.outcomes = 0 /\ r.unresolved = 0 /\ r.draws = 1
    BY DEF Opening
  <1> HIDE DEF r
  <1>5. Working(r, sheets)
    BY <1>1, <1>2, <1>3, <1>4 DEF Working
  <1>6. QED
    BY <1>5 DEF r

LEMMA ExchangeInSpan ==
    ASSUME NEW s, Stream(s), NEW attacker, NEW defender, Sound(defender)
    PROVE  Exchange(attacker, defender, s) \in Span(defender.max)
  <1> DEFINE weapon == Entry(Weapons, attacker.weapons[1])
             dice == IF weapon = Missing THEN NoDice
                     ELSE IF Die(Draw(s, 1), 20) = 20 THEN Crit(weapon.dice) ELSE weapon.dice
             amount == RollDice(dice, s, 2)
  <1>1. weapon # Missing => weapon \in ToSet(Weapons)
    BY DEF Entry
  <1> HIDE DEF weapon
  <1>2. dice \in Rolls
    BY <1>1, TablesAssumption, NoDiceRolls, CritRolls
  <1> HIDE DEF dice
  <1>3. amount \in Nat
    BY <1>2, RollIsNat
  <1>4. \/ Exchange(attacker, defender, s) = Greater(0, defender.hp - amount)
        \/ Exchange(attacker, defender, s) = defender.hp
    BY DEF Exchange, weapon, dice
  <1> HIDE DEF amount
  <1>5. QED
    BY <1>3, <1>4, StruckInSpan DEF Sound

-----------------------------------------------------------------------------
(* Rosters, rows and pools                                                 *)

LEMMA Listed ==
    ASSUME NEW S, IsFiniteSet(S)
    PROVE  SetToSeq(S) \in [1..Cardinality(S) -> S] /\ Cardinality(S) \in Nat
  <1>1. Cardinality(S) \in Nat /\ ExistsBijection(1..Cardinality(S), S)
    BY FS_CardinalityType
  <1>2. \E f \in [1..Cardinality(S) -> S] : IsInjective(f)
    BY <1>1 DEF ExistsBijection, Bijection, Injection, IsInjective
  <1>3. QED
    BY <1>1, <1>2 DEF SetToSeq

LEMMA RosterRows ==
    ASSUME RowsInv
    PROVE  /\ Sheets(SheetsOf(Roster)) /\ DOMAIN SheetsOf(Roster) = DOMAIN Roster
           /\ \A p \in DOMAIN Roster :
                /\ Roster[p].sheet.name \in Names /\ RowOf(Roster[p], Roster[p].sheet.name)
                /\ Roster[p] = party[Roster[p].sheet.name]
  <1> DEFINE names == SetToSeq(Names)
  <1>1. names \in [1..Cardinality(Names) -> Names] /\ Cardinality(Names) \in Nat
    BY Listed DEF RowsInv
  <1>2. Roster = [i \in DOMAIN names |-> party[names[i]]]
    BY DEF Roster
  <1> HIDE DEF names
  <1>3. ASSUME NEW p \in DOMAIN Roster
        PROVE  /\ p \in Nat /\ Roster[p].sheet.name \in Names /\ RowOf(Roster[p], Roster[p].sheet.name)
               /\ Roster[p] = party[Roster[p].sheet.name] /\ Sound(Roster[p].sheet)
    <2>1. p \in 1..Cardinality(Names) /\ names[p] \in Names /\ Roster[p] = party[names[p]]
      BY <1>1, <1>2
    <2>2. RowOf(Roster[p], names[p])
      BY <2>1 DEF RowsInv
    <2>3. Roster[p].sheet.name = names[p]
      BY <2>2 DEF RowOf, SheetOf
    <2>4. QED
      BY <1>1, <2>1, <2>2, <2>3 DEF RowOf, SheetOf
  <1>4. DOMAIN SheetsOf(Roster) = DOMAIN Roster /\ \A p \in DOMAIN Roster : SheetsOf(Roster)[p] = Roster[p].sheet
    BY DEF SheetsOf
  <1>5. QED
    BY <1>3, <1>4 DEF Sheets

LEMMA HighestWithin ==
    ASSUME RowsInv
    PROVE  Highest \in 1..MaxLevel
  <1> DEFINE levels == {party[n].sheet.level : n \in Names}
  <1>1. MaxLevel \in Nat \ {0}
    BY SheetsAssumption
  <1>2. levels \in SUBSET (1..MaxLevel)
    BY <1>1 DEF RowsInv, RowOf, SheetOf, Sound
  <1>3. levels # {} => Max(levels) \in levels
    <2> HIDE DEF levels
    <2>1. levels \in SUBSET (0..MaxLevel)
      BY <1>1, <1>2
    <2>2. QED
      BY <1>1, <2>1, GreatestOf
  <1>4. Highest = IF Names = {} THEN 1 ELSE Max(levels)
    BY DEF Highest
  <1>5. Names # {} => levels # {}
    OBVIOUS
  <1> HIDE DEF levels
  <1>6. QED
    BY <1>1, <1>2, <1>3, <1>4, <1>5

\* A sheet takes its seat.
Joins(x, sheet) == /\ x \notin Names /\ SheetOf(sheet, x)
                   /\ party' = Over(party, [n \in {x} |-> Row(sheet)])

LEMMA JoinRows ==
    ASSUME RowsInv, NEW x, NEW sheet, Joins(x, sheet)
    PROVE  /\ Names' = Names \union {x} /\ IsFiniteSet(Names') /\ IsFiniteSet(Names)
           /\ \A n \in Names : party'[n] = party[n]
           /\ \A n \in Names' : RowOf(party'[n], n)
           /\ Cardinality(Names') = Cardinality(Names) + 1
  <1>1. Names' = Names \union {x}
    BY DEF Joins, Over, Names
  <1>2. \A n \in Names : party'[n] = party[n]
    BY DEF Joins, Over, Names
  <1>3. party'[x] = Row(sheet)
    BY DEF Joins, Over, Names
  <1>4. RowOf(Row(sheet), x)
    BY DEF Joins, RowOf, Row
  <1>5. \A n \in Names' : RowOf(party'[n], n)
    BY <1>1, <1>2, <1>3, <1>4 DEF RowsInv
  <1>6. IsFiniteSet(Names) /\ x \notin Names
    BY DEF RowsInv, Joins
  <1>7. QED
    BY <1>1, <1>2, <1>5, <1>6, FS_AddElement

LEMMA StruckRows ==
    ASSUME RowsInv, StepInv, FightInv, At("fight"), party' = Struck(call.report)
    PROVE  Names' = Names /\ \A n \in Names : RowOf(party'[n], n)
  <1> DEFINE r == call.report
             sheets == SheetsOf(call.roster)
  <1>1. /\ Sheets(sheets) /\ Working(r, sheets)
        /\ \A p \in DOMAIN call.roster : RowOf(call.roster[p], call.roster[p].sheet.name)
    BY DEF FightInv, At
  <1>2. DOMAIN sheets = DOMAIN call.roster /\ \A p \in DOMAIN sheets : sheets[p] = call.roster[p].sheet
    BY DEF SheetsOf
  <1> HIDE DEF sheets
  <1>3. Names' = Names
    BY DEF Struck, Names
  <1>4. ASSUME NEW n \in Names PROVE RowOf(party'[n], n)
    <2> DEFINE at == {p \in r.touched : call.roster[p].sheet.name = n}
               p == Min(at)
               old == call.roster[p].sheet
               new == [old EXCEPT !.hp = r.hp[p], !.conditions = r.conditions[p]]
    <2>1. RowOf(party[n], n)
      BY DEF RowsInv
    <2>2. party'[n] = IF at = {} THEN party[n] ELSE [sheet |-> new, version |-> party[n].version + 1]
      BY DEF Struck
    <2>3. at \in SUBSET Nat
      BY <1>1 DEF Working, Sheets
    <2>4. CASE at # {}
      <3>1. p \in at
        <4> HIDE DEF at
        <4>1. QED
          BY <2>3, <2>4, LeastOf
      <3> HIDE DEF p
      <3>2. p \in DOMAIN sheets /\ old.name = n
        BY <1>1, <3>1 DEF Working
      <3>3. SheetOf(old, n) /\ r.hp[p] \in Span(old.max)
        BY <1>1, <1>2, <3>2 DEF RowOf, Working
      <3> HIDE DEF old
      <3>4. SheetOf(new, n)
        BY <3>3 DEF SheetOf, Sound
      <3> HIDE DEF new
      <3>5. party[n].version + 1 \in Nat
        BY <2>1 DEF RowOf
      <3>6. QED
        BY <2>2, <2>4, <3>4, <3>5 DEF RowOf
    <2>5. CASE at = {}
      BY <2>1, <2>2, <2>5
    <2>6. QED
      BY <2>4, <2>5
  <1>5. QED
    BY <1>3, <1>4

LEMMA RewrittenStored ==
    ASSUME RowsInv, StepInv, FightInv, At("fight"), pools' = Over(Rewritten(call.report), pools)
    PROVE  \A k \in DOMAIN pools' : Stored(k, pools'[k])
  <1> DEFINE r == call.report
             new == Rewritten(r)
  <1>1. call.live = pools /\ \A k \in DOMAIN r.pools : Whole(k, r.pools[k])
    BY DEF FightInv, At, Working
  <1>2. Saved(r) \subseteq DOMAIN r.pools
    BY DEF FightInv, At, Working, Saved
  <1>3. ASSUME NEW k \in Saved(r) PROVE Stored(k, new[k])
    <2>1. Whole(k, r.pools[k])
      BY <1>1, <1>2
    <2>2. CASE k \in DOMAIN pools
      <3>1. new[k] = [pools[k] EXCEPT !.hp = r.pools[k].hp, !.version = @ + 1]
        BY <1>1, <2>2 DEF Rewritten
      <3>2. Stored(k, pools[k])
        BY <2>2 DEF RowsInv
      <3> HIDE DEF new, r
      <3>3. Whole(k, new[k])
        BY <2>1, <3>1, <3>2 DEF Whole, Stored
      <3>4. "version" \in DOMAIN new[k] /\ new[k].version = pools[k].version + 1
        BY <3>1, <3>2 DEF Stored
      <3>5. QED
        BY <3>2, <3>3, <3>4 DEF Stored
    <2>3. CASE k \notin DOMAIN pools
      <3>1. new[k] = MonsterRow(r.pools[k].hp, r.pools[k].max)
        BY <1>1, <2>3 DEF Rewritten
      <3> HIDE DEF new, r
      <3>2. QED
        BY <2>1, <3>1 DEF Whole, Stored, MonsterRow
    <2>4. QED
      BY <2>2, <2>3
  <1>4. DOMAIN new = Saved(r)
    BY DEF Rewritten
  <1>5. ASSUME NEW k \in DOMAIN pools'
        PROVE  \/ k \in Saved(r) /\ pools'[k] = new[k]
               \/ k \in DOMAIN pools /\ pools'[k] = pools[k]
    BY <1>4 DEF Over
  <1>6. QED
    BY <1>3, <1>5 DEF RowsInv

LEMMA Gone ==
    ASSUME StepInv, NEW pc
    PROVE  /\ DOMAIN Goto(pc) = DOMAIN call /\ Goto(pc).pc = pc /\ Goto(pc).scene = call.scene
           /\ Goto(pc).tries = call.tries /\ Goto(pc).todo = call.todo /\ Goto(pc).seen = call.seen
           /\ Goto(pc).roster = call.roster /\ Goto(pc).live = call.live /\ Goto(pc).report = call.report
  BY DEF Goto, StepInv, CallInv, ToldInv

LEMMA Started ==
    ASSUME NEW s
    PROVE  /\ DOMAIN AtScene(s) = {"pc", "scene", "seen", "roster", "live", "tries", "todo", "report"}
           /\ AtScene(s).pc = "narrate" /\ AtScene(s).scene = s /\ AtScene(s).tries = 0
  BY DEF AtScene

LEMMA Slept ==
    /\ DOMAIN Asleep = {"pc", "scene", "seen", "roster", "live", "tries", "todo", "report"}
    /\ Asleep.pc = "idle" /\ Asleep.scene = 1 /\ Asleep.tries = 0
  BY DEF Asleep, AtScene

\* Reads and waits: neither the party nor the pools change.
Reads == \/ Begin \/ SkipNarration \/ SaveNarration \/ NarratorFails \/ MeetRecruit
         \/ Load \/ Reckon \/ NoTags \/ FightConflicts \/ FightCollides \/ NextScene
         \/ AskSeat \/ CallDies \/ UNCHANGED tail

LEMMA ReadsKeep == ASSUME Reads PROVE party' = party /\ pools' = pools
  BY DEF Reads, Begin, SkipNarration, SaveNarration, NarratorFails, MeetRecruit, Load, Reckon, NoTags,
         FightConflicts, FightCollides, NextScene, AskSeat, CallDies, tail

LEMMA SparRows ==
    ASSUME RowsInv, StepInv, Spar
    PROVE  Names' = Names /\ \A n \in Names : RowOf(party'[n], n)
  <1> DEFINE pair == Pair(NextGate)
             hit == Exchange(party[pair[1]].sheet, party[pair[2]].sheet, rolls[Here])
  <1>1. CASE UNCHANGED party
    BY <1>1 DEF Names, RowsInv
  <1>2. CASE /\ Able(pair)
             /\ party' = [party EXCEPT ![pair[2]].sheet.hp = hit, ![pair[2]].version = @ + 1]
    <2>1. pair[1] \in Names /\ pair[2] \in Names /\ RowOf(party[pair[2]], pair[2])
      BY <1>2 DEF Able, RowsInv
    <2>2. Stream(rolls[Here])
      BY TailAssumption DEF StepInv, CallInv, ToldInv, Stream, Here
    <2>3. hit \in Span(party[pair[2]].sheet.max)
      BY <2>1, <2>2, ExchangeInSpan DEF RowOf, SheetOf
    <2> HIDE DEF hit, pair
    <2>4. Names' = Names
      BY <1>2 DEF Names
    <2> DEFINE new == [party[pair[2]].sheet EXCEPT !.hp = hit]
    <2>5. \A n \in Names : party'[n] = IF n = pair[2]
              THEN [[party[n] EXCEPT !.sheet.hp = hit] EXCEPT !.version = @ + 1] ELSE party[n]
      BY <1>2, <2>1 DEF Names
    <2>6. party'[pair[2]] = [sheet |-> new, version |-> party[pair[2]].version + 1]
      BY <2>1, <2>5 DEF RowOf
    <2>7. SheetOf(new, pair[2])
      BY <2>1, <2>3 DEF RowOf, SheetOf, Sound
    <2> HIDE DEF new
    <2>8. RowOf(party'[pair[2]], pair[2])
      BY <2>1, <2>6, <2>7 DEF RowOf
    <2>9. QED
      BY <2>4, <2>5, <2>8 DEF RowsInv
  <1>3. QED
    BY <1>1, <1>2 DEF Spar

LEMMA LinkRows ==
    ASSUME RowsInv, Link
    PROVE  Names' = Names /\ \A n \in Names : RowOf(party'[n], n)
  <1>1. PICK m \in Names : party' = [party EXCEPT ![m].version = @ + 1]
    BY DEF Link
  <1>2. Names' = Names
    BY <1>1 DEF Names
  <1>3. \A n \in Names : party'[n] = IF n = m THEN [party[n] EXCEPT !.version = @ + 1] ELSE party[n]
    BY <1>1 DEF Names
  <1>4. RowOf(party[m], m) => RowOf([party[m] EXCEPT !.version = @ + 1], m)
    BY DEF RowOf
  <1>5. QED
    BY <1>2, <1>3, <1>4 DEF RowsInv

\* A join that goes through.
Joining == \/ SeatRecruit /\ ~(Fails /\ UNCHANGED party)
           \/ Seat /\ ~UNCHANGED <<party, past>>

LEMMA RecruitJoins ==
    ASSUME StepInv, SeatRecruit, ~(Fails /\ UNCHANGED party)
    PROVE  /\ \E x, sheet : Joins(x, sheet)
           /\ past' = [past EXCEPT !.overlaps = @ + Overlapped(call.seen.n)]
           /\ call.seen.n \in 0..(MaxParty - 1)
  <1> DEFINE tag == Head(call.todo)
  <1>1. /\ tag.name \notin Names /\ party' = Over(party, [n \in {tag.name} |-> Row(Companion[tag, call.seen.top])])
        /\ past' = [past EXCEPT !.overlaps = @ + Overlapped(call.seen.n)]
    BY DEF SeatRecruit
  <1>2. /\ call.seen.top \in 1..MaxLevel /\ call.seen.n \in 0..(MaxParty - 1)
        /\ call.todo \in Seq(Recruits) /\ call.todo # <<>>
    BY DEF SeatRecruit, StepInv, CallInv, At
  <1>3. tag \in Recruits
    BY <1>2
  <1> HIDE DEF tag
  <1>4. SheetOf(Companion[tag, call.seen.top], tag.name)
    BY <1>2, <1>3, SheetsAssumption DEF Recruits
  <1>5. Joins(tag.name, Companion[tag, call.seen.top])
    BY <1>1, <1>4 DEF Joins
  <1>6. QED
    BY <1>1, <1>2, <1>5

LEMMA SeatJoins ==
    ASSUME StepInv, Seat, ~UNCHANGED <<party, past>>
    PROVE  /\ \E x, sheet : Joins(x, sheet)
           /\ past' = [past EXCEPT !.overlaps = @ + Overlapped(route.seats)]
           /\ route.seats \in 0..(MaxParty - 1)
  <1>1. /\ route.name \notin Names /\ party' = Over(party, [n \in {route.name} |-> Row(Newcomers[n])])
        /\ past' = [past EXCEPT !.overlaps = @ + Overlapped(route.seats)]
    BY DEF Seat
  <1>2. [n \in {route.name} |-> Row(Newcomers[n])] = [n \in {route.name} |-> Row(Newcomers[route.name])]
    OBVIOUS
  <1>3. route.name \in DOMAIN Newcomers /\ route.seats \in 0..(MaxParty - 1)
    BY DEF Seat, StepInv
  <1>4. Joins(route.name, Newcomers[route.name])
    BY <1>1, <1>2, <1>3, SheetsAssumption DEF Joins
  <1>5. QED
    BY <1>1, <1>3, <1>4

LEMMA JoiningJoins ==
    ASSUME StepInv, Joining
    PROVE  /\ pools' = pools /\ \E x, sheet : Joins(x, sheet)
           /\ \E seats \in 0..(MaxParty - 1) : past' = [past EXCEPT !.overlaps = @ + Overlapped(seats)]
  <1>1. pools' = pools
    BY DEF Joining, SeatRecruit, Seat
  <1>2. QED
    BY <1>1, RecruitJoins, SeatJoins DEF Joining

LEMMA Moves ==
    ASSUME [TailNext]_tail
    PROVE  Reads \/ SeatRecruit \/ Seat \/ Fight \/ Spar \/ Link
  BY DEF TailNext, CallStep, Reads

\* What a step does to the party and to the pools.
LEMMA RowsGo ==
    ASSUME RowsInv, StepInv, FightInv, [TailNext]_tail
    PROVE  /\ Names \subseteq Names' /\ IsFiniteSet(Names') /\ \A n \in Names' : RowOf(party'[n], n)
           /\ \A k \in DOMAIN pools' : Stored(k, pools'[k])
  <1>1. CASE Reads
    BY <1>1, ReadsKeep DEF RowsInv, Names
  <1>2. CASE SeatRecruit \/ Seat
    <2>1. CASE Joining
      BY <2>1, JoiningJoins, JoinRows DEF RowsInv
    <2>2. CASE ~Joining
      <3>1. party' = party /\ pools' = pools
        BY <1>2, <2>2 DEF Joining, SeatRecruit, Seat
      <3>2. QED
        BY <3>1 DEF RowsInv, Names
    <2>3. QED
      BY <2>1, <2>2
  <1>3. CASE Fight
    <2>1. At("fight") /\ party' = Struck(call.report) /\ pools' = Over(Rewritten(call.report), pools)
      BY <1>3 DEF Fight
    <2>2. Names' = Names /\ \A n \in Names : RowOf(party'[n], n)
      BY <2>1, StruckRows
    <2>3. \A k \in DOMAIN pools' : Stored(k, pools'[k])
      BY <2>1, RewrittenStored
    <2>4. QED
      BY <2>2, <2>3 DEF RowsInv
  <1>4. CASE Spar
    <2>1. pools' = pools
      BY <1>4 DEF Spar
    <2>2. QED
      BY <1>4, <2>1, SparRows DEF RowsInv
  <1>5. CASE Link
    <2>1. pools' = pools
      BY <1>5 DEF Link
    <2>2. QED
      BY <1>5, <2>1, LinkRows DEF RowsInv
  <1>6. QED
    BY <1>1, <1>2, <1>3, <1>4, <1>5, Moves

LEMMA RowsStep ==
    ASSUME RowsInv, StepInv, FightInv, [TailNext]_tail
    PROVE  RowsInv'
  BY RowsGo DEF RowsInv

-----------------------------------------------------------------------------
(* Where the calls are                                                     *)

LEMMA ToldTags ==
    ASSUME ToldInv, NEW s \in 1..Scenes, told[s].written
    PROVE  told[s].tags \in Seq(Tags)
  <1>1. PICK n \in Narrations : told[s] = Told(n)
    BY DEF ToldInv, Untold
  <1>2. told[s].tags = n.tags
    BY <1>1 DEF Told
  <1>3. n.tags \in Seq(ToSet(n.tags)) /\ ToSet(n.tags) \subseteq Tags
    BY SheetsAssumption DEF Tags
  <1>4. QED
    BY <1>2, <1>3

LEMMA NextRecruitWorks ==
    ASSUME CallInv, call.todo \in Seq(Recruits), call.todo # <<>>, call' = NextRecruit
    PROVE  CallInv' /\ Here' = Here /\ call'.pc \in {"load", "recruit"}
  <1>1. Tail(call.todo) \in Seq(Recruits)
    OBVIOUS
  <1>2. /\ DOMAIN call' = DOMAIN call /\ call'.todo = Tail(call.todo) /\ call'.scene = call.scene
        /\ call'.tries = call.tries /\ call'.pc = IF Tail(call.todo) = <<>> THEN "load" ELSE "recruit"
    BY DEF NextRecruit, CallInv
  <1>3. QED
    BY <1>1, <1>2 DEF CallInv, CallSteps, At, Here

LEMMA GoneWorks ==
    ASSUME CallInv, NEW pc \in CallSteps \ {"recruit", "join", "reckon"}, call' = Goto(pc)
    PROVE  CallInv' /\ Here' = Here /\ call'.pc = pc /\ call'.report = call.report
  <1>1. /\ DOMAIN call' = DOMAIN call /\ call'.pc = pc /\ call'.scene = call.scene
        /\ call'.tries = call.tries /\ call'.report = call.report
    BY DEF Goto, CallInv
  <1>2. QED
    BY <1>1 DEF CallInv, At, Here

LEMMA StartedWorks ==
    ASSUME NEW s \in 1..Scenes, call' = AtScene(s)
    PROVE  CallInv' /\ Here' = s /\ call'.pc = "narrate"
  BY Started DEF CallInv, CallSteps, At, Here

LEMMA FailsWorks ==
    ASSUME Fails
    PROVE  CallInv' /\ Here' = 1 /\ call'.pc = "idle"
  <1>1. call' = Asleep /\ 1 \in 1..Scenes
    BY TailAssumption DEF Fails
  <1>2. QED
    BY <1>1, Slept DEF CallInv, CallSteps, At, Here

LEMMA SeatsCount == ASSUME RowsInv PROVE Cardinality(Names) \in Nat
  BY FS_CardinalityType DEF RowsInv

LEMMA CallMoves ==
    ASSUME RowsInv, CallInv, ToldInv, [TailNext]_tail
    PROVE  CallInv'
  <1>1. Scenes \in Nat \ {0} /\ MaxParty \in Nat \ {0}
    BY TailAssumption, BoutAssumption
  <1>2. CASE Begin
    BY <1>1, <1>2, StartedWorks DEF Begin
  <1>3. CASE SkipNarration \/ NarratorFails \/ NoTags
    <2>1. call' = Goto("settle")
      BY <1>3 DEF SkipNarration, NarratorFails, NoTags
    <2>2. QED
      BY <2>1, GoneWorks DEF CallSteps
  <1>4. CASE SaveNarration
    <2>1. PICK n \in Narrations :
              call' = [call EXCEPT !.pc = IF Names = {} \/ n.recruits = <<>> THEN "load" ELSE "recruit",
                                   !.todo = n.recruits]
      BY <1>4 DEF SaveNarration
    <2>2. n.recruits \in Seq(ToSet(n.recruits)) /\ ToSet(n.recruits) \subseteq Recruits
      BY SheetsAssumption DEF Recruits
    <2>3. n.recruits \in Seq(Recruits)
      BY <2>2
    <2>4. /\ DOMAIN call' = DOMAIN call /\ call'.scene = call.scene /\ call'.tries = call.tries
          /\ call'.todo = n.recruits /\ call'.pc \in {"load", "recruit"}
          /\ call'.pc = "recruit" => n.recruits # <<>>
      BY <2>1 DEF CallInv
    <2>5. QED
      BY <2>3, <2>4 DEF CallInv, CallSteps, At
  <1>5. CASE MeetRecruit
    <2>1. call.todo \in Seq(Recruits) /\ call.todo # <<>>
      BY <1>5 DEF MeetRecruit, CallInv, At
    <2>2. CASE call' = NextRecruit
      BY <2>1, <2>2, NextRecruitWorks
    <2>3. CASE Fails
      BY <2>3, FailsWorks
    <2>4. CASE /\ ~Full(Cardinality(Names))
               /\ call' = [call EXCEPT !.pc = "join",
                                       !.seen = [n |-> Cardinality(Names), top |-> Highest]]
      <3>1. Cardinality(Names) \in 0..(MaxParty - 1) /\ Highest \in 1..MaxLevel
        BY <1>1, <2>4, SeatsCount, HighestWithin DEF Full
      <3>2. /\ DOMAIN call' = DOMAIN call /\ call'.scene = call.scene /\ call'.tries = call.tries
            /\ call'.todo = call.todo /\ call'.pc = "join"
            /\ call'.seen = [n |-> Cardinality(Names), top |-> Highest]
        BY <2>4 DEF CallInv
      <3>3. QED
        BY <2>1, <3>1, <3>2 DEF CallInv, CallSteps, At
    <2>5. QED
      BY <1>5, <2>2, <2>3, <2>4 DEF MeetRecruit
  <1>6. CASE SeatRecruit
    <2>1. call.todo \in Seq(Recruits) /\ call.todo # <<>>
      BY <1>6 DEF SeatRecruit, CallInv, At
    <2>2. Fails \/ call' = NextRecruit
      BY <1>6 DEF SeatRecruit
    <2>3. QED
      BY <2>1, <2>2, FailsWorks, NextRecruitWorks
  <1>7. CASE Load
    <2>1. told[Here].tags \in Seq(Tags)
      BY <1>7, ToldTags DEF Load, At, Here, CallInv, ToldInv, Owing
    <2>2. /\ DOMAIN call' = DOMAIN call /\ call'.scene = call.scene /\ call'.tries = 0
          /\ call'.todo = told[Here].tags /\ call'.pc \in {"settle", "reckon"}
      BY <1>7 DEF Load, CallInv
    <2>3. QED
      BY <2>1, <2>2 DEF CallInv, CallSteps, At
  <1>8. CASE Reckon
    <2>1. call.todo \in Seq(Tags) /\ call.pc = "reckon"
      BY <1>8 DEF Reckon, CallInv, At
    <2>2. CASE call.todo = <<>>
      BY <1>8, <2>2, GoneWorks DEF Reckon, CallSteps
    <2>3. CASE call.todo # <<>>
      <3>1. /\ DOMAIN call' = DOMAIN call /\ call'.scene = call.scene /\ call'.tries = call.tries
            /\ call'.todo = Tail(call.todo) /\ call'.pc = call.pc
        BY <1>8, <2>3 DEF Reckon, CallInv
      <3>2. Tail(call.todo) \in Seq(Tags)
        BY <2>1, <2>3
      <3>3. QED
        BY <2>1, <3>1, <3>2 DEF CallInv, CallSteps, At
    <2>4. QED
      BY <2>2, <2>3
  <1>9. CASE Fight
    <2>1. call' = Goto("settle")
      BY <1>9 DEF Fight
    <2>2. QED
      BY <2>1, GoneWorks DEF CallSteps
  <1>10. CASE FightConflicts
    <2>1. CASE call' = Goto("settle")
      BY <2>1, GoneWorks DEF CallSteps
    <2>2. CASE call' = [call EXCEPT !.pc = "reckon", !.tries = 1, !.roster = Roster, !.todo = told[Here].tags,
                                    !.report = Opening(SheetsOf(Roster), call.live)]
      <3>1. told[Here].tags \in Seq(Tags)
        BY <1>10, ToldTags DEF FightConflicts, At, Here, CallInv, ToldInv, Owing
      <3>2. /\ DOMAIN call' = DOMAIN call /\ call'.scene = call.scene /\ call'.tries = 1
            /\ call'.todo = told[Here].tags /\ call'.pc = "reckon"
        BY <2>2 DEF CallInv
      <3>3. QED
        BY <3>1, <3>2 DEF CallInv, CallSteps, At
    <2>3. QED
      BY <1>10, <2>1, <2>2 DEF FightConflicts
  <1>11. CASE FightCollides \/ CallDies
    BY <1>11, FailsWorks DEF FightCollides, CallDies
  <1>12. CASE Spar
    <2>1. Fails \/ call' = call
      BY <1>12 DEF Spar
    <2>2. QED
      BY <2>1, FailsWorks DEF CallInv, At
  <1>13. CASE NextScene
    <2>1. CASE call' = Goto("done")
      BY <2>1, GoneWorks DEF CallSteps
    <2>2. CASE Here # Scenes /\ call' = AtScene(Here + 1)
      <3>1. Here + 1 \in 1..Scenes
        BY <1>1, <2>2 DEF Here, CallInv
      <3>2. QED
        BY <2>2, <3>1, StartedWorks
    <2>3. QED
      BY <1>13, <2>1, <2>2 DEF NextScene
  <1>14. CASE AskSeat \/ Seat \/ Link \/ UNCHANGED tail
    <2>1. call' = call
      BY <1>14 DEF AskSeat, Seat, Link, tail
    <2>2. QED
      BY <2>1 DEF CallInv, At
  <1>15. QED
    BY <1>2, <1>3, <1>4, <1>5, <1>6, <1>7, <1>8, <1>9, <1>10, <1>11, <1>12, <1>13, <1>14
       DEF TailNext, CallStep

LEMMA ToldStep ==
    ASSUME CallInv, ToldInv, [TailNext]_tail
    PROVE  ToldInv'
  <1>1. CASE SaveNarration
    <2>1. PICK n \in Narrations : told' = [told EXCEPT ![Here] = Told(n)]
      BY <1>1 DEF SaveNarration
    <2>2. Here \in 1..Scenes /\ Here' = Here
      BY <1>1 DEF SaveNarration, CallInv, Here
    <2>3. told'[Here] = Told(n) /\ Told(n).written /\ DOMAIN told' = DOMAIN told
      BY <2>1, <2>2 DEF Told, ToldInv
    <2>4. \A s \in 1..Scenes : s # Here => told'[s] = told[s]
      BY <2>1, <2>2 DEF ToldInv
    <2>5. QED
      BY <2>2, <2>3, <2>4 DEF ToldInv
  <1>2. CASE ~SaveNarration
    <2>1. told' = told
      BY <1>2 DEF TailNext, CallStep, Begin, SkipNarration, NarratorFails, MeetRecruit, SeatRecruit, Load,
                  Reckon, NoTags, Fight, FightConflicts, FightCollides, Spar, NextScene, AskSeat, Seat,
                  Link, CallDies, tail
    <2>2. call'.pc \in Owing => call.pc \in Owing /\ Here' = Here
      <3>1. CASE Begin \/ NextScene
        BY <3>1, Started DEF Begin, NextScene, Owing, Goto, CallInv
      <3>2. CASE SkipNarration \/ NarratorFails \/ NoTags \/ Fight
        BY <3>2 DEF SkipNarration, NarratorFails, NoTags, Fight, Owing, Goto, CallInv
      <3>3. CASE Fails
        BY <3>3, FailsWorks DEF Owing
      <3>4. CASE MeetRecruit \/ SeatRecruit
        BY <3>3, <3>4 DEF MeetRecruit, SeatRecruit, At, Owing, NextRecruit, Here, CallInv
      <3>5. CASE Load \/ Reckon \/ FightConflicts
        BY <3>5 DEF Load, Reckon, FightConflicts, At, Owing, Goto, Here, CallInv
      <3>6. CASE (Spar /\ ~Fails) \/ AskSeat \/ Seat \/ Link \/ UNCHANGED tail
        BY <3>6 DEF Spar, AskSeat, Seat, Link, tail, Here
      <3>7. QED
        BY <1>2, <3>1, <3>2, <3>3, <3>4, <3>5, <3>6 DEF TailNext, CallStep, FightCollides, CallDies
    <2>3. QED
      BY <2>1, <2>2 DEF ToldInv, Here
  <1>3. QED
    BY <1>1, <1>2

LEMMA StepStep ==
    ASSUME RowsInv, StepInv, [TailNext]_tail
    PROVE  StepInv'
  <1>1. CallInv' /\ ToldInv'
    BY CallMoves, ToldStep DEF StepInv
  <1>2. rolls' = rolls
    BY DEF TailNext, CallStep, Begin, SkipNarration, SaveNarration, NarratorFails, MeetRecruit, SeatRecruit,
           Load, Reckon, NoTags, Fight, FightConflicts, FightCollides, Spar, NextScene, AskSeat, Seat,
           Link, CallDies, tail
  <1>3. /\ route'.pc \in {"idle", "seat"}
        /\ route'.pc = "seat" => route'.name \in DOMAIN Newcomers /\ route'.seats \in 0..(MaxParty - 1)
    <2>1. CASE AskSeat
      <3>1. PICK n \in DOMAIN Newcomers : route' = [pc |-> "seat", name |-> n, seats |-> Cardinality(Names)]
        BY <2>1 DEF AskSeat
      <3>2. Cardinality(Names) \in 0..(MaxParty - 1)
        BY <2>1, SeatsCount, BoutAssumption DEF AskSeat, Full
      <3>3. QED
        BY <3>1, <3>2
    <2>2. CASE Seat
      BY <2>2 DEF Seat, NoRoute
    <2>3. CASE ~AskSeat /\ ~Seat
      <3>1. route' = route
        BY <2>3 DEF TailNext, CallStep, Begin, SkipNarration, SaveNarration, NarratorFails, MeetRecruit,
                    SeatRecruit, Load, Reckon, NoTags, Fight, FightConflicts, FightCollides, Spar,
                    NextScene, Link, CallDies, tail
      <3>2. QED
        BY <3>1 DEF StepInv
    <2>4. QED
      BY <2>1, <2>2, <2>3
  <1>4. spent' \in [faults : 0..MaxFaults, links : 0..MaxLinks]
    <2>1. MaxFaults \in Nat /\ MaxLinks \in Nat
      BY TailAssumption
    <2>2. CASE Link
      BY <2>1, <2>2 DEF Link, StepInv
    <2>3. CASE CallDies
      BY <2>1, <2>3 DEF CallDies, StepInv
    <2>4. CASE ~Link /\ ~CallDies
      <3>1. spent' = spent
        BY <2>4 DEF TailNext, CallStep, Begin, SkipNarration, SaveNarration, NarratorFails, MeetRecruit,
                    SeatRecruit, Load, Reckon, NoTags, Fight, FightConflicts, FightCollides, Spar,
                    NextScene, AskSeat, Seat, tail
      <3>2. QED
        BY <3>1 DEF StepInv
    <2>5. QED
      BY <2>2, <2>3, <2>4
  <1>5. QED
    BY <1>1, <1>2, <1>3, <1>4 DEF StepInv

LEMMA RosterStays ==
    ASSUME RowsInv, StepInv, FightInv, [TailNext]_tail, call' = call
    PROVE  FightInv'
  <1>1. SUFFICES ASSUME call.pc \in {"reckon", "fight"}
                 PROVE  pools' = pools
    BY <1>1, RowsGo DEF FightInv, SheetsOf
  <1>2. ~Fight
    <2>1. Fight => call'.pc = "settle"
      BY Gone DEF Fight
    <2>2. QED
      BY <1>1, <2>1
  <1>3. QED
    BY <1>2, Moves, ReadsKeep DEF SeatRecruit, Seat, Spar, Link

LEMMA FightStep ==
    ASSUME RowsInv, StepInv, FightInv, [TailNext]_tail
    PROVE  FightInv'
  <1>1. CASE Begin \/ SkipNarration \/ NarratorFails \/ NoTags \/ Fight \/ NextScene
    BY <1>1, Started, Gone DEF Begin, SkipNarration, NarratorFails, NoTags, Fight, NextScene, FightInv
  <1>2. CASE SaveNarration
    BY <1>2 DEF SaveNarration, FightInv, StepInv, CallInv
  <1>3. CASE Fails
    BY <1>3, FailsWorks DEF FightInv
  <1>4. CASE MeetRecruit \/ SeatRecruit
    BY <1>3, <1>4 DEF MeetRecruit, SeatRecruit, NextRecruit, FightInv, StepInv, CallInv
  <1>5. CASE Load
    <2>1. /\ party' = party /\ pools' = pools /\ call'.roster = Roster /\ call'.live = pools
          /\ call'.report = Opening(SheetsOf(Roster), pools)
      BY <1>5 DEF Load, StepInv, CallInv
    <2>2. Working(Opening(SheetsOf(Roster), pools), SheetsOf(Roster))
      BY RosterRows, OpeningWorks DEF RowsInv, Stored
    <2>3. QED
      BY <2>1, <2>2, RosterRows DEF FightInv, Names, SheetsOf
  <1>6. CASE Reckon
    <2>1. CASE call.todo = <<>>
      <3>1. call' = Goto("fight") /\ party' = party /\ pools' = pools /\ call.pc = "reckon"
        BY <1>6, <2>1 DEF Reckon, At
      <3>2. QED
        BY <3>1, Gone DEF FightInv, Names, SheetsOf
    <2>2. CASE call.todo # <<>>
      <3>1. /\ party' = party /\ pools' = pools /\ call.pc = "reckon"
            /\ call'.roster = call.roster /\ call'.live = call.live
            /\ call'.report = ResolveTag(call.report, Head(call.todo), SheetsOf(call.roster), rolls[Here])
        BY <1>6, <2>2 DEF Reckon, StepInv, CallInv, At
      <3>2. Head(call.todo) \in Tags
        BY <1>6, <2>2 DEF Reckon, StepInv, CallInv, At
      <3>3. Parsed(Head(call.todo))
        BY <3>2, SheetsAssumption DEF Tags
      <3>4. Stream(rolls[Here])
        BY TailAssumption DEF Stream, StepInv, CallInv, Here
      <3>5. Working(call'.report, SheetsOf(call.roster))
        BY <3>1, <3>3, <3>4, TagWorks DEF FightInv
      <3>6. QED
        BY <3>1, <3>5 DEF FightInv, Names, SheetsOf
    <2>3. QED
      BY <2>1, <2>2
  <1>7. CASE FightConflicts
    <2>1. CASE call' = Goto("settle")
      BY <2>1, Gone DEF FightInv
    <2>2. CASE call' = [call EXCEPT !.pc = "reckon", !.tries = 1, !.roster = Roster, !.todo = told[Here].tags,
                                    !.report = Opening(SheetsOf(Roster), call.live)]
      <3>1. party' = party /\ pools' = pools /\ call.live = pools
        BY <1>7 DEF FightConflicts, FightInv, At
      <3>2. /\ call'.roster = Roster /\ call'.live = pools
            /\ call'.report = Opening(SheetsOf(Roster), pools)
        BY <2>2, <3>1 DEF StepInv, CallInv
      <3>3. Working(Opening(SheetsOf(Roster), pools), SheetsOf(Roster))
        BY RosterRows, OpeningWorks DEF RowsInv, Stored
      <3>4. QED
        BY <3>1, <3>2, <3>3, RosterRows DEF FightInv, Names, SheetsOf
    <2>3. QED
      BY <1>7, <2>1, <2>2 DEF FightConflicts
  <1>8. CASE (Spar /\ ~Fails) \/ AskSeat \/ Seat \/ Link \/ UNCHANGED tail
    <2>1. call' = call
      BY <1>8 DEF Spar, AskSeat, Seat, Link, tail
    <2>2. QED
      BY <2>1, RosterStays
  <1>9. QED
    BY <1>1, <1>2, <1>3, <1>4, <1>5, <1>6, <1>7, <1>8 DEF TailNext, CallStep, FightCollides, CallDies

-----------------------------------------------------------------------------
(* The cap                                                                 *)

LEMMA CapStep ==
    ASSUME RowsInv, StepInv, FightInv, CapInv, OnceInv, [TailNext]_tail
    PROVE  CapInv'
  <1>1. Cardinality(Names) \in Nat /\ MaxParty \in Nat
    BY SeatsCount, BoutAssumption
  <1>2. CASE Joining
    <2>1. PICK seats \in 0..(MaxParty - 1) : past' = [past EXCEPT !.overlaps = @ + Overlapped(seats)]
      BY <1>2, JoiningJoins
    <2>2. past'.overlaps = past.overlaps + Overlapped(seats)
      BY <2>1 DEF OnceInv
    <2>3. Cardinality(Names') = Cardinality(Names) + 1
      BY <1>2, JoiningJoins, JoinRows
    <2>4. Overlapped(seats) = IF Cardinality(Names) > seats THEN 1 ELSE 0
      BY DEF Overlapped
    <2>5. QED
      BY <1>1, <2>2, <2>3, <2>4 DEF CapInv, CapHolds
  <1>3. CASE ~Joining
    <2>1. Names' = Names
      <3>1. CASE SeatRecruit \/ Seat
        BY <1>3, <3>1 DEF Joining, Names
      <3>2. CASE ~(SeatRecruit \/ Seat)
        BY <3>2, Moves, ReadsKeep, StruckRows, SparRows, LinkRows DEF Fight, Names
      <3>3. QED
        BY <3>1, <3>2
    <2>2. past'.overlaps = past.overlaps
      <3>1. CASE Fails
        BY <3>1 DEF Fails, OnceInv
      <3>2. CASE Fight
        BY <3>2 DEF Fight, OnceInv
      <3>3. CASE Spar
        BY <3>1, <3>3 DEF Spar, OnceInv
      <3>4. CASE ~Fails /\ ~Fight /\ ~Spar
        <4>1. past' = past
          BY <1>3, <3>4 DEF Joining, TailNext, CallStep, Begin, SkipNarration, SaveNarration, NarratorFails,
                 MeetRecruit, SeatRecruit, Load, Reckon, NoTags, FightConflicts, FightCollides, NextScene,
                 AskSeat, Seat, Link, CallDies, tail
        <4>2. QED
          BY <4>1
      <3>5. QED
        BY <3>1, <3>2, <3>3, <3>4
    <2>3. QED
      BY <2>1, <2>2 DEF CapInv, CapHolds
  <1>4. QED
    BY <1>2, <1>3

\* Steps beside the call.
Beside == AskSeat \/ Seat \/ Link \/ UNCHANGED tail

LEMMA BesideKeeps ==
    ASSUME Beside
    PROVE  call' = call /\ told' = told /\ bouts' = bouts /\ gates' = gates
  BY DEF Beside, AskSeat, Seat, Link, tail

\* The second look at the roster.
Retry == call' = [call EXCEPT !.pc = "reckon", !.tries = 1, !.roster = Roster, !.todo = told[Here].tags,
                              !.report = Opening(SheetsOf(Roster), call.live)]

LEMMA EntersFight ==
    ASSUME StepInv, [TailNext]_tail, call'.pc \in {"reckon", "fight"}
    PROVE  Load \/ Reckon \/ (FightConflicts /\ Retry) \/ Beside
  <1>1. ~Fails
    BY FailsWorks
  <1>2. ~(Begin \/ SkipNarration \/ NarratorFails \/ NoTags \/ Fight \/ NextScene)
    BY Started, Gone DEF Begin, SkipNarration, NarratorFails, NoTags, Fight, NextScene
  <1>3. ~SaveNarration
    BY DEF SaveNarration, StepInv, CallInv
  <1>4. ~(MeetRecruit \/ SeatRecruit)
    BY <1>1 DEF MeetRecruit, SeatRecruit, NextRecruit, StepInv, CallInv
  <1>5. FightConflicts => Retry
    BY Gone DEF FightConflicts, Retry
  <1>6. ~(Spar \/ FightCollides \/ CallDies)
    <2>1. Spar => At("settle") /\ call' = call
      BY <1>1 DEF Spar
    <2>2. QED
      BY <1>1, <2>1 DEF FightCollides, CallDies, At
  <1>7. QED
    BY <1>2, <1>3, <1>4, <1>5, <1>6 DEF TailNext, CallStep, Beside

LEMMA RetryIs ==
    ASSUME StepInv, Retry
    PROVE  /\ call'.pc = "reckon" /\ call'.scene = call.scene /\ call'.tries = 1 /\ call'.roster = Roster
           /\ call'.todo = told[Here].tags
  BY DEF Retry, StepInv, CallInv

LEMMA LoadIs ==
    ASSUME StepInv, Load
    PROVE  /\ call.pc = "load" /\ call'.pc = IF Names = {} THEN "settle" ELSE "reckon"
           /\ call'.scene = call.scene /\ call'.tries = 0 /\ call'.roster = Roster
           /\ call'.todo = told[Here].tags /\ party' = party /\ told' = told /\ bouts' = bouts
           /\ spent' = spent /\ past' = past
  BY DEF Load, StepInv, CallInv, At

LEMMA ReckonIs ==
    ASSUME StepInv, Reckon
    PROVE  /\ call.pc = "reckon" /\ call'.pc \in {"reckon", "fight"}
           /\ call'.scene = call.scene /\ call'.tries = call.tries /\ call'.roster = call.roster
           /\ party' = party /\ told' = told /\ bouts' = bouts /\ spent' = spent /\ past' = past
  BY DEF Reckon, Goto, StepInv, CallInv, At

LEMMA ConflictIs ==
    ASSUME RowsInv, StepInv, FightInv, LinksInv, FightConflicts
    PROVE  /\ call.pc = "fight" /\ ~Current /\ (call.tries = 0 => spent.links # 0)
           /\ (call.tries = 1 => spent.links > 1)
           /\ party' = party /\ told' = told /\ bouts' = bouts /\ spent' = spent /\ past' = past
  <1>1. /\ call.pc = "fight" /\ party' = party /\ told' = told /\ bouts' = bouts /\ spent' = spent
        /\ past' = past
    BY DEF FightConflicts, At
  <1>2. ~VersionsHold(call.report)
    BY DEF FightConflicts
  <1>3. call.live = pools /\ call.report.touched \subseteq DOMAIN call.roster
    BY <1>1 DEF FightInv, Working, SheetsOf
  <1>4. ~Current
    BY <1>2, <1>3 DEF VersionsHold, Current
  <1>5. spent.links \in Nat /\ call.tries \in 0..1
    BY TailAssumption DEF StepInv, CallInv
  <1>6. (call.tries = 0 => spent.links # 0) /\ (call.tries = 1 => spent.links # 0 /\ spent.links # 1)
    BY <1>1, <1>4 DEF LinksInv
  <1>7. QED
    BY <1>1, <1>4, <1>5, <1>6

LEMMA RosterCurrent ==
    ASSUME RowsInv, call'.roster = Roster, party' = party
    PROVE  Current'
  BY RosterRows DEF Current

LEMMA LinksStep ==
    ASSUME RowsInv, StepInv, FightInv, LinksInv, [TailNext]_tail
    PROVE  LinksInv'
  <1>1. SUFFICES ASSUME call'.pc \in {"reckon", "fight"}
                 PROVE  /\ call'.tries = 0 /\ spent'.links = 0 => Current'
                        /\ call'.tries = 1 => spent'.links # 0 /\ (spent'.links = 1 => Current')
    BY DEF LinksInv
  <1>2. CASE Load
    BY <1>2, LoadIs, RosterCurrent
  <1>3. CASE Reckon
    BY <1>3, ReckonIs DEF LinksInv, Current
  <1>4. CASE FightConflicts /\ Retry
    <2>1. call.tries \in 0..1
      BY DEF StepInv, CallInv
    <2>2. spent'.links # 0
      BY <1>4, <2>1, ConflictIs
    <2>3. QED
      BY <1>4, <2>2, ConflictIs, RetryIs, RosterCurrent
  <1>5. CASE Beside
    <2>1. call' = call
      BY <1>5, BesideKeeps
    <2>2. CASE Link
      <3>1. spent'.links = spent.links + 1 /\ spent.links \in Nat
        BY <2>2, TailAssumption DEF Link, StepInv
      <3>2. QED
        BY <1>1, <2>1, <3>1 DEF LinksInv
    <2>3. CASE ~Link
      <3>1. spent' = spent
        BY <1>5, <2>3 DEF Beside, AskSeat, Seat, tail
      <3>2. \A n \in Names : party'[n] = party[n]
        <4>1. CASE Joining
          BY <4>1, JoiningJoins, JoinRows
        <4>2. CASE ~Joining
          BY <1>5, <2>3, <4>2 DEF Joining, Beside, AskSeat, tail
        <4>3. QED
          BY <4>1, <4>2
      <3>3. Current => Current'
        BY <1>1, <2>1, <3>2 DEF Current, FightInv
      <3>4. QED
        BY <1>1, <2>1, <3>1, <3>3 DEF LinksInv
    <2>4. QED
      BY <2>2, <2>3
  <1>6. QED
    BY <1>1, <1>2, <1>3, <1>4, <1>5, EntersFight

LEMMA HeardStep ==
    ASSUME StepInv, FightInv, HeardInv, [TailNext]_tail
    PROVE  HeardInv'
  <1>1. SUFFICES ASSUME call'.pc \in {"reckon", "fight"}
                 PROVE  HeardInv'
    BY DEF HeardInv, At
  <1>2. CASE Load
    BY <1>1, <1>2, LoadIs DEF HeardInv, At, Here
  <1>3. CASE Reckon
    <2>1. Here' = Here /\ told' = told /\ call.pc = "reckon"
      BY <1>3, ReckonIs DEF Here
    <2>2. CASE call.todo = <<>>
      BY <1>3, <2>1, <2>2, Gone DEF Reckon, HeardInv, At
    <2>3. CASE call.todo # <<>>
      <3>1. /\ call'.pc = "reckon"
            /\ call'.report = ResolveTag(call.report, Head(call.todo), SheetsOf(call.roster), rolls[Here])
        BY <1>3, <2>1, <2>3 DEF Reckon, StepInv, CallInv
      <3>2. call.todo \in Seq(Tags)
        BY <2>1 DEF StepInv, CallInv, At
      <3>3. Head(call.todo) \in Tags
        BY <2>3, <3>2
      <3>4. Parsed(Head(call.todo))
        BY <3>3, SheetsAssumption DEF Tags
      <3>5. Stream(rolls[Here])
        BY TailAssumption DEF Stream, StepInv, CallInv, Here
      <3>6. ~Silent(call'.report)
        BY <2>1, <3>1, <3>4, <3>5, TagWorks DEF FightInv
      <3>7. Silent(call.report)' = Silent(call'.report)
        BY DEF Silent
      <3>8. QED
        BY <2>1, <3>1, <3>6, <3>7 DEF HeardInv, At
    <2>4. QED
      BY <2>2, <2>3
  <1>4. CASE FightConflicts /\ Retry
    <2>1. told' = told
      BY <1>4 DEF FightConflicts
    <2>2. QED
      BY <1>4, <2>1, RetryIs DEF HeardInv, At, Here
  <1>5. CASE Beside
    BY <1>5, BesideKeeps DEF HeardInv, At, Here, Silent
  <1>6. QED
    BY <1>1, <1>2, <1>3, <1>4, <1>5, EntersFight

\* Blows fall.
Blow == bouts' = bouts \union {Here} /\ past' = [past EXCEPT !.dealt[Here] = @ + 1] /\ Fresh(Here)

LEMMA OneMore ==
    ASSUME NEW S, NEW d \in [S -> Nat], NEW x \in S, NEW e, e = [d EXCEPT ![x] = @ + 1]
    PROVE  /\ e \in [S -> Nat] /\ e[x] = d[x] + 1
           /\ \A y \in S : y # x => e[y] = d[y]
  OBVIOUS

LEMMA BlowOnce ==
    ASSUME StepInv, OnceInv, Blow, \A g \in gates' : g[1] \in 1..Scenes /\ g[2] \in DOMAIN Sparring[g[1]]
    PROVE  OnceInv'
  <1>1. Here \in 1..Scenes /\ Here \notin bouts
    BY DEF Blow, Fresh, StepInv, CallInv, Here
  <1>2. past.dealt \in [1..Scenes -> Nat] /\ past.dealt[Here] = 0
    <2>1. past.dealt[Here] \in Nat /\ past.dealt[Here] <= 1 /\ past.dealt[Here] # 1
      BY <1>1 DEF OnceInv, DealtOnce
    <2>2. QED
      BY <2>1 DEF OnceInv
  <1>3. /\ DOMAIN past' = DOMAIN past /\ past'.cut = past.cut
        /\ past'.dealt = [past.dealt EXCEPT ![Here] = @ + 1]
    BY DEF Blow, OnceInv
  <1>4. /\ past'.dealt \in [1..Scenes -> Nat] /\ past'.dealt[Here] = past.dealt[Here] + 1
        /\ \A s \in 1..Scenes : s # Here => past'.dealt[s] = past.dealt[s]
    <2>1. PICK d, e, x : d = past.dealt /\ e = past'.dealt /\ x = Here
      OBVIOUS
    <2>2. d \in [1..Scenes -> Nat] /\ x \in 1..Scenes /\ e = [d EXCEPT ![x] = @ + 1]
      BY <1>1, <1>2, <1>3, <2>1
    <2>3. e \in [1..Scenes -> Nat] /\ e[x] = d[x] + 1 /\ \A y \in 1..Scenes : y # x => e[y] = d[y]
      BY <2>2, OneMore
    <2>4. QED
      BY <2>1, <2>3
  <1>5. past'.dealt[Here] = 1
    BY <1>2, <1>4
  <1>6. bouts' \subseteq 1..Scenes
    BY <1>1 DEF Blow, OnceInv
  <1>7. DealtOnce'
    <2>1. ASSUME NEW s \in 1..Scenes
          PROVE  past'.dealt[s] <= 1 /\ (past'.dealt[s] = 1 <=> s \in bouts')
      <3>1. CASE s = Here
        BY <1>5, <3>1 DEF Blow
      <3>2. CASE s # Here
        <4>1. past.dealt[s] <= 1 /\ (past.dealt[s] = 1 <=> s \in bouts)
          BY DEF OnceInv, DealtOnce
        <4>2. s \in bouts' <=> s \in bouts
          BY <3>2 DEF Blow
        <4>3. QED
          BY <1>4, <3>2, <4>1, <4>2
      <3>3. QED
        BY <3>1, <3>2
    <2>2. QED
      BY <2>1 DEF DealtOnce
  <1>8. QED
    BY <1>3, <1>4, <1>6, <1>7 DEF OnceInv

LEMMA GateIsOne ==
    ASSUME StepInv, Unsettled(Here) # {}
    PROVE  NextGate[1] = Here /\ NextGate[1] \in 1..Scenes /\ NextGate[2] \in DOMAIN Sparring[NextGate[1]]
  <1> DEFINE open == Unsettled(Here)
  <1>1. Here \in 1..Scenes
    BY DEF StepInv, CallInv, Here
  <1>2. open \in SUBSET Nat /\ open \subseteq DOMAIN Sparring[Here]
    BY <1>1, TailAssumption DEF Unsettled
  <1>3. Min(open) \in open
    <2> HIDE DEF open
    <2>1. open # {}
      BY DEF open
    <2>2. QED
      BY <1>2, <2>1, LeastOf
  <1>4. NextGate = <<Here, Min(open)>>
    BY DEF NextGate
  <1> HIDE DEF open
  <1>5. QED
    BY <1>1, <1>2, <1>3, <1>4

LEMMA Blows ==
    ASSUME StepInv, OnceInv, Fight \/ (Spar /\ ~(Fails /\ UNCHANGED <<gates, bouts, party>>))
    PROVE  Blow /\ \A g \in gates' : g[1] \in 1..Scenes /\ g[2] \in DOMAIN Sparring[g[1]]
  <1>1. CASE Fight
    BY <1>1 DEF Fight, Blow, KeysFree, OnceInv
  <1>2. CASE Spar /\ ~(Fails /\ UNCHANGED <<gates, bouts, party>>)
    <2>1. Blow /\ gates' = gates \union {NextGate} /\ Unsettled(Here) # {}
      BY <1>2 DEF Spar, Blow
    <2>2. QED
      BY <2>1, GateIsOne DEF OnceInv
  <1>3. QED
    BY <1>1, <1>2

\* No blow falls, and at most the scene is cut.
Spared == /\ bouts' = bouts /\ gates' = gates
          /\ \/ past' = past \/ past' = [past EXCEPT !.cut = @ \union {Here}]
             \/ \E n : past' = [past EXCEPT !.overlaps = n]

LEMMA SparesOrStrikes ==
    ASSUME [TailNext]_tail
    PROVE  Spared \/ Fight \/ (Spar /\ ~(Fails /\ UNCHANGED <<gates, bouts, party>>))
  <1>1. CASE SeatRecruit \/ Seat
    <2>1. \/ past' = past \/ past' = [past EXCEPT !.cut = @ \union {Here}]
          \/ past' = [past EXCEPT !.overlaps = @ + Overlapped(call.seen.n)]
          \/ past' = [past EXCEPT !.overlaps = @ + Overlapped(route.seats)]
      BY <1>1 DEF SeatRecruit, Seat, Fails
    <2>2. bouts' = bouts /\ gates' = gates
      BY <1>1 DEF SeatRecruit, Seat
    <2>3. QED
      BY <2>1, <2>2 DEF Spared
  <1>2. CASE Spar
    BY <1>2 DEF Spar, Spared, Fails
  <1>3. CASE ~SeatRecruit /\ ~Seat /\ ~Spar /\ ~Fight
    <2>1. bouts' = bouts /\ gates' = gates
      BY <1>3 DEF TailNext, CallStep, Begin, SkipNarration, SaveNarration, NarratorFails, MeetRecruit,
             Load, Reckon, NoTags, FightConflicts, FightCollides, NextScene, AskSeat, Link, CallDies, tail
    <2>2. past' = past \/ Fails
      BY <1>3 DEF TailNext, CallStep, Begin, SkipNarration, SaveNarration, NarratorFails, MeetRecruit,
             Load, Reckon, NoTags, FightConflicts, FightCollides, NextScene, AskSeat, Link, CallDies, tail
    <2>3. QED
      BY <2>1, <2>2 DEF Spared, Fails
  <1>4. QED
    BY <1>1, <1>2, <1>3

LEMMA OnceStep ==
    ASSUME StepInv, OnceInv, [TailNext]_tail
    PROVE  OnceInv'
  <1>1. CASE Spared
    <2>1. Here \in 1..Scenes
      BY DEF StepInv, CallInv, Here
    <2>2. /\ bouts' = bouts /\ gates' = gates /\ past'.dealt = past.dealt /\ DOMAIN past' = DOMAIN past
          /\ past'.cut = past.cut \/ past'.cut = past.cut \union {Here}
      BY <1>1 DEF Spared, OnceInv
    <2>3. QED
      BY <2>1, <2>2 DEF OnceInv, DealtOnce
  <1>2. CASE Fight \/ (Spar /\ ~(Fails /\ UNCHANGED <<gates, bouts, party>>))
    BY <1>2, Blows, BlowOnce
  <1>3. QED
    BY <1>1, <1>2, SparesOrStrikes

LEMMA CutGrows ==
    ASSUME StepInv, OnceInv, [TailNext]_tail
    PROVE  past.cut \subseteq past'.cut /\ bouts \subseteq bouts' /\ (Fails => Here \in past'.cut)
  <1>1. Fails => past'.cut = past.cut \union {Here}
    BY DEF Fails, OnceInv
  <1>2. Spared => bouts' = bouts /\ past.cut \subseteq past'.cut
    BY DEF Spared, OnceInv
  <1>3. Blow => past'.cut = past.cut /\ bouts \subseteq bouts'
    BY DEF Blow, OnceInv
  <1>4. QED
    BY <1>1, <1>2, <1>3, SparesOrStrikes, Blows

Owed(s) == told[s].written /\ told[s].tags # <<>> /\ s \notin past.cut /\ spent.links <= 1

LEMMA OwedStep ==
    ASSUME RowsInv, StepInv, FightInv, OnceInv, LinksInv, HeardInv, OwedInv, [TailNext]_tail
    PROVE  OwedInv'
  <1>1. SUFFICES ASSUME DOMAIN Founders # {}, NEW s \in 1..Scenes, Owed(s)', s \notin bouts'
                 PROVE  s = Here' /\ call'.pc \in Owing
    BY DEF OwedInv, Owed
  <1>2. spent.links \in Nat /\ spent'.links \in Nat /\ spent.links <= spent'.links
    <2>1. StepInv'
      BY StepStep
    <2>2. spent.links \in Nat /\ spent'.links \in Nat
      BY <2>1, TailAssumption DEF StepInv
    <2>3. spent'.links = spent.links \/ spent'.links = spent.links + 1
      BY DEF TailNext, CallStep, Begin, SkipNarration, SaveNarration, NarratorFails, MeetRecruit, SeatRecruit,
             Load, Reckon, NoTags, Fight, FightConflicts, FightCollides, Spar, NextScene, AskSeat, Seat,
             Link, CallDies, tail, StepInv
    <2>4. QED
      BY <2>2, <2>3
  <1>3. s \notin past.cut /\ s \notin bouts /\ spent.links <= 1
    BY <1>1, <1>2, CutGrows DEF Owed
  <1>4. CASE SaveNarration
    <2>1. PICK n \in Narrations :
              /\ told' = [told EXCEPT ![Here] = Told(n)]
              /\ call' = [call EXCEPT !.pc = IF Names = {} \/ n.recruits = <<>> THEN "load" ELSE "recruit",
                                      !.todo = n.recruits]
      BY <1>4 DEF SaveNarration
    <2>2. Here' = Here /\ call'.pc \in {"load", "recruit"} /\ call.pc = "narrate"
      BY <1>4, <2>1 DEF SaveNarration, Here, At, StepInv, CallInv
    <2>3. CASE s = Here
      BY <2>2, <2>3 DEF Owing
    <2>4. CASE s # Here
      <3>1. told'[s] = told[s]
        BY <2>1, <2>4
      <3>2. Owed(s)
        BY <1>1, <1>3, <3>1 DEF Owed
      <3>3. QED
        BY <1>1, <1>3, <2>4, <3>2 DEF OwedInv, Owed
    <2>5. QED
      BY <2>3, <2>4
  <1>5. CASE ~SaveNarration
    <2>1. told' = told
      BY <1>5 DEF TailNext, CallStep, Begin, SkipNarration, NarratorFails, MeetRecruit, SeatRecruit, Load,
             Reckon, NoTags, Fight, FightConflicts, FightCollides, Spar, NextScene, AskSeat, Seat,
             Link, CallDies, tail
    <2>2. Owed(s)
      BY <1>1, <1>3, <2>1 DEF Owed
    <2>3. s = Here /\ call.pc \in Owing
      BY <1>1, <1>3, <2>2 DEF OwedInv, Owed
    <2>4. ~Fails
      BY <1>1, <2>3, CutGrows DEF Owed
    <2>5. ~(Begin \/ SkipNarration \/ NarratorFails \/ NextScene \/ Spar)
      BY <2>3 DEF Begin, SkipNarration, NarratorFails, NextScene, Spar, At, Owing
    <2>6. ~NoTags
      BY <2>2, <2>3 DEF NoTags, HeardInv, At, Owed
    <2>7. ~Fight
      BY <1>1, <2>3 DEF Fight
    <2>8. CASE MeetRecruit \/ SeatRecruit
      BY <2>3, <2>4, <2>8 DEF MeetRecruit, SeatRecruit, NextRecruit, StepInv, CallInv, Here, Owing
    <2>9. CASE Load
      BY <1>1, <2>3, <2>9, LoadIs DEF RowsInv, Here, Owing
    <2>10. CASE Reckon
      BY <2>3, <2>10, ReckonIs DEF Here, Owing
    <2>11. CASE FightConflicts
      <3>1. call.tries \in 0..1
        BY DEF StepInv, CallInv
      <3>2. call.tries # 1
        BY <1>2, <1>3, <2>11, ConflictIs
      <3>3. Retry
        BY <2>11, <3>2 DEF FightConflicts, Retry
      <3>4. QED
        BY <2>3, <3>3, RetryIs DEF Here, Owing
    <2>12. CASE Beside
      BY <2>3, <2>12, BesideKeeps DEF Here
    <2>13. QED
      BY <1>5, <2>4, <2>5, <2>6, <2>7, <2>8, <2>9, <2>10, <2>11, <2>12
         DEF TailNext, CallStep, FightCollides, CallDies, Beside
  <1>6. QED
    BY <1>4, <1>5

-----------------------------------------------------------------------------
(* The invariant holds, and what follows from it                           *)

LEMMA TailStart == TailInit => TailInv
  <1> SUFFICES ASSUME TailInit PROVE TailInv
    OBVIOUS
  <1>1. call = Asleep /\ Scenes \in Nat \ {0}
    BY TailAssumption DEF TailInit
  <1>2. Names = DOMAIN Founders /\ \A n \in Names : party[n] = Row(Founders[n])
    BY DEF TailInit, Names
  <1>3. RowsInv
    <2>1. IsFiniteSet(DOMAIN Founders)
      BY TailAssumption
    <2>2. \A n \in DOMAIN Founders : SheetOf(Founders[n], n)
      BY SheetsAssumption
    <2>3. DOMAIN pools = {}
      BY DEF TailInit
    <2>4. \A n \in DOMAIN Founders : RowOf(Row(Founders[n]), n)
      BY <2>2 DEF RowOf, Row
    <2>5. \A n \in Names : RowOf(party[n], n)
      BY <1>2, <2>4
    <2>6. QED
      BY <1>2, <2>1, <2>3, <2>5 DEF RowsInv
  <1>4. CallInv
    BY <1>1, Slept DEF CallInv, CallSteps, At
  <1>5. ToldInv
    BY <1>1, Slept DEF TailInit, ToldInv, Owing
  <1>6. StepInv
    <2>1. spent \in [faults : 0..MaxFaults, links : 0..MaxLinks]
      BY TailAssumption DEF TailInit
    <2>2. QED
      BY <1>4, <1>5, <2>1 DEF TailInit, StepInv, NoRoute
  <1>7. CapInv
    <2>1. past.overlaps = 0 /\ Cardinality(Names) <= MaxParty
      BY <1>2, TailAssumption DEF TailInit
    <2>2. Cardinality(Names) \in Nat /\ MaxParty \in Nat
      BY <1>3, SeatsCount, BoutAssumption
    <2>3. QED
      BY <2>1, <2>2 DEF CapInv, CapHolds
  <1>8. OnceInv
    BY DEF TailInit, OnceInv, DealtOnce
  <1>9. FightInv /\ LinksInv /\ HeardInv
    BY <1>1, Slept DEF FightInv, LinksInv, HeardInv, At
  <1>10. OwedInv
    BY DEF TailInit, OwedInv, Untold
  <1>11. QED
    BY <1>3, <1>6, <1>7, <1>8, <1>9, <1>10 DEF TailInv

LEMMA TailStep == TailInv /\ [TailNext]_tail => TailInv'
  BY RowsStep, StepStep, FightStep, CapStep, OnceStep, LinksStep, HeardStep, OwedStep DEF TailInv

LEMMA TailKept == TailSpec => []TailInv
  BY TailStart, TailStep, PTL DEF TailSpec

\* Hit points stay between nothing and their owner's maximum, and every
\* event deals its blows once, whatever the tables, the narrations, the
\* deaths and the links (combat_resolve.py, _resolve_combat_tags).
THEOREM FightsHoldHolds == TailSpec => []FightsHold
  <1>1. TailInv => FightsHold
    <2>1. TailInv => VitalsInRange
      <3>1. ASSUME RowsInv PROVE VitalsInRange
        BY <3>1 DEF RowsInv, RowOf, SheetOf, Sound, Stored, Whole, VitalsInRange
      <3>2. QED
        BY <3>1 DEF TailInv
    <2>2. QED
      BY <2>1 DEF TailInv, OnceInv, FightsHold
  <1>2. QED
    BY <1>1, TailKept, PTL

\* With a party in place, at most one link, and no death or exception at its
\* scene, a narration with tags has had its fight by the time the call has
\* gone on (_resolve_combat_tags).
THEOREM ToldIsFoughtHolds == TailSpec => []ToldIsFought
  <1>1. ASSUME TailInv PROVE ToldIsFought
    <2>1. SUFFICES ASSUME DOMAIN Founders # {}, NEW s \in 1..Scenes, Owed(s),
                          At("done") \/ (~At("idle") /\ s < Here)
                   PROVE  s \in bouts
      BY DEF ToldIsFought, Owed
    <2>2. s \in bouts \/ (s = Here /\ call.pc \in Owing)
      BY <1>1, <2>1 DEF TailInv, OwedInv, Owed
    <2>3. Here \in 1..Scenes /\ Scenes \in Nat
      BY <1>1, TailAssumption DEF TailInv, StepInv, CallInv, Here
    <2>4. ~(s = Here /\ call.pc \in Owing)
      BY <2>1, <2>3 DEF At, Owing
    <2>5. QED
      BY <2>2, <2>4
  <1>2. QED
    BY <1>1, TailKept, PTL

\* The party never has more than MAX_PARTY_SIZE seats and one for every join
\* that overlapped another (_check_cap).
THEOREM CapHoldsAlways == TailSpec => []CapHolds
  <1>1. TailInv => CapHolds
    BY DEF TailInv, CapInv
  <1>2. QED
    BY <1>1, TailKept, PTL

\* The calls are where the code can be, rows carry their names, hit points
\* and versions count.
THEOREM TailTypeCorrect == TailSpec => []TailTypeOK
  <1>1. ASSUME TailInv PROVE TailTypeOK
    <2>1. \A n \in Names : party[n].sheet.name = n /\ party[n].version \in Nat
      BY <1>1 DEF TailInv, RowsInv, RowOf, SheetOf
    <2>2. \A k \in DOMAIN pools : {pools[k].hp, pools[k].max, pools[k].version} \subseteq Nat
      BY <1>1, VigourIsNat DEF TailInv, RowsInv, Stored, Whole
    <2>3. \A s \in 1..Scenes : told[s] = Untold \/ told[s] \in {Told(n) : n \in Narrations}
      BY <1>1 DEF TailInv, StepInv, ToldInv
    <2>4. /\ rolls \in [1..Scenes -> Streams]
          /\ call.pc \in CallSteps /\ call.scene \in 1..Scenes /\ call.tries \in 0..1
          /\ route.pc = "seat" => route.name \in DOMAIN Newcomers /\ route.seats \in 0..(MaxParty - 1)
          /\ spent \in [faults : 0..MaxFaults, links : 0..MaxLinks]
      BY <1>1 DEF TailInv, StepInv, CallInv
    <2>5. /\ bouts \subseteq 1..Scenes
          /\ \A g \in gates : g[1] \in 1..Scenes /\ g[2] \in DOMAIN Sparring[g[1]]
          /\ past.dealt \in [1..Scenes -> Nat] /\ past.overlaps \in Nat /\ past.cut \subseteq 1..Scenes
      BY <1>1 DEF TailInv, OnceInv, CapInv
    <2>6. QED
      BY <2>1, <2>2, <2>3, <2>4, <2>5 DEF TailTypeOK
  <1>2. QED
    BY <1>1, TailKept, PTL
=============================================================================
