------------------------------ MODULE Chronicle ------------------------------
(***************************************************************************)
(* What is made of a world's record: its endings (application/macro/       *)
(* endings.py) and its eras (application/macro/eras.py).  Both read rows   *)
(* that phases, periods and overrides write meanwhile, one statement after *)
(* the other.                                                              *)
(*                                                                         *)
(* Of phases and periods, which take turns here (MacroPeriod lets them     *)
(* overlap), the clock and the schedules are kept: each commits its clock  *)
(* first and fires what is due in a second transaction.                    *)
(***************************************************************************)
EXTENDS Integers, Sequences, FiniteSets, Functions

CONSTANTS
    Characters,
    Schedules, Due, Victim, Major,  \* schedule -> phase, who dies of it (or Nobody), salience
    Nobody,
    Periods,        \* what resolution_range yields: [start, end]
    Window,         \* ending.peace_window_phases
    LastDayStart,   \* the phase at which ending.max_day begins
    Spans,          \* the intervals that eras are composed of
    MaxEraEvents, MaxEraMemories,
    Calls,          \* evaluations and composings that may overlap
    LastPhase,      \* bound: no phase or period goes past it
    Moments,        \* bound: phases that an evaluation is asked for
    MaxCalls,       \* bound: evaluations and composings in all
    Overridden,     \* bound: characters whose life an override changes
    MaxOverrides    \* bound: such overrides

ChronicleAssumption ==
    /\ {Window, MaxEraEvents, MaxEraMemories} \subseteq Nat \ {0}
    /\ IsFiniteSet(Schedules)
    /\ {LastDayStart, LastPhase, MaxCalls, MaxOverrides} \subseteq Nat /\ Moments \subseteq Nat
    /\ \A s \in Schedules : Due[s] \in Nat /\ Victim[s] \in Characters \union {Nobody} /\ Major[s] \in BOOLEAN
    /\ Nobody \notin Characters /\ Overridden \subseteq Characters
    /\ \A p \in Periods \union Spans : {p.start, p.end} \subseteq Nat /\ p.start < p.end

VARIABLES
    clock, status,  \* of the world
    row, store,     \* the version of its row, and the one commands expect
    log,            \* its events, in their sequence
    pending,        \* schedules that are still to fire
    alive, died,    \* living characters; character -> recorded date of death, or Never
    memories,       \* phases at which the owner of the eras got its memories
    work,           \* the phase or the period under way
    lived, skipped, \* phases and periods that are completed
    calls,          \* what each evaluation or composing is doing, with what it read
    evidence, eras, \* rows, in the order of their commits
    made, overrides

vars == <<clock, status, row, store, log, pending, alive, died, memories, work, lived, skipped,
          calls, evidence, eras, made, overrides>>
world == <<clock, status, row, store>>
rest == <<alive, died, pending, memories, lived, skipped>>
rows == <<calls, evidence, eras, made>>

Never == -1
Idle == [pc |-> "idle"]
NoWork == [pc |-> "none"]

Init ==
    /\ clock = 0 /\ status = "active" /\ row = 0 /\ store = 0
    /\ log = <<>> /\ pending = Schedules
    /\ alive = Characters /\ died = [c \in Characters |-> Never]
    /\ memories = <<>> /\ lived = {} /\ skipped = {}
    /\ work = NoWork /\ calls = [c \in Calls |-> Idle]
    /\ evidence = <<>> /\ eras = <<>> /\ made = 0 /\ overrides = 0

EventRow ==
    [type : {"ticked", "fired", "override", "ended"}, at : Nat, salient : BOOLEAN, major : BOOLEAN]
Event(type, at) == [type |-> type, at |-> at, salient |-> FALSE, major |-> FALSE]
EndConditionEvidenceRow ==
    [kind : {"eradicated", "peace", "day"}, at : Moments, start : Nat, satisfied : BOOLEAN,
     settled : BOOLEAN, clock : 0..LastPhase]
EraSummaryRow ==
    [span : Spans, events : SUBSET Nat, memories : SUBSET Nat, version : Nat \ {0}, after : Nat]

TypeOK ==
    /\ clock \in 0..LastPhase /\ status \in {"active", "ended"} /\ {row, store} \subseteq Nat
    /\ log \in Seq(EventRow) /\ pending \subseteq Schedules
    /\ alive \subseteq Characters /\ died \in [Characters -> 0..LastPhase \union {Never}]
    /\ memories \in Seq(0..LastPhase)
    /\ lived \subseteq 0..LastPhase /\ skipped \subseteq Periods
    /\ evidence \in Seq(EndConditionEvidenceRow) /\ eras \in Seq(EraSummaryRow)
    /\ made \in 0..MaxCalls /\ overrides \in 0..MaxOverrides

-----------------------------------------------------------------------------
(* Phases and periods.                                                     *)

DueBy(last) == {s \in pending : Due[s] <= last}
\* list_due sorts by the date alone.
Orders(S) ==
    {order \in [1..Cardinality(S) -> S] :
        /\ IsInjective(order)
        /\ \A m, n \in DOMAIN order : m < n => Due[order[m]] <= Due[order[n]]}

\* _require_previous_complete: the phase before it, or a period that ends here.
Continues(i) == i <= 1 \/ i - 1 \in lived \/ \E p \in skipped : p.end = i

BeginPhase ==
    /\ work = NoWork
    /\ \E i \in {clock, clock + 1} \ lived :
        /\ i <= LastPhase /\ Continues(i)
        /\ work' = [pc |-> "tick", kind |-> "phase", to |-> i, last |-> i, at |-> i]
    /\ UNCHANGED <<world, rest, log, rows, overrides>>

\* The route's break: no period is run over a major event that is pending.
BeginPeriod ==
    /\ work = NoWork /\ status = "active"
    /\ \E p \in Periods :
        /\ clock = p.start /\ p.end <= LastPhase
        /\ ~\E s \in DueBy(p.end - 1) : Major[s] /\ Due[s] >= p.start
        /\ work' = [pc |-> "tick", kind |-> "period", to |-> p.end, last |-> p.end - 1, at |-> p.start]
    /\ UNCHANGED <<world, rest, log, rows, overrides>>

\* The version store passes the command, the world's row refuses it if they differ.
CommitClock ==
    /\ work.pc = "tick"
    /\ \/ /\ clock = work.to
          /\ work' = [work EXCEPT !.pc = "fire"] /\ UNCHANGED <<world, log>>
       \/ /\ clock # work.to /\ row = store
          /\ clock' = work.to /\ row' = row + 1 /\ store' = store + 1
          /\ log' = Append(log, Event("ticked", work.last))
          /\ work' = [work EXCEPT !.pc = "fire"] /\ UNCHANGED status
       \/ /\ clock # work.to /\ row # store
          /\ work' = NoWork /\ UNCHANGED <<world, log>>
    /\ UNCHANGED <<rest, rows, overrides>>

\* Stage 1 dates what it fires by its phase, says nothing of salience and
\* applies nothing.  The owner has a memory of every phase.
FiredInPhase(s) == [type |-> "fired", at |-> work.to, salient |-> FALSE, major |-> Major[s]]
FiredInPeriod(s) == [type |-> "fired", at |-> Due[s], salient |-> Major[s], major |-> Major[s]]

FirePhase ==
    /\ work.pc = "fire" /\ work.kind = "phase"
    /\ \E order \in Orders(DueBy(work.last)) :
          log' = log \o [n \in DOMAIN order |-> FiredInPhase(order[n])]
    /\ pending' = pending \ DueBy(work.last)
    /\ memories' = Append(memories, work.to)
    /\ lived' = lived \union {work.to} /\ work' = NoWork
    /\ UNCHANGED <<world, alive, died, skipped, rows, overrides>>

\* _apply_death passes over one who is dead.
Dying == {c \in alive : \E s \in DueBy(work.last) : Victim[s] = c}
DateOfDeath(c) ==
    CHOOSE date \in {Due[s] : s \in {t \in DueBy(work.last) : Victim[t] = c}} :
        \A s \in DueBy(work.last) : Victim[s] = c => date <= Due[s]

FirePeriod ==
    /\ work.pc = "fire" /\ work.kind = "period"
    /\ \E order \in Orders(DueBy(work.last)) :
          log' = log \o [n \in DOMAIN order |-> FiredInPeriod(order[n])]
    /\ pending' = pending \ DueBy(work.last)
    /\ alive' = alive \ Dying
    /\ died' = [c \in Characters |-> IF c \in Dying THEN DateOfDeath(c) ELSE died[c]]
    /\ skipped' = skipped \union {[start |-> work.at, end |-> work.to]} /\ work' = NoWork
    /\ UNCHANGED <<world, memories, lived, rows, overrides>>

\* An override kills or revives, and leaves the lineage as it is.
Override ==
    /\ work = NoWork    \* bound: between phases
    /\ overrides < MaxOverrides /\ overrides' = overrides + 1
    /\ \E c \in Overridden : alive' = (alive \ {c}) \union ({c} \ alive)
    /\ log' = Append(log, Event("override", clock))
    /\ UNCHANGED <<world, died, pending, memories, lived, skipped, work, rows>>

-----------------------------------------------------------------------------
(* evaluate_endings, for the phase that the request names.                 *)

\* Calls differ in nothing: one that is idle asks.
Ask(c, asked) ==
    /\ calls[c] = Idle /\ c = (CHOOSE d \in Calls : calls[d] = Idle)
    /\ made < MaxCalls /\ made' = made + 1
    /\ calls' = [calls EXCEPT ![c] = asked]
    /\ UNCHANGED <<world, rest, log, work, evidence, eras, overrides>>

EvaluateEndings(c) ==
    \E at \in Moments :
        Ask(c, [pc |-> "deaths", at |-> at, start |-> IF at > Window THEN at - Window ELSE 0])

\* The events inside [start, end).
Inside(from, to) == {n \in DOMAIN log : log[n].at >= from /\ log[n].at < to}

\* One who died at the window's first phase is passed over (a mutant).
Deaths_After(from, to) == {c \in Characters : died[c] > from /\ died[c] < to}
Deaths(from, to) == {c \in Characters : died[c] >= from /\ died[c] < to}

\* What is past has been written down: nothing that is due waits behind the clock.
Settled(at) == at <= clock /\ work.pc # "fire"

ReadDeaths(c) ==
    /\ calls[c].pc = "deaths"
    /\ calls' = [calls EXCEPT ![c] =
                   [pc |-> "events", at |-> @.at, start |-> @.start, clock |-> clock,
                    settled |-> Settled(@.at), deaths |-> Deaths(@.start, @.at)]]
    /\ UNCHANGED <<world, rest, log, work, evidence, eras, made, overrides>>

ReadEventsAndLives(c) ==
    /\ calls[c].pc = "events"
    /\ calls' = [calls EXCEPT ![c] =
                   [pc |-> "save", at |-> @.at, start |-> @.start, clock |-> @.clock,
                    settled |-> @.settled, deaths |-> @.deaths, living |-> alive,
                    salient |-> {n \in Inside(@.start, @.at) : log[n].salient}]]
    /\ UNCHANGED <<world, rest, log, work, evidence, eras, made, overrides>>

Evidence(e, kind, start, satisfied) ==
    [kind |-> kind, at |-> e.at, start |-> start, satisfied |-> satisfied,
     settled |-> e.settled, clock |-> e.clock]

\* A short history is quiet as well (a mutant).
FullWindow_Any(e) == TRUE
FullWindow(e) == e.at - e.start >= Window

Verdicts(e) ==
    << IF e.living = {} THEN Evidence(e, "eradicated", e.at, TRUE)
       ELSE Evidence(e, "peace", e.start, FullWindow(e) /\ e.deaths = {} /\ e.salient = {}),
       Evidence(e, "day", IF e.at < LastDayStart THEN e.at ELSE LastDayStart, e.at >= LastDayStart) >>

Satisfied(verdicts) == \E n \in DOMAIN verdicts : verdicts[n].satisfied

\* Whatever has become of the world (a mutant).
StillActive_Any == TRUE
StillActive == status = "active"

\* The store is told (a mutant).
MarkEnded_Synced(at) ==
    /\ status' = "ended" /\ row' = row + 1 /\ store' = store + 1
    /\ log' = Append(log, Event("ended", at))
\* Only the world's row is saved.
MarkEnded(at) ==
    /\ status' = "ended" /\ row' = row + 1
    /\ log' = Append(log, Event("ended", at))
    /\ UNCHANGED store

SaveEndings(c) ==
    /\ calls[c].pc = "save"
    /\ evidence' = evidence \o Verdicts(calls[c])
    /\ IF Satisfied(Verdicts(calls[c])) /\ StillActive
       THEN MarkEnded(calls[c].at) ELSE UNCHANGED <<status, row, store, log>>
    /\ calls' = [calls EXCEPT ![c] = Idle]
    /\ UNCHANGED <<clock, rest, work, eras, made, overrides>>

-----------------------------------------------------------------------------
(* compose_era, for one owner.                                             *)

ComposeEra(c) == \E s \in Spans : Ask(c, [pc |-> "window", span |-> s])

\* The newest are kept (a mutant).
Oldest_Newest(S, max) == {k \in S : Cardinality({j \in S : j > k}) < max}
\* The first of a list that has room for so many.
Oldest(S, max) == {k \in S : Cardinality({j \in S : j < k}) < max}

Sources(span) == Oldest(Inside(span.start, span.end), MaxEraEvents)

\* memories_for_owner: from the span's start on, OR of any salience, which all
\* have; the oldest ones are kept.
Owned(span) ==
    {memories[k] : k \in Oldest({k \in DOMAIN memories : memories[k] < span.end}, MaxEraMemories)}

Prior(span) == Cardinality({n \in DOMAIN eras : eras[n].span = span})

ReadWindow(c) ==
    /\ calls[c].pc = "window"
    /\ calls' = [calls EXCEPT ![c] =
                   [pc |-> "insert", span |-> @.span, after |-> Len(eras),
                    events |-> Sources(@.span), memories |-> Owned(@.span), version |-> Prior(@.span) + 1]]
    /\ UNCHANGED <<world, rest, log, work, evidence, eras, made, overrides>>

\* No key of the table holds versions apart.
InsertEra(c) ==
    /\ calls[c].pc = "insert"
    /\ eras' = Append(eras, [span |-> calls[c].span, events |-> calls[c].events,
                             memories |-> calls[c].memories, version |-> calls[c].version,
                             after |-> calls[c].after])
    /\ calls' = [calls EXCEPT ![c] = Idle]
    /\ UNCHANGED <<world, rest, log, work, evidence, made, overrides>>

\* The session is rolled back: it died, or another moved the world's row
\* between its read and its save.
Abandon(c) ==
    /\ calls[c] # Idle
    /\ calls' = [calls EXCEPT ![c] = Idle]
    /\ UNCHANGED <<world, rest, log, work, evidence, eras, made, overrides>>

Next ==
    \/ BeginPhase \/ BeginPeriod \/ CommitClock \/ FirePhase \/ FirePeriod \/ Override
    \/ \E c \in Calls :
        \/ EvaluateEndings(c) \/ ReadDeaths(c) \/ ReadEventsAndLives(c) \/ SaveEndings(c)
        \/ ComposeEra(c) \/ ReadWindow(c) \/ InsertEra(c) \/ Abandon(c)

Spec == Init /\ [][Next]_vars

-----------------------------------------------------------------------------
Peaceful(e) == e.kind = "peace" /\ e.satisfied /\ e.settled

\* "A full configured window with no recorded deaths ... One calm scene can
\* never satisfy it" (endings.py:5): peace that was found in what is past spans
\* the window, and no death dated in it is on record, nor comes to be later.
PeaceHolds ==
    \A n \in DOMAIN evidence :
        Peaceful(evidence[n]) =>
            /\ evidence[n].at - evidence[n].start = Window
            /\ \A c \in Characters : died[c] \notin evidence[n].start .. evidence[n].at - 1

\* "The first satisfied evaluation also commits one world-ended event and marks
\* the world ended; later calls ... skip the final event" (endings.py:12), also
\* when evaluations overlap.
EndedOnce ==
    LET endings == {n \in DOMAIN log : log[n].type = "ended"}
    IN  /\ Cardinality(endings) = IF status = "ended" THEN 1 ELSE 0
        /\ status = "ended" <=> Satisfied(evidence)

\* An ended world's clock stands still: macro looks at the status
\* (engine.py:125), which a period may have read before the end, and phases do
\* not look at all; what holds both is that the ending moves the row and not
\* the store.
EndedIsStill ==
    \A m, n \in DOMAIN log : log[m].type = "ended" /\ log[n].type = "ticked" => n < m

\* One list of events, in their sequence, begins with another.
TellsFirst(events, told) == told \subseteq events /\ \A k \in events \ told : \A j \in told : j < k

\* "Regeneration appends a new versioned row instead of rewriting" (eras.py:7):
\* an era that is composed after another of its span has a later version, and
\* tells what that one told first.
ErasAccumulate ==
    \A n \in DOMAIN eras : \A m \in 1..eras[n].after :
        eras[m].span = eras[n].span =>
            /\ eras[m].version < eras[n].version
            /\ TellsFirst(eras[n].events, eras[m].events)

ChronicleHolds == PeaceHolds /\ EndedOnce /\ EndedIsStill /\ ErasAccumulate

-----------------------------------------------------------------------------
(* What the documents say and the code does not keep.                      *)

\* "No salient schedule fires" (endings.py:6): no major event has fired in the
\* window of a peace.
MajorEventsBreakPeace ==
    \A n \in DOMAIN evidence :
        Peaceful(evidence[n]) =>
            ~\E k \in DOMAIN log : /\ log[k].major
                                   /\ log[k].at \in evidence[n].start .. evidence[n].at - 1

\* "The clock reached the configured last day" (endings.py:9).
LastDayReached ==
    \A n \in DOMAIN evidence :
        evidence[n].kind = "day" /\ evidence[n].satisfied => clock >= LastDayStart

\* "A structural retelling of a macro interval" (eras.py:3).
ErasKeepToTheirSpan ==
    \A n \in DOMAIN eras : \A m \in eras[n].memories : m >= eras[n].span.start
=============================================================================
