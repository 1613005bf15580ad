---------------------------- MODULE Interventions ----------------------------
(***************************************************************************)
(* The queue of operator directions (application/interventions.py) and the *)
(* part of a phase request that applies it (interfaces/http/routes/        *)
(* stage1.py, advance): claim what is open, try every queued step, write   *)
(* the item's status, then run the phase with the attempts that were       *)
(* directed.  The execution slot is per phase: a request for the due phase *)
(* is alone, one for any other phase is admitted beside it, and only the   *)
(* phase runner, called last, refuses it.                                  *)
(*                                                                         *)
(* A session's transaction is one step.  The phase itself is one step that *)
(* succeeds or leaves nothing (PhaseStage1 is its model).                  *)
(***************************************************************************)
EXTENDS Naturals, Sequences, FiniteSets, FiniteSetsExt

CONSTANTS
    Items,         \* client request ids, numbered in the order of the row ids
    Actors, Calls,
    Plans,         \* what a model may make of a text: sequences of steps
    MaxSteps,      \* MAX_STEPS of a plan
    Places, Roads, \* locations, and the travel routes: pairs of them
    Home,          \* where everybody is at first
    Nowhere,       \* the destination of an activity that is no journey
    MaxDisturbances  \* bound on calls that die, edits, cancellations and activities
                     \* of other routes

Kinds == {"travel", "attempt", "override", "hook", "condition"}

ASSUME InterventionsAssumption ==
    /\ Items \subseteq Nat /\ IsFiniteSet(Items) /\ IsFiniteSet(Calls)
    /\ Home \in Places /\ Nowhere \notin Places /\ Roads \subseteq Places \X Places
    /\ MaxSteps \in Nat
    /\ Plans \subseteq Seq([kind : Kinds, actor : Actors, to : Places])
    /\ \A plan \in Plans : Len(plan) \in 1..MaxSteps
    /\ MaxDisturbances \in Nat

VARIABLES
    item,          \* status of the intervention rows
    row,           \* step rows of each item, in their order
    active,        \* active activities of each actor, by destination and author
    place,         \* location of each actor
    called,        \* titles and labels that exist, each as the step that made it
    applied,       \* bookkeeping: how often each step took effect
    call,          \* the requests in progress
    overlapped,    \* bookkeeping: two requests have been in progress at once
    disturbances

rows == <<item, row>>
world == <<active, place, called, applied>>
bounds == <<overlapped, disturbances>>
vars == <<rows, world, call, bounds>>

Steps == Items \X (1..MaxSteps)

ItemStatus == {"absent", "needs_clarification", "queued", "executing", "completed", "failed",
               "cancelled", "partially_completed"}
StepStatus == {"queued", "completed", "failed", "cancelled"}

\* What is read of a step's row.
StepRow == [kind : Kinds, actor : Actors, to : Places, status : StepStatus, version : Nat]

\* An activity, by its destination and the step that started it.
Elsewhere == <<0, 0>>
Activity == [to : Places \cup {Nowhere}, by : Steps \cup {Elsewhere}]

\* Mutant: what a dead call has left is not open.
Open_QueuedOnly == {i \in Items : item[i] = "queued"}

\* Mutant: a cancelled item is claimed too.
Open_Cancelled == {i \in Items : item[i] \in {"queued", "executing", "cancelled"}}

\* list_open_for_world: executing items whose call has died are open too.
Open == {i \in Items : item[i] \in {"queued", "executing"}}

\* "next" asks for the due phase, "other" for any other.
NoRows == [i \in Items |-> <<>>]
Idle == [pc |-> "idle", request |-> "next", todo |-> {}, batch |-> {}, rows |-> NoRows, busy |-> {},
         item |-> 0, slot |-> 0, version |-> 0, mark |-> "queued", directed |-> {}]

Pcs == {"idle", "claim", "read", "step", "start", "started", "create", "mark", "finish",
        "phase"}

Call == [pc : Pcs, request : {"next", "other"}, todo : SUBSET Items, batch : SUBSET Items,
         rows : [Items -> Seq(StepRow)], busy : SUBSET Actors,
         item : Nat, slot : 0..MaxSteps, version : Nat, mark : ItemStatus, directed : SUBSET Steps]

TypeOK ==
    /\ item \in [Items -> ItemStatus]
    /\ row \in [Items -> Seq(StepRow)] /\ \A i \in Items : Len(row[i]) <= MaxSteps
    /\ active \in [Actors -> SUBSET Activity] /\ place \in [Actors -> Places]
    /\ called \subseteq Steps /\ applied \in [Steps -> Nat]
    /\ call \in [Calls -> Call]
    /\ overlapped \in BOOLEAN /\ disturbances \in 0..MaxDisturbances

Init ==
    /\ item = [i \in Items |-> "absent"]
    /\ row = [i \in Items |-> <<>>]
    /\ active = [c \in Actors |-> {}]
    /\ place = [c \in Actors |-> Home]
    /\ called = {}
    /\ applied = [s \in Steps |-> 0]
    /\ call = [p \in Calls |-> Idle]
    /\ overlapped = FALSE /\ disturbances = 0

-----------------------------------------------------------------------------
(* Submitting, editing, cancelling                                         *)

Queued(plan) == [k \in DOMAIN plan |->
    [kind |-> plan[k].kind, actor |-> plan[k].actor, to |-> plan[k].to,
     status |-> "queued", version |-> 0]]

\* Versions of item rows are left out: whoever saves one has just read it.
Written(i, status) == [item EXCEPT ![i] = status]

\* The client's key makes one item, whoever asks and however often.
AddIntervention(i, status) == item[i] = "absent" /\ item' = Written(i, status)
AddSteps(i, plan) == row' = [row EXCEPT ![i] = Queued(plan)]

Submit(i) ==
    /\ \/ AddIntervention(i, "queued") /\ \E plan \in Plans : AddSteps(i, plan)
       \/ \E status \in {"needs_clarification", "failed"} :
             AddIntervention(i, status) /\ UNCHANGED row
    /\ UNCHANGED <<world, call, bounds>>

Disturbance == disturbances < MaxDisturbances /\ disturbances' = disturbances + 1
               /\ UNCHANGED overlapped
Command == Disturbance /\ UNCHANGED call

Stepped(r, status) == [r EXCEPT !.status = status, !.version = @ + 1]

\* A new plan has the sequence numbers and keys of the old: only an item
\* without steps can be given one.
Edit(i) ==
    /\ item[i] \in {"queued", "needs_clarification"}
    /\ \/ /\ row[i] = <<>>
          /\ \E plan \in Plans : AddSteps(i, plan)
          /\ item' = Written(i, "queued")
       \/ \E status \in {"needs_clarification", "failed"} :
             /\ item' = Written(i, status)
             /\ row' = [row EXCEPT ![i] = [k \in DOMAIN @ |-> Stepped(@[k], "cancelled")]]
    /\ Command /\ UNCHANGED world

\* Mutant: the queued steps are left.
Cancel_LeavesSteps(i) ==
    /\ item[i] \in {"queued", "needs_clarification", "executing", "partially_completed"}
    /\ item' = Written(i, "cancelled")
    /\ Command /\ UNCHANGED <<row, world>>

Cancel(i) ==
    /\ item[i] \in {"queued", "needs_clarification", "executing", "partially_completed"}
    /\ item' = Written(i, "cancelled")
    /\ row' = [row EXCEPT ![i] = [k \in DOMAIN @ |->
                  IF @[k].status = "queued" THEN Stepped(@[k], "cancelled") ELSE @[k]]]
    /\ Command /\ UNCHANGED world

AddActivity(c, to, by) == active' = [active EXCEPT ![c] = @ \cup {[to |-> to, by |-> by]}]

\* POST /activities: a rest, for who has no activity.
StartElsewhere(c) ==
    /\ active[c] = {}
    /\ AddActivity(c, Nowhere, Elsewhere)
    /\ Command /\ UNCHANGED <<rows, place, called, applied>>

-----------------------------------------------------------------------------
(* claim_for_boundary and apply_batch                                      *)

At(p, pc) == call[p].pc = pc
Goto(p, pc) == call' = [call EXCEPT ![p].pc = pc]
Ends(p) == call' = [call EXCEPT ![p] = Idle]

InProgress == {p \in Calls : ~At(p, "idle")}

Begin(p, request) ==
    /\ At(p, "idle")
    /\ request = "next" => \A q \in InProgress : call[q].request # "next"
    /\ call' = [call EXCEPT ![p].pc = "claim", ![p].request = request]
    /\ overlapped' = (overlapped \/ InProgress # {})
    /\ UNCHANGED <<rows, world, disturbances>>

\* One transaction: everything open is executing, its steps are read.
Claim(p) ==
    /\ At(p, "claim")
    /\ item' = [i \in Items |-> IF item[i] = "queued" THEN "executing" ELSE item[i]]
    /\ call' = [call EXCEPT ![p].pc = "read", ![p].todo = Open, ![p].batch = Open,
                            ![p].rows = [i \in Items |-> IF i \in Open THEN row[i] ELSE <<>>]]
    /\ UNCHANGED <<row, world, bounds>>

\* To the items of the batch in turn, then to the phase.
Onward(c) ==
    IF c.todo = {} THEN [Idle EXCEPT !.pc = "phase", !.request = c.request, !.batch = c.batch,
                                     !.directed = c.directed]
    ELSE [c EXCEPT !.pc = "step", !.item = Min(c.todo), !.slot = 0, !.todo = @ \ {Min(@)},
                   !.mark = "queued"]

\* Who is busy is read once for the whole batch.
ReadActives(p) ==
    /\ At(p, "read")
    /\ LET busy == {c \in Actors : active[c] # {}}
       IN  call' = [call EXCEPT ![p] = Onward([@ EXCEPT !.busy = busy])]
    /\ UNCHANGED <<rows, world, bounds>>

\* _chain_travel: a leg waits for the leg before it of the same actor.
Before(steps, k) == {j \in 1..(k - 1) : steps[j].kind = "travel" /\ steps[k].kind = "travel"
                                        /\ steps[j].actor = steps[k].actor}
Held(steps, k) == Before(steps, k) # {} /\ steps[Max(Before(steps, k))].status # "completed"

\* The steps of the item still to be tried, as they were when it was claimed.
Read(p) == call[p].rows[call[p].item]
Due(p) == {k \in DOMAIN Read(p) :
              /\ k > call[p].slot /\ Read(p)[k].status = "queued"
              /\ Before(Read(p), k) # {} => ~Held(Read(p), k) /\ Read(p)[k].actor \notin call[p].busy}

Trying(p, kind) == At(p, "step") /\ Due(p) # {} /\ Read(p)[Min(Due(p))].kind = kind
Tried(p) == Read(p)[Min(Due(p))]

\* The step in hand.
Here(p) == <<call[p].item, call[p].slot>>
Mine(p) == Read(p)[call[p].slot]
Id(p) == <<call[p].item, Min(Due(p))>>

\* To the mark, with the row version that is expected there.
Marking(p, slot, version, mark) ==
    call' = [call EXCEPT ![p].pc = "mark", ![p].slot = slot, ![p].version = version, ![p].mark = mark]
ToMark(p, mark) == Marking(p, Min(Due(p)), Tried(p).version, mark)
ToStep(p, pc) == call' = [call EXCEPT ![p].pc = pc, ![p].slot = Min(Due(p))]
Took(s) == applied' = [applied EXCEPT ![s] = @ + 1]

\* save_step: a row that has changed since raises, and the handler's own mark
\* raises again.
Fresh(s, version) == row[s[1]][s[2]].version = version

SaveStep(s, status) == row' = [row EXCEPT ![s[1]][s[2]] = Stepped(@, status)]

-----------------------------------------------------------------------------
(* _apply_step                                                             *)

\* Mutant: an activity to the same place is not looked for.
SameActivity_None(c, to) == FALSE
SameActivity(c, to) == \E a \in active[c] : a.to = to

\* _start_directed: what already runs there is the step's; else nothing may
\* run and a road must lead there.
TryTravel(p) ==
    /\ Trying(p, "travel")
    /\ LET c == Tried(p).actor
           to == Tried(p).to
           version == Tried(p).version
       IN  \/ /\ SameActivity(c, to) /\ Fresh(Id(p), version)
              /\ SaveStep(Id(p), "completed") /\ Marking(p, Id(p)[2], version + 1, "completed")
           \/ /\ SameActivity(c, to) /\ ~Fresh(Id(p), version)
              /\ Ends(p) /\ UNCHANGED row
           \/ /\ ~SameActivity(c, to)
              /\ IF active[c] = {} /\ <<place[c], to>> \in Roads
                 THEN ToStep(p, "start") ELSE ToMark(p, "failed")
              /\ UNCHANGED row
    /\ UNCHANGED <<item, world, bounds>>

\* start_activity commits before the step is saved.
StartTravel(p) ==
    /\ At(p, "start") /\ Goto(p, "started")
    /\ AddActivity(Mine(p).actor, Mine(p).to, Here(p))
    /\ Took(Here(p))
    /\ UNCHANGED <<rows, place, called, bounds>>

SaveTravel(p) ==
    /\ At(p, "started")
    /\ IF Fresh(Here(p), Mine(p).version)
       THEN /\ SaveStep(Here(p), "completed")
            /\ Marking(p, call[p].slot, Mine(p).version + 1, "completed")
       ELSE Ends(p) /\ UNCHANGED row
    /\ UNCHANGED <<item, world, bounds>>

\* _direct_attempt: kept in memory for the phase; one attempt for each actor.
\* A player may have filed one, a partner may be elsewhere.
FileAttempt(p) ==
    /\ Trying(p, "attempt")
    /\ \/ /\ \A s \in call[p].directed : row[s[1]][s[2]].actor # Tried(p).actor
          /\ call' = [call EXCEPT ![p].pc = "mark", ![p].slot = Id(p)[2], ![p].version = Tried(p).version,
                                  ![p].mark = "completed", ![p].directed = @ \cup {Id(p)}]
       \/ ToMark(p, "failed")
    /\ UNCHANGED <<rows, world, bounds>>

\* apply_override: a command with a key of its own each time, or a conflict.
Override(p) ==
    /\ Trying(p, "override")
    /\ \/ Took(Id(p)) /\ ToMark(p, "completed")
       \/ ToMark(p, "failed") /\ UNCHANGED applied
    /\ UNCHANGED <<rows, active, place, called, bounds>>

\* The rows of the kind, which are looked up by their titles and labels.
Listed(kind) == {s \in called : row[s[1]][s[2]].kind = kind}
AddRow(s) == called' = called \cup {s} /\ Took(s)

\* Mutant: titles and labels are not looked up.
Exists_Never(kind) == FALSE
Exists(kind) == Listed(kind) # {}

\* _accept_hook: look-up, validation and insertion in one transaction.
Hook(p) ==
    /\ Trying(p, "hook")
    /\ \/ Exists("hook") /\ ToMark(p, "completed") /\ UNCHANGED <<called, applied>>
       \/ ~Exists("hook") /\ ToMark(p, "failed") /\ UNCHANGED <<called, applied>>
       \/ ~Exists("hook") /\ ToMark(p, "completed") /\ AddRow(Id(p))
    /\ UNCHANGED <<rows, active, place, bounds>>

\* _create_condition: looked up in one transaction, inserted in another.
LookUpCondition(p) ==
    /\ Trying(p, "condition")
    /\ IF Exists("condition") THEN ToMark(p, "completed") ELSE ToStep(p, "create")
    /\ UNCHANGED <<rows, world, bounds>>

CreateCondition(p) ==
    /\ At(p, "create") /\ Marking(p, call[p].slot, Mine(p).version, "completed")
    /\ AddRow(Here(p))
    /\ UNCHANGED <<rows, active, place, bounds>>

Mark(p) ==
    /\ At(p, "mark")
    /\ IF Fresh(Here(p), call[p].version)
       THEN /\ SaveStep(Here(p), call[p].mark)
            /\ call' = [call EXCEPT ![p].pc = "step", ![p].version = 0, ![p].mark = "queued"]
       ELSE Ends(p) /\ UNCHANGED row
    /\ UNCHANGED <<item, world, bounds>>

-----------------------------------------------------------------------------
(* _finish_intervention, the phase, and what goes wrong                    *)

Outcome(i) ==
    LET states == {row[i][k].status : k \in DOMAIN row[i]}
    IN  IF "queued" \in states THEN "executing"
        ELSE IF states \subseteq {"completed"} THEN "completed"
        ELSE IF "completed" \in states THEN "partially_completed" ELSE "failed"

\* The steps are read first, the item's row is then written whatever it says.
FinishRead(p) ==
    /\ At(p, "step") /\ Due(p) = {}
    /\ call' = [call EXCEPT ![p].pc = "finish", ![p].mark = Outcome(call[p].item)]
    /\ UNCHANGED <<rows, world, bounds>>

FinishWrite(p) ==
    /\ At(p, "finish") /\ call' = [call EXCEPT ![p] = Onward(@)]
    /\ item' = Written(call[p].item, call[p].mark)
    /\ UNCHANGED <<row, world, bounds>>

\* The directed attempts are made with the phase; activities that are under
\* way may come to their end in it.
CompletePhase(p, ends) ==
    /\ At(p, "phase") /\ call[p].request = "next" /\ Ends(p)
    /\ applied' = [s \in Steps |-> IF s \in call[p].directed THEN applied[s] + 1 ELSE applied[s]]
    /\ active' = IF ends THEN [c \in Actors |-> {}] ELSE active
    /\ place' = [c \in Actors |->
          IF ends /\ \E a \in active[c] : <<place[c], a.to>> \in Roads
          THEN (CHOOSE a \in active[c] : <<place[c], a.to>> \in Roads).to ELSE place[c]]
    /\ UNCHANGED <<rows, called, bounds>>

\* Refused, answered from its rows, or failed.
NoPhase(p) ==
    /\ At(p, "phase") /\ Ends(p)
    /\ UNCHANGED <<rows, world, bounds>>

Fault(p) ==
    /\ p \in InProgress /\ Ends(p) /\ Disturbance
    /\ UNCHANGED <<rows, world>>

-----------------------------------------------------------------------------
CallStep(p) ==
    \/ Claim(p) \/ ReadActives(p)
    \/ TryTravel(p) \/ StartTravel(p) \/ SaveTravel(p) \/ FileAttempt(p) \/ Override(p) \/ Hook(p)
    \/ LookUpCondition(p) \/ CreateCondition(p) \/ Mark(p) \/ FinishRead(p) \/ FinishWrite(p)
    \/ (\E ends \in BOOLEAN : CompletePhase(p, ends)) \/ NoPhase(p)

Next ==
    \/ \E i \in Items : Submit(i) \/ Edit(i) \/ Cancel(i)
    \/ \E c \in Actors : StartElsewhere(c)
    \/ \E p \in Calls : CallStep(p) \/ Fault(p) \/ \E request \in {"next", "other"} : Begin(p, request)

Spec == Init /\ [][Next]_vars

\* Requests run on and are made again; of the phases, some complete, and in
\* some of those the activities come to their end.
Fairness ==
    /\ \A p \in Calls : WF_vars(CallStep(p))
    /\ SF_vars(\E p \in Calls : Begin(p, "next"))
    /\ SF_vars(\E p \in Calls : CompletePhase(p, TRUE))

FairSpec == Spec /\ Fairness

-----------------------------------------------------------------------------
(* Properties                                                              *)

\* What a call that died after the deed may do again: an override, whose command
\* has a fresh key, and a later leg of a journey, which waits while its own
\* activity runs and may find the road open when that and another are over.
Repeatable(i, k) == row[i][k].kind = "override" \/ Before(row[i], k) # {}

\* Requests one after the other apply a step once, however often calls die and
\* claim again what was left; what is repeatable once more for each of those.
AppliedOnce ==
    ~overlapped => \A s \in Steps : applied[s] <=
        1 + (IF s[2] \in DOMAIN row[s[1]] /\ Repeatable(s[1], s[2]) THEN disturbances ELSE 0)

\* What a call is to settle is not lost: an item outside the open ones has no
\* queued step, a completed one only completed steps.
NothingForgotten ==
    \A i \in Items : \A k \in DOMAIN row[i] :
        /\ item[i] \notin {"queued", "executing"} => row[i][k].status # "queued"
        /\ item[i] = "completed" => row[i][k].status = "completed"
        /\ item[i] = "failed" => row[i][k].status # "completed"

\* What is reported failed has not happened, although a call may have died
\* after the deed; but for overrides, and for later legs of a journey, which
\* wait while their own activity runs and then find no road.
FailedMeansNothing ==
    ~overlapped => \A i \in Items : \A k \in DOMAIN row[i] :
        row[i][k].status = "failed" /\ ~Repeatable(i, k) => applied[<<i, k>>] = 0

\* What an item reports is what became of it (domain/interventions.py:5-7),
\* whichever call took it up and wherever that call died.
ReportsHold == NothingForgotten /\ FailedMeansNothing

\* An item that is cancelled while no call holds it has no further effect: no
\* call takes it up again, nothing moves it or its steps.
HeldByCall(i) == \E p \in Calls : i \in call[p].batch
CancelledIsOver ==
    [][\A i \in Items : item[i] = "cancelled" /\ ~HeldByCall(i) =>
          item'[i] = "cancelled" /\ row'[i] = row[i] /\ ~HeldByCall(i)']_vars

\* A directed attempt that is reported completed has been made, or its call is
\* still to make it.
AttemptsAreMade ==
    \A s \in Steps : s[2] \in DOMAIN row[s[1]] =>
        (row[s[1]][s[2]].kind = "attempt" /\ row[s[1]][s[2]].status = "completed" =>
            applied[s] > 0 \/ \E p \in Calls : s \in call[p].directed)

\* A leg whose predecessor has failed or been cancelled waits for ever.
Orphaned(i) == \E k \in DOMAIN row[i] : row[i][k].status = "queued" /\ Held(row[i], k)
               /\ row[i][Max(Before(row[i], k))].status # "queued"

\* Everything queued is settled in the end, but for orphaned legs.
Settles ==
    \A i \in Items : item[i] \in {"queued", "executing"}
                       ~> item[i] \notin {"queued", "executing"} \/ Orphaned(i)
=============================================================================
