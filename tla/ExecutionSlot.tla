---------------------------- MODULE ExecutionSlot ----------------------------
(***************************************************************************)
(* Execution admission of one phase scope (application/execution.py): the  *)
(* requests that POST /stage1/advance for the same phase index contend for *)
(* one durable task row.  Every action is one transaction; a request may   *)
(* die between any two of them.                                            *)
(*                                                                         *)
(* An owner stands for one request in flight.  Owners are fresh uuids in   *)
(* the code; a model owner is used again once its request has returned,    *)
(* when no row can still hold it (LeaseBacked), and never after a crash.   *)
(***************************************************************************)
EXTENDS TaskRow, FiniteSets

CONSTANTS
    LeaseFits,     \* TRUE: LEASE_SECONDS outlasts the work of a live request
    CrashPoints,   \* the steps before which a request may die
    MaxCrashes     \* bound on the requests that die

VARIABLES
    row,           \* the task_run row with key execute:{world}:phase:{index}
    pc,            \* the next step of each request
    run,           \* the phase run of the index, as far as admission sees it
    archived       \* story_catalog.archived_at is set

vars == <<row, pc, run, archived>>

\* The steps at which the slot is held: the work itself and the release.
Holding == {"admitted", "working", "succeed", "fail", "recycle"}
Returned == {"done", "busy", "error"}
Steps == {"idle", "create", "claim", "reset", "reclaim"} \cup Holding
             \cup Returned \cup {"crashed"}

ASSUME SlotAssumption ==
    /\ IsFiniteSet(Owners)
    /\ LeaseFits \in BOOLEAN
    /\ CrashPoints \subseteq Steps
    /\ MaxCrashes \in Nat

Executing == {o \in Owners : pc[o] \in Holding}
Crashed == {o \in Owners : pc[o] = "crashed"}

TypeOK ==
    /\ row \in Row
    /\ pc \in [Owners -> Steps]
    /\ run \in {"none", "open", "completed"}
    /\ archived \in BOOLEAN

Init ==
    /\ row = NoRow
    /\ pc = [o \in Owners |-> "idle"]
    /\ run = "none"
    /\ archived = FALSE

Goto(o, step) == pc' = [pc EXCEPT ![o] = step]

-----------------------------------------------------------------------------
(* admit                                                                   *)

\* The route's require_unarchived, before it enters guarded.
Request(o) ==
    /\ pc[o] = "idle"
    /\ Goto(o, IF archived THEN "error" ELSE "create")
    /\ UNCHANGED <<row, run, archived>>

\* create_task: find_by_key, else insert.  A lost insert race rereads the
\* winner's row, so the pair is one atomic get-or-create.
CreateTask(o) ==
    /\ pc[o] = "create"
    /\ row' = IF row.state = "absent" THEN Created ELSE row
    /\ Goto(o, IF Readable(row) THEN "claim" ELSE "error")
    /\ UNCHANGED <<run, archived>>

\* claim_task, the first time or after a reset; admit always claims as
\* attempt 1.  A claimable row of an archived story raises.
Claim(o) ==
    /\ pc[o] \in {"claim", "reclaim"}
    /\ \/ /\ Claimable(row) /\ ~archived
          /\ row' = ClaimedBy(row, o, 1)
          /\ Goto(o, "admitted")
       \/ /\ Claimable(row) /\ archived
          /\ Goto(o, "error")
          /\ UNCHANGED row
       \/ /\ ~Claimable(row)
          /\ Goto(o, IF pc[o] = "claim" THEN "reset" ELSE "busy")
          /\ UNCHANGED row
    /\ UNCHANGED <<run, archived>>

\* Mutant: a slot that cannot be recycled is executed all the same.
Reset_NotBusy(o) ==
    /\ pc[o] = "reset"
    /\ row' = IF Resettable(row, o) THEN Recycled(row, o) ELSE row
    /\ Goto(o, IF Resettable(row, o) THEN "reclaim" ELSE "admitted")
    /\ UNCHANGED <<run, archived>>

Reset(o) ==
    /\ pc[o] = "reset"
    /\ row' = IF Resettable(row, o) THEN Recycled(row, o) ELSE row
    /\ Goto(o, IF Resettable(row, o) THEN "reclaim" ELSE "busy")
    /\ UNCHANGED <<run, archived>>

-----------------------------------------------------------------------------
(* The guarded work: intervention application, then advance_phase.         *)

\* Mutant: the completed run is not looked up.
EnterRun_NoDuplicate(o) ==
    /\ pc[o] = "admitted"
    /\ Goto(o, "working")
    /\ run' = IF run = "completed" THEN run ELSE "open"
    /\ UNCHANGED <<row, archived>>

\* advance_phase: a completed run is reported as a duplicate, any other is
\* created or resumed.
EnterRun(o) ==
    /\ pc[o] = "admitted"
    /\ \/ run = "completed" /\ Goto(o, "succeed") /\ UNCHANGED run
       \/ run # "completed" /\ Goto(o, "working") /\ run' = "open"
    /\ UNCHANGED <<row, archived>>

CompleteRun(o) ==
    /\ pc[o] = "working"
    /\ run' = "completed"
    /\ Goto(o, "succeed")
    /\ UNCHANGED <<row, archived>>

\* Mutant: an error of the work escapes past the release.
WorkRaises_Escapes(o) ==
    /\ pc[o] \in {"admitted", "working"}
    /\ Goto(o, "error")
    /\ UNCHANGED <<row, run, archived>>

\* The work raises: a caller's mistake recycles the slot, anything else
\* releases it as a failure.
WorkRaises(o) ==
    /\ pc[o] \in {"admitted", "working"}
    /\ \E step \in {"recycle", "fail"} : Goto(o, step)
    /\ UNCHANGED <<row, run, archived>>

-----------------------------------------------------------------------------
(* release                                                                 *)

\* succeed: the False of a lost lease is ignored.
Succeed(o) ==
    /\ pc[o] = "succeed"
    /\ row' = Finished(row, o)
    /\ Goto(o, "done")
    /\ UNCHANGED <<run, archived>>

\* fail_task: a lost lease raises over the error of the work.
Fail(o) ==
    /\ pc[o] = "fail"
    /\ row' = Failed(row, o, TRUE)
    /\ Goto(o, "error")
    /\ UNCHANGED <<run, archived>>

\* reset_slot after a caller's mistake: nothing claims the slot afterwards.
Recycle(o) ==
    /\ pc[o] = "recycle"
    /\ row' = IF Resettable(row, o) THEN Recycled(row, o) ELSE row
    /\ Goto(o, "error")
    /\ UNCHANGED <<run, archived>>

-----------------------------------------------------------------------------
(* The world around the requests                                           *)

\* A client sends another request for the same phase.
Retry(o) ==
    /\ pc[o] \in Returned
    /\ Goto(o, "idle")
    /\ UNCHANGED <<row, run, archived>>

\* The process dies or the request is cancelled: no handler runs.
Crash(o) ==
    /\ pc[o] \in CrashPoints \ (Returned \cup {"idle", "crashed"})
    /\ Cardinality(Crashed) < MaxCrashes
    /\ Goto(o, "crashed")
    /\ UNCHANGED <<row, run, archived>>

\* expires_at passes.  Nothing extends a lease while the work runs.
Expire ==
    /\ row.state \in {"running", "retry_wait"}
    /\ row.lease = "live"
    /\ row.state = "running" /\ LeaseFits => row.owner \notin Executing
    /\ row' = [row EXCEPT !.lease = "expired"]
    /\ UNCHANGED <<pc, run, archived>>

\* reconcile: at startup, in every advance and on demand.
Reconcile ==
    /\ Stale(row)
    /\ row' = Requeued(row)
    /\ UNCHANGED <<pc, run, archived>>

\* POST /stories/{id}/archive looks at the open run, not at the slot.
Archive ==
    /\ run # "open"
    /\ ~archived
    /\ archived' = TRUE
    /\ UNCHANGED <<row, pc, run>>

Unarchive ==
    /\ archived
    /\ archived' = FALSE
    /\ UNCHANGED <<row, pc, run>>

-----------------------------------------------------------------------------
Handler(o) ==
    \/ Request(o) \/ CreateTask(o) \/ Claim(o) \/ Reset(o)
    \/ EnterRun(o) \/ CompleteRun(o) \/ WorkRaises(o)
    \/ Succeed(o) \/ Fail(o) \/ Recycle(o)

Next ==
    \/ \E o \in Owners : Handler(o) \/ Retry(o) \/ Crash(o)
    \/ Expire \/ Reconcile \/ Archive \/ Unarchive

Spec == Init /\ [][Next]_vars

\* A live request keeps running its handler, clients keep asking, and time
\* passes.  Crashes, archiving and reconciliation are not promised.
Fairness ==
    /\ \A o \in Owners : WF_vars(Handler(o)) /\ WF_vars(Retry(o))
    /\ WF_vars(Expire)

FairSpec == Spec /\ Fairness

-----------------------------------------------------------------------------
(* Properties                                                              *)

\* "Exactly one owner executes a scope at a time ... never a second executor"
\* (execution.py:4-6): two requests are never between admit and release.
OneExecutor == \A o, p \in Executing : o = p

\* A row that says "running" names a request that executes or has died:
\* no path through guarded returns to its client with the slot still taken.
LeaseBacked == row.state = "running" => row.owner \in Executing \cup Crashed

\* Nobody is inside the phase once its run is completed: a duplicate request
\* is answered from the run, and no late executor is still changing it.
CompletedRunIsQuiet ==
    run = "completed" => \A o \in Owners : pc[o] # "working"

\* While a lease is live, the row changes only by a step of its owner or by
\* the clock: late finish, fail and reset calls, admissions and reconcile
\* leave it alone.
LiveLeaseIsOwners ==
    [][ (row.state = "running" /\ row.lease = "live" /\ row' # row)
            => \/ row' = [row EXCEPT !.lease = "expired"]
               \/ pc'[row.owner] # pc[row.owner] ]_vars

\* "Failures requeue after lease expiry so a crashed owner cannot wedge the
\* world" (execution.py:6-8): in a story that is never archived, requests
\* keep being admitted whatever became of the earlier ones.
SlotServes == []~archived => []<>(Executing # {})

\* A reset without the claim that follows it in admit: the row has an owner
\* and no lease, and every later create_task trips the assertion of _to_domain.
Torn == ~Readable(row) /\ \A o \in Owners : pc[o] # "reclaim"

\* That is the only way to wedge the scope: however else requests die, fail
\* or let their leases run out, later requests are admitted.
SlotServesUnlessTorn == [](~archived /\ ~Torn) => []<>(Executing # {})

\* Admission implements the abstract lock.
Lock == INSTANCE AdmissionLock WITH Requests <- Owners, executing <- Executing
LockSpec == Lock!Spec
=============================================================================
