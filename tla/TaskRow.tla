------------------------------- MODULE TaskRow -------------------------------
(***************************************************************************)
(* The task_run row and the guarded updates of its repository.  Every      *)
(* operator is one method of SqlAlchemyTaskRepository: it runs under the   *)
(* row lock of one transaction, so it is a function of the row alone.      *)
(*                                                                         *)
(* claimed_at and expires_at are NULL together or set together, and the    *)
(* code only ever compares expires_at with the clock: the pair is the      *)
(* field "lease", which is NULL, still live, or expired.                   *)
(***************************************************************************)
EXTENDS Naturals

CONSTANTS
    Owners,        \* lease owners: one per request, or one per worker
    NoOwner,       \* the NULL owner
    MaxAttempts    \* the retry budget written into the row

ASSUME OwnerAssumption == NoOwner \notin Owners
ASSUME BudgetAssumption == MaxAttempts \in Nat \ {0}

Terminal == {"succeeded", "dead_letter", "cancelled"}

TaskState == {"absent", "pending", "running", "retry_wait"} \cup Terminal

LeaseClock == {"null", "live", "expired"}

Row == [state   : TaskState,
        owner   : Owners \cup {NoOwner},
        lease   : LeaseClock,
        attempt : Nat]

\* No row carries the scope's idempotency key yet.
NoRow == [state |-> "absent", owner |-> NoOwner, lease |-> "null", attempt |-> 0]

Created == [NoRow EXCEPT !.state = "pending"]

\* The assertion of _to_domain: an owner comes with lease timestamps.
Readable(r) == r.owner # NoOwner => r.lease # "null"

Claimable(r) ==
    \/ r.state = "pending"
    \/ r.state \in {"running", "retry_wait"} /\ r.lease = "expired"

ClaimedBy(r, o, n) ==
    [r EXCEPT !.state = "running", !.owner = o, !.lease = "live", !.attempt = n]

\* Mutant: any owner passes for the holder.
HeldBy_Anyone(r, o) == r.state = "running"

HeldBy(r, o) == r.state = "running" /\ r.owner = o

\* A heartbeat extends a lease that has not run out.
CanExtend(r, o) == HeldBy(r, o) /\ r.lease # "expired"
Extended(r) == [r EXCEPT !.lease = "live"]

\* finish and fail end a held row; they return False on any other row.
Released(r, end) == [r EXCEPT !.state = end, !.owner = NoOwner, !.lease = "null"]

\* Mutant: the end is written under the outbox's name for it.
Finished_OutboxName(r, o) == IF HeldBy(r, o) THEN Released(r, "acked") ELSE r

Finished(r, o) == IF HeldBy(r, o) THEN Released(r, "succeeded") ELSE r

\* Mutant: the retry is scheduled without a time.
Failed_NoRetryTime(r, o, retryable) ==
    IF ~HeldBy(r, o) THEN r
    ELSE IF ~retryable \/ r.attempt >= MaxAttempts THEN Released(r, "dead_letter")
    ELSE Released(r, "retry_wait")

\* fail_task: the budget decides between a delayed retry and a dead letter.
Failed(r, o, retryable) ==
    IF ~HeldBy(r, o) THEN r
    ELSE IF ~retryable \/ r.attempt >= MaxAttempts THEN Released(r, "dead_letter")
    ELSE [r EXCEPT !.state = "retry_wait", !.lease = "live"]

\* reset recycles a terminal slot or one its caller holds; the lease
\* timestamps are left as they are.
Resettable(r, o) == r.state \in Terminal \/ HeldBy(r, o)
Recycled(r, o) == [r EXCEPT !.state = "pending", !.owner = o, !.attempt = 0]

\* Mutant: the sweep takes every running row.
Stale_Running(r) == r.state = "running"

\* requeue_expired, one row of its sweep.
Stale(r) == r.state = "running" /\ r.lease = "expired"
Requeued(r) == [r EXCEPT !.state = "pending", !.owner = NoOwner]
=============================================================================
