------------------------------- MODULE Outbox -------------------------------
(***************************************************************************)
(* Outbox messages and the worker that drains them                         *)
(* (infrastructure/repositories/outbox.py, InProcessWorker and             *)
(* OutboxService of application/tasks/service.py).  Messages are numbered  *)
(* in the order of their creation.                                         *)
(*                                                                         *)
(* Claiming and acknowledging lock their rows and are one step each;       *)
(* failing a message reads it without a lock and writes it later.          *)
(* Reconciliation runs at every start of the application and at every      *)
(* advance of any world.  Only tests run a worker so far: nothing here     *)
(* assumes that one keeps draining.                                        *)
(***************************************************************************)
EXTENDS Integers, FiniteSets, FiniteSetsExt

CONSTANTS
    Messages,       \* number of messages
    Unhandled,      \* messages whose kind has no handler
    Workers,
    Limit,          \* messages claimed at a time
    MaxReconciles,  \* bound: reconciliations of advances
    MaxCrashes      \* bound: deaths of a worker's process

OutboxAssumption ==
    /\ {Messages, MaxReconciles, MaxCrashes} \subseteq Nat /\ Limit \in Nat \ {0}
    /\ Unhandled \subseteq 1..Messages /\ IsFiniteSet(Workers)

VARIABLES
    state,      \* message -> "absent" or its OutboxState
    worker,     \* worker -> what it is doing, and what is left of the batch it has in memory
    reconciles, crashes,
    handled,    \* history: message -> runs of its handler that succeeded
    requeued    \* history: message -> times its claim was taken away

vars == <<state, worker, reconciles, crashes, handled, requeued>>

Numbers == 1..Messages
OutboxState == {"pending", "claimed", "acked", "failed"}
In(s) == {m \in Numbers : state[m] = s}
Resting == [pc |-> "idle", batch |-> {}]

TypeOK ==
    /\ state \in [Numbers -> OutboxState \union {"absent"}]
    /\ \A w \in Workers : worker[w].batch \subseteq Numbers
    /\ reconciles \in 0..MaxReconciles /\ crashes \in 0..MaxCrashes

Init ==
    /\ state = [m \in Numbers |-> "absent"]
    /\ worker = [w \in Workers |-> Resting]
    /\ reconciles = 0 /\ crashes = 0
    /\ handled = [m \in Numbers |-> 0] /\ requeued = [m \in Numbers |-> 0]

At(w, pc) == worker[w].pc = pc
Goto(w, pc) == worker' = [worker EXCEPT ![w].pc = pc]
Current(w) == Min(worker[w].batch)
\* The worker has dealt with the first message of its batch.
Advance(w) ==
    LET left == worker[w].batch \ {Current(w)}
    IN worker' = [worker EXCEPT ![w] = [pc |-> IF left = {} THEN "idle" ELSE "handle", batch |-> left]]

\* A canonical commit adds its message.
Add ==
    /\ In("absent") # {}
    /\ state' = [state EXCEPT ![Min(In("absent"))] = "pending"]
    /\ UNCHANGED <<worker, reconciles, crashes, handled, requeued>>

\* Messages that are claimed already are claimed again (a mutant).
Due_Claimed == In("pending") \union In("claimed")
Due == In("pending")
Batch == {m \in Due : Cardinality({n \in Due : n < m}) < Limit}

Claim(w) ==
    /\ At(w, "idle") /\ Due # {}
    /\ state' = [m \in Numbers |-> IF m \in Batch THEN "claimed" ELSE state[m]]
    /\ worker' = [worker EXCEPT ![w] = [pc |-> "handle", batch |-> Batch]]
    /\ UNCHANGED <<reconciles, crashes, handled, requeued>>

Handle(w) ==
    /\ At(w, "handle")
    /\ \/ /\ Current(w) \notin Unhandled
          /\ handled' = [handled EXCEPT ![Current(w)] = @ + 1]
          /\ Goto(w, "ack")
       \/ Goto(w, "fail") /\ UNCHANGED handled     \* it raises, or there is none
    /\ UNCHANGED <<state, reconciles, crashes, requeued>>

Ack(w) ==
    /\ At(w, "ack")
    /\ state' = [state EXCEPT ![Current(w)] = IF @ = "failed" THEN @ ELSE "acked"]
    /\ Advance(w)
    /\ UNCHANGED <<reconciles, crashes, handled, requeued>>

FailRead(w) ==
    /\ At(w, "fail")
    /\ IF state[Current(w)] \in {"pending", "claimed"} THEN Goto(w, "write") ELSE Advance(w)
    /\ UNCHANGED <<state, reconciles, crashes, handled, requeued>>

FailWrite(w) ==
    /\ At(w, "write")
    /\ state' = [state EXCEPT ![Current(w)] = "failed"]
    /\ Advance(w)
    /\ UNCHANGED <<reconciles, crashes, handled, requeued>>

\* A start takes nothing back (a mutant).
Orphaned_None == {}
Orphaned == In("claimed")
\* requeue_claimed cannot tell an orphan from a message at work.
Requeue ==
    /\ state' = [m \in Numbers |-> IF m \in Orphaned THEN "pending" ELSE state[m]]
    /\ requeued' = [m \in Numbers |-> IF m \in Orphaned THEN requeued[m] + 1 ELSE requeued[m]]

Reconcile ==
    /\ reconciles < MaxReconciles /\ reconciles' = reconciles + 1
    /\ Requeue
    /\ UNCHANGED <<worker, crashes, handled>>

Crash(w) ==
    /\ crashes < MaxCrashes /\ crashes' = crashes + 1
    /\ ~At(w, "down")
    /\ worker' = [worker EXCEPT ![w] = [Resting EXCEPT !.pc = "down"]]
    /\ UNCHANGED <<state, reconciles, handled, requeued>>

Restart(w) ==
    /\ At(w, "down")
    /\ worker' = [worker EXCEPT ![w] = Resting]
    /\ Requeue
    /\ UNCHANGED <<reconciles, crashes, handled>>

Drain(w) == Claim(w) \/ Handle(w) \/ Ack(w) \/ FailRead(w) \/ FailWrite(w)
Next == Add \/ Reconcile \/ \E w \in Workers : Drain(w) \/ Crash(w) \/ Restart(w)
Spec == Init /\ [][Next]_vars

-----------------------------------------------------------------------------
\* A message is handled once more for every time its claim was taken away and
\* never besides, and an acked one has been handled (OutboxService, "claimed"
\* rows are skipped by every other claim).
HandledPerClaim ==
    \A m \in Numbers : /\ handled[m] <= 1 + requeued[m]
                       /\ state[m] = "acked" => handled[m] > 0

\* A claimed message is in the batch of a living worker, or its worker's process
\* is down and takes the claim back when it starts (requeue_claimed, "Reset
\* orphaned claims after a restart"): none is stranded.
NoneStranded ==
    \A m \in In("claimed") : \E w \in Workers : At(w, "down") \/ m \in worker[w].batch

OutboxHolds == HandledPerClaim /\ NoneStranded
=============================================================================
