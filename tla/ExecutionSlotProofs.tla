------------------------- MODULE ExecutionSlotProofs -------------------------
(***************************************************************************)
(* Proofs about the admission of a phase scope, for any set of requests,   *)
(* any crash points and any bound on crashes.  Two arguments carry them:   *)
(*   - HoldsRow: a request that holds the slot is named by the row, under  *)
(*     a live lease.  It is inductive only if leases outlast the work      *)
(*     (LeaseFits), and it makes holders unique.                           *)
(*   - LeaseBacked: a running row names a request that executes or died.   *)
(*     It is inductive without any assumption.                             *)
(***************************************************************************)
EXTENDS ExecutionSlot, TLAPS

HoldsRow ==
    \A o \in Owners : pc[o] \in Holding => HeldBy(row, o) /\ row.lease = "live"

-----------------------------------------------------------------------------
(* The updates of the row keep its type.                                   *)

LEMMA RowTypes ==
    ASSUME NEW r \in Row, NEW o \in Owners
    PROVE  /\ Created \in Row
           /\ ClaimedBy(r, o, 1) \in Row
           /\ Recycled(r, o) \in Row
           /\ Finished(r, o) \in Row
           /\ Failed(r, o, TRUE) \in Row
           /\ Requeued(r) \in Row
           /\ [r EXCEPT !.lease = "expired"] \in Row
  BY DEF Row, TaskState, Terminal, LeaseClock, Created, NoRow, ClaimedBy,
         Recycled, Finished, Failed, Released, Requeued, HeldBy

LEMMA InitType == Init => TypeOK
  <1>1. NoRow \in Row
    BY DEF Row, NoRow, TaskState, LeaseClock
  <1>2. QED
    BY <1>1 DEF Init, TypeOK, Steps

LEMMA HandlerType ==
    ASSUME TypeOK, NEW o \in Owners, Handler(o)
    PROVE  TypeOK'
  <1> USE DEF TypeOK, Goto, Steps, Holding, Returned
  <1>1. CASE Request(o)
    BY <1>1 DEF Request
  <1>2. CASE CreateTask(o)
    BY <1>2, RowTypes DEF CreateTask
  <1>3. CASE Claim(o)
    BY <1>3, RowTypes DEF Claim
  <1>4. CASE Reset(o)
    BY <1>4, RowTypes DEF Reset
  <1>5. CASE EnterRun(o)
    BY <1>5 DEF EnterRun
  <1>6. CASE CompleteRun(o)
    BY <1>6 DEF CompleteRun
  <1>7. CASE WorkRaises(o)
    BY <1>7 DEF WorkRaises
  <1>8. CASE Succeed(o)
    BY <1>8, RowTypes DEF Succeed
  <1>9. CASE Fail(o)
    BY <1>9, RowTypes DEF Fail
  <1>10. CASE Recycle(o)
    BY <1>10, RowTypes DEF Recycle
  <1>11. QED
    BY <1>1, <1>2, <1>3, <1>4, <1>5, <1>6, <1>7, <1>8, <1>9, <1>10 DEF Handler

LEMMA NextType == TypeOK /\ [Next]_vars => TypeOK'
  <1> SUFFICES ASSUME TypeOK, [Next]_vars PROVE TypeOK'
    OBVIOUS
  <1>1. CASE \E o \in Owners : Handler(o)
    BY <1>1, HandlerType
  <1>2. CASE \E o \in Owners : Retry(o) \/ Crash(o)
    BY <1>2 DEF TypeOK, Retry, Crash, Goto, Steps, Holding, Returned
  <1>3. CASE Expire \/ Reconcile
    <2> row' \in Row
      BY <1>3 DEF Expire, Reconcile, TypeOK, Row, LeaseClock, TaskState, Requeued
    <2> QED
      BY <1>3 DEF Expire, Reconcile, TypeOK
  <1>4. CASE Archive \/ Unarchive \/ UNCHANGED vars
    BY <1>4 DEF Archive, Unarchive, vars, TypeOK
  <1>5. QED
    BY <1>1, <1>2, <1>3, <1>4 DEF Next

\* Every reachable state is well-typed: no update of the row loses a field
\* or leaves the states of the database constraint.
THEOREM TypeCorrect == Spec => []TypeOK
  BY InitType, NextType, PTL DEF Spec

-----------------------------------------------------------------------------
(* Leases that outlast the work                                            *)

LEMMA NextHoldsRow ==
    ASSUME LeaseFits, TypeOK, HoldsRow, [Next]_vars
    PROVE  HoldsRow'
  <1> USE DEF HoldsRow, HeldBy, TypeOK, Row, Goto, Holding
  <1>1. ASSUME NEW o \in Owners, Request(o) \/ WorkRaises(o) \/ CompleteRun(o) \/ EnterRun(o)
        PROVE  HoldsRow'
    BY <1>1 DEF Request, WorkRaises, CompleteRun, EnterRun
  <1>2. ASSUME NEW o \in Owners, CreateTask(o)
        PROVE  HoldsRow'
    BY <1>2 DEF CreateTask
  <1>3. ASSUME NEW o \in Owners, Claim(o)
        PROVE  HoldsRow'
    BY <1>3 DEF Claim, Claimable, ClaimedBy
  <1>4. ASSUME NEW o \in Owners, Reset(o)
        PROVE  HoldsRow'
    BY <1>4 DEF Reset, Resettable, Terminal
  <1>5. ASSUME NEW o \in Owners, Succeed(o)
        PROVE  HoldsRow'
    BY <1>5 DEF Succeed, Finished
  <1>6. ASSUME NEW o \in Owners, Fail(o)
        PROVE  HoldsRow'
    BY <1>6 DEF Fail, Failed
  <1>7. ASSUME NEW o \in Owners, Recycle(o)
        PROVE  HoldsRow'
    BY <1>7 DEF Recycle, Resettable, Terminal
  <1>8. ASSUME NEW o \in Owners, Retry(o) \/ Crash(o)
        PROVE  HoldsRow'
    BY <1>8 DEF Retry, Crash
  <1>9. CASE Expire
    BY <1>9 DEF Expire, Executing
  <1>10. CASE Reconcile
    BY <1>10 DEF Reconcile, Stale
  <1>11. CASE Archive \/ Unarchive \/ UNCHANGED vars
    BY <1>11 DEF Archive, Unarchive, vars
  <1>12. QED
    BY <1>1, <1>2, <1>3, <1>4, <1>5, <1>6, <1>7, <1>8, <1>9, <1>10, <1>11
    DEF Next, Handler

LEMMA AlwaysHoldsRow == ASSUME LeaseFits PROVE Spec => []HoldsRow
  <1>1. Init => HoldsRow
    BY DEF Init, HoldsRow, Holding
  <1>2. TypeOK /\ HoldsRow /\ [Next]_vars => HoldsRow'
    BY NextHoldsRow
  <1>3. QED
    BY <1>1, <1>2, TypeCorrect, PTL DEF Spec

\* If leases outlast the work, a scope never has two executors: not after
\* crashes, retries, resets, reconciliation or archiving.
THEOREM OneExecutorHolds == ASSUME LeaseFits PROVE Spec => []OneExecutor
  <1>1. HoldsRow => OneExecutor
    BY DEF HoldsRow, OneExecutor, Executing, HeldBy
  <1>2. QED
    BY <1>1, AlwaysHoldsRow, PTL

\* If leases outlast the work, nobody is inside a phase whose run is complete.
THEOREM CompletedRunHolds == ASSUME LeaseFits PROVE Spec => []CompletedRunIsQuiet
  <1>1. Init => CompletedRunIsQuiet
    BY DEF Init, CompletedRunIsQuiet
  <1>2. ASSUME TypeOK, HoldsRow, CompletedRunIsQuiet, [Next]_vars
        PROVE  CompletedRunIsQuiet'
    <2> USE DEF CompletedRunIsQuiet, TypeOK, Goto
    <2>1. ASSUME NEW o \in Owners, CompleteRun(o)
          PROVE  CompletedRunIsQuiet'
      BY <1>2, <2>1 DEF CompleteRun, HoldsRow, HeldBy, Holding
    <2>2. ASSUME NEW o \in Owners, EnterRun(o)
          PROVE  CompletedRunIsQuiet'
      BY <1>2, <2>2 DEF EnterRun
    <2>3. ASSUME NEW o \in Owners,
                 \/ Request(o) \/ CreateTask(o) \/ Claim(o) \/ Reset(o)
                 \/ WorkRaises(o) \/ Succeed(o) \/ Fail(o) \/ Recycle(o)
                 \/ Retry(o) \/ Crash(o)
          PROVE  CompletedRunIsQuiet'
      BY <1>2, <2>3 DEF Request, CreateTask, Claim, Reset, WorkRaises, Succeed,
                        Fail, Recycle, Retry, Crash
    <2>4. CASE Expire \/ Reconcile \/ Archive \/ Unarchive \/ UNCHANGED vars
      BY <1>2, <2>4 DEF Expire, Reconcile, Archive, Unarchive, vars
    <2>5. QED
      BY <1>2, <2>1, <2>2, <2>3, <2>4 DEF Next, Handler
  <1>3. QED
    BY <1>1, <1>2, TypeCorrect, AlwaysHoldsRow, PTL DEF Spec

-----------------------------------------------------------------------------
(* Without any assumption on leases                                        *)

LEMMA NextLeaseBacked ==
    ASSUME TypeOK, LeaseBacked, [Next]_vars
    PROVE  LeaseBacked'
  <1> USE DEF LeaseBacked, Executing, Crashed, TypeOK, Row, Goto, Holding
  <1>1. ASSUME NEW o \in Owners, Request(o) \/ WorkRaises(o) \/ CompleteRun(o) \/ EnterRun(o)
        PROVE  LeaseBacked'
    BY <1>1 DEF Request, WorkRaises, CompleteRun, EnterRun
  <1>2. ASSUME NEW o \in Owners, CreateTask(o) \/ Reset(o)
        PROVE  LeaseBacked'
    BY <1>2 DEF CreateTask, Created, NoRow, Reset, Recycled
  <1>3. ASSUME NEW o \in Owners, Claim(o)
        PROVE  LeaseBacked'
    BY <1>3 DEF Claim, Claimable, ClaimedBy
  <1>4. ASSUME NEW o \in Owners, Succeed(o)
        PROVE  LeaseBacked'
    BY <1>4 DEF Succeed, Finished, Released, HeldBy
  <1>5. ASSUME NEW o \in Owners, Fail(o)
        PROVE  LeaseBacked'
    BY <1>5 DEF Fail, Failed, Released, HeldBy
  <1>6. ASSUME NEW o \in Owners, Recycle(o)
        PROVE  LeaseBacked'
    BY <1>6 DEF Recycle, Resettable, Recycled, HeldBy
  <1>7. ASSUME NEW o \in Owners, Retry(o) \/ Crash(o)
        PROVE  LeaseBacked'
    BY <1>7 DEF Retry, Crash, Returned
  <1>8. CASE Expire \/ Reconcile
    BY <1>8 DEF Expire, Reconcile, Requeued
  <1>9. CASE Archive \/ Unarchive \/ UNCHANGED vars
    BY <1>9 DEF Archive, Unarchive, vars
  <1>10. QED
    BY <1>1, <1>2, <1>3, <1>4, <1>5, <1>6, <1>7, <1>8, <1>9 DEF Next, Handler

\* Whatever leases do, a running row names a request that executes or died:
\* no way out of guarded leaves the slot taken behind a request's back.
THEOREM LeaseBackedHolds == Spec => []LeaseBacked
  <1>1. Init => LeaseBacked
    BY DEF Init, LeaseBacked, NoRow
  <1>2. TypeOK /\ LeaseBacked /\ [Next]_vars => LeaseBacked'
    BY NextLeaseBacked
  <1>3. QED
    BY <1>1, <1>2, TypeCorrect, PTL DEF Spec

\* Whatever leases do, a live lease is changed by its owner or the clock only.
THEOREM LiveLeaseHolds == Spec => LiveLeaseIsOwners
  <1> DEFINE Own == (row.state = "running" /\ row.lease = "live" /\ row' # row)
                       => \/ row' = [row EXCEPT !.lease = "expired"]
                          \/ pc'[row.owner] # pc[row.owner]
  <1>1. TypeOK /\ [Next]_vars => [Own]_vars
    <2> SUFFICES ASSUME TypeOK, Next, row.state = "running", row.lease = "live",
                        row' # row
                 PROVE  \/ row' = [row EXCEPT !.lease = "expired"]
                        \/ pc'[row.owner] # pc[row.owner]
      OBVIOUS
    <2>1. ASSUME NEW o \in Owners, Handler(o)
          PROVE  pc'[row.owner] # pc[row.owner]
      <3>1. Succeed(o) \/ Fail(o) \/ Recycle(o) \/ Reset(o)
        BY <2>1 DEF Handler, Request, CreateTask, Claim, Claimable, EnterRun,
                    CompleteRun, WorkRaises
      <3>2. row.owner = o
        BY <3>1 DEF Succeed, Finished, Fail, Failed, Recycle, Reset, Resettable,
                    HeldBy, Terminal
      <3>3. QED
        BY <3>1, <3>2 DEF Succeed, Fail, Recycle, Reset, Goto, TypeOK
    <2>2. ASSUME NEW o \in Owners, Retry(o) \/ Crash(o)
          PROVE  FALSE
      BY <2>2 DEF Retry, Crash
    <2>3. CASE Expire
      BY <2>3 DEF Expire
    <2>4. CASE Reconcile \/ Archive \/ Unarchive
      BY <2>4 DEF Reconcile, Stale, Archive, Unarchive
    <2>5. QED
      BY <2>1, <2>2, <2>3, <2>4 DEF Next
  <1>2. QED
    BY <1>1, TypeCorrect, PTL DEF Spec, LiveLeaseIsOwners

-----------------------------------------------------------------------------
(* Admission implements the abstract lock                                  *)

LEMMA StepRefines ==
    ASSUME TypeOK, HoldsRow, [Next]_vars
    PROVE  [Lock!Next]_Executing
  <1> USE DEF Executing, TypeOK, Goto, Holding
  <1>1. ASSUME NEW o \in Owners, Claim(o)
        PROVE  Lock!Enter(o) \/ UNCHANGED Executing
    <2>1. CASE Claimable(row) /\ ~archived
      <3>1. Executing = {}
        BY <2>1 DEF HoldsRow, HeldBy, Claimable
      <3>2. pc' = [pc EXCEPT ![o] = "admitted"]
        BY <1>1, <2>1 DEF Claim
      <3>3. Executing' = {o}
        BY <3>1, <3>2
      <3>4. QED
        BY <3>1, <3>3 DEF Lock!Enter
    <2>2. CASE ~(Claimable(row) /\ ~archived)
      BY <1>1, <2>2 DEF Claim
    <2>3. QED
      BY <2>1, <2>2
  <1>2. ASSUME NEW o \in Owners, Succeed(o) \/ Fail(o) \/ Recycle(o)
        PROVE  Lock!Leave(o)
    BY <1>2 DEF Succeed, Fail, Recycle, Lock!Leave
  <1>3. ASSUME NEW o \in Owners, Crash(o)
        PROVE  Lock!Leave(o) \/ UNCHANGED Executing
    BY <1>3 DEF Crash, Lock!Leave
  <1>4. ASSUME NEW o \in Owners,
               \/ Request(o) \/ CreateTask(o) \/ Reset(o) \/ EnterRun(o)
               \/ CompleteRun(o) \/ WorkRaises(o) \/ Retry(o)
        PROVE  UNCHANGED Executing
    BY <1>4 DEF Request, CreateTask, Reset, EnterRun, CompleteRun, WorkRaises,
                Retry, Returned
  <1>5. CASE Expire \/ Reconcile \/ Archive \/ Unarchive \/ UNCHANGED vars
    BY <1>5 DEF Expire, Reconcile, Archive, Unarchive, vars
  <1>6. QED
    BY <1>1, <1>2, <1>3, <1>4, <1>5 DEF Next, Handler, Lock!Next

\* If leases outlast the work, admission is a lock: requests enter an empty
\* scope and leave it by returning or by dying.
THEOREM RefinesLock == ASSUME LeaseFits PROVE Spec => LockSpec
  <1>1. Init => Lock!Init
    BY DEF Init, Lock!Init, Executing, Holding
  <1>2. TypeOK /\ HoldsRow /\ [Next]_vars => [Lock!Next]_Executing
    BY StepRefines
  <1>3. QED
    BY <1>1, <1>2, TypeCorrect, AlwaysHoldsRow, PTL DEF Spec, LockSpec, Lock!Spec
=============================================================================
