-------------------------- MODULE DeliberationProofs --------------------------
(***************************************************************************)
(* Proofs about the model calls of a phase, for any stages, replies,       *)
(* budgets and numbers of calls of advance:                                *)
(*   TypeInv     threads, audit rows and products keep their shape.        *)
(*   PlaceInv    a call's threads are at work in its stage only, and those *)
(*               of earlier stages are done.                               *)
(*   ProductInv  what a call has made is lawful for the intents it has,    *)
(*               these no longer change once a resolver is asked, and who  *)
(*               is done among the characters has an intent.               *)
(*   KeptInv     what is durable keeps its type and its bound on hooks.    *)
(***************************************************************************)
EXTENDS Deliberation, FiniteSetTheorems, TLAPS

Shaped(t) == t = [r \in Runs |-> [d \in Decisions |-> t[r][d]]]

ThreadOf(d) ==
    [pc : {"idle", "open", "asked", "pause", "close", "judge", "done"}, n : Nat, tries : 0..Attempts,
     reply : {NoReply, Broken} \cup Replies[Role(d)]]

TypeInv ==
    /\ run \in Runs /\ stage \in 0..(Final + 1)
    /\ Shaped(th)
    /\ \A r \in Runs, d \in Decisions :
          th[r][d] \in ThreadOf(d) /\ (th[r][d].pc = "pause" => th[r][d].tries < Attempts)
    /\ product = [d \in Decisions |-> product[d]]
    /\ rows \in [open : SUBSET (Runs \X Decisions \X Nat), past : 0..MaxCalls]
    /\ IsFiniteSet(rows.open)

Calling(t) == t.pc \in {"asked", "pause", "close"}
Active(t) == t.pc \notin {"idle", "done"}

PlaceInv ==
    /\ \A r \in Runs, d \in Decisions : r > run => th[r][d].pc = "idle"
    /\ stage # 0 => \A d \in Decisions :
          /\ th[run][d].pc # "idle" => \E j \in 1..Final : j <= stage /\ d \in Stages[j]
          /\ Active(th[run][d]) => stage \in 1..Final /\ d \in Stages[stage]
    /\ \A j \in 1..Final : stage \in 1..Final /\ j < stage =>
          \A d \in Stages[j] : th[run][d].pc = "done"

-----------------------------------------------------------------------------
(* One thread moves                                                        *)

Moves(r, d, f) == th' = [th EXCEPT ![r][d] = f]

LEMMA Constants ==
    /\ Final \in Nat /\ \A i \in 1..Final : Stages[i] \subseteq Decisions
    /\ {MaxRuns, Attempts, MaxCalls} \subseteq Nat \ {0}
  <1>1. Stages \in Seq(SUBSET Decisions)
    BY DeliberationAssumption
  <1>2. Final \in Nat /\ \A i \in 1..Final : Stages[i] \in SUBSET Decisions
    BY <1>1 DEF Final
  <1>3. QED
    BY <1>2, DeliberationAssumption

LEMMA MovesOne ==
    ASSUME Shaped(th), NEW r \in Runs, NEW d \in Decisions, NEW f, Moves(r, d, f)
    PROVE  /\ Shaped(th)' /\ th'[r][d] = f
           /\ \A q \in Runs, e \in Decisions : q # r \/ e # d => th'[q][e] = th[q][e]
  <1>1. DOMAIN th = Runs /\ \A q \in Runs : DOMAIN th[q] = Decisions
    <2>1. th = [q \in Runs |-> [e \in Decisions |-> th[q][e]]]
      BY DEF Shaped
    <2> DEFINE F == [q \in Runs |-> [e \in Decisions |-> th[q][e]]]
    <2>2. DOMAIN F = Runs /\ \A q \in Runs : DOMAIN F[q] = Decisions
      OBVIOUS
    <2>3. QED
      BY <2>1, <2>2
  <1>2. th' = [q \in Runs |-> IF q = r THEN [th[r] EXCEPT ![d] = f] ELSE th[q]]
    BY <1>1 DEF Moves
  <1>3. th'[r][d] = f /\ \A q \in Runs, e \in Decisions : q # r \/ e # d => th'[q][e] = th[q][e]
    BY <1>1, <1>2
  <1>4. \A q \in Runs : th'[q] = [e \in Decisions |-> th'[q][e]]
    <2> SUFFICES ASSUME NEW q \in Runs PROVE th'[q] = [e \in Decisions |-> th'[q][e]]
      OBVIOUS
    <2>1. CASE q = r
      <3>1. th'[q] = [th[r] EXCEPT ![d] = f]
        BY <1>2, <2>1
      <3>2. [th[r] EXCEPT ![d] = f] = [e \in Decisions |-> IF e = d THEN f ELSE th[r][e]]
        BY <1>1
      <3>3. QED
        BY <3>1, <3>2
    <2>2. CASE q # r
      <3>1. th'[q] = th[q]
        BY <1>2, <2>2
      <3>2. th[q] = [e \in Decisions |-> th[q][e]]
        BY DEF Shaped
      <3>3. QED
        BY <3>1, <3>2
    <2>3. QED
      BY <2>1, <2>2
  <1>5. th' = [q \in Runs |-> th'[q]]
    BY <1>2
  <1>6. Shaped(th)'
    BY <1>4, <1>5 DEF Shaped
  <1>7. QED
    BY <1>3, <1>6

\* Threads that ask, are answered, and wait.
Asking(t, k) == [t EXCEPT !.pc = "asked", !.tries = k]
Answered(t, reply) == [t EXCEPT !.pc = "close", !.reply = reply]
Pausing(t) == [t EXCEPT !.pc = "pause"]
Judging(t) == [t EXCEPT !.pc = "judge", !.tries = 0]
Opened == [Idle EXCEPT !.pc = "open"]
Opening(n) == [Idle EXCEPT !.pc = "open", !.n = n]

LEMMA ThreadFields ==
    ASSUME NEW d \in Decisions, NEW t \in ThreadOf(d)
    PROVE  /\ \A k \in 0..Attempts :
                 Asking(t, k) \in ThreadOf(d) /\ Asking(t, k).pc = "asked" /\ Asking(t, k).n = t.n
           /\ \A reply \in {NoReply, Broken} \cup Replies[Role(d)] :
                 Answered(t, reply) \in ThreadOf(d) /\ Answered(t, reply).pc = "close"
                 /\ Answered(t, reply).n = t.n
           /\ Pausing(t) \in ThreadOf(d) /\ Pausing(t).pc = "pause" /\ Pausing(t).n = t.n
              /\ Pausing(t).tries = t.tries
           /\ Judging(t) \in ThreadOf(d) /\ Judging(t).pc = "judge"
  <1>1. ASSUME NEW k \in 0..Attempts
        PROVE  Asking(t, k) \in ThreadOf(d) /\ Asking(t, k).pc = "asked" /\ Asking(t, k).n = t.n
    BY DEF ThreadOf, Asking
  <1>2. ASSUME NEW reply \in {NoReply, Broken} \cup Replies[Role(d)]
        PROVE  Answered(t, reply) \in ThreadOf(d) /\ Answered(t, reply).pc = "close"
               /\ Answered(t, reply).n = t.n
    BY DEF ThreadOf, Answered
  <1>3. Pausing(t) \in ThreadOf(d) /\ Pausing(t).pc = "pause" /\ Pausing(t).n = t.n
        /\ Pausing(t).tries = t.tries
    BY DEF ThreadOf, Pausing
  <1>4. 0 \in 0..Attempts
    BY Constants
  <1>5. Judging(t) \in ThreadOf(d) /\ Judging(t).pc = "judge"
    BY <1>4 DEF ThreadOf, Judging
  <1>6. QED
    BY <1>1, <1>2, <1>3, <1>5

LEMMA FreshThreads ==
    ASSUME NEW d \in Decisions
    PROVE  /\ Idle \in ThreadOf(d) /\ Idle.pc = "idle" /\ Done \in ThreadOf(d) /\ Done.pc = "done"
           /\ Opened \in ThreadOf(d) /\ Opened.pc = "open"
           /\ \A n \in Nat : Opening(n) \in ThreadOf(d) /\ Opening(n).pc = "open"
  <1>1. 0 \in 0..Attempts
    BY Constants
  <1>2. Idle \in ThreadOf(d) /\ Idle.pc = "idle"
    BY <1>1 DEF Idle, ThreadOf
  <1>3. Done \in ThreadOf(d) /\ Done.pc = "done"
    BY <1>2 DEF Done, ThreadOf
  <1>4. ASSUME NEW n \in Nat PROVE Opening(n) \in ThreadOf(d) /\ Opening(n).pc = "open"
    BY <1>2 DEF ThreadOf, Opening
  <1>5. Opened \in ThreadOf(d) /\ Opened.pc = "open"
    BY <1>2 DEF ThreadOf, Opened
  <1>6. QED
    BY <1>2, <1>3, <1>4, <1>5

\* What a step of a thread makes of its audit row: opens it, closes it, or
\* leaves it.
RowMoves(r, d, f) ==
    LET t == th[r][d] IN
    \/ /\ ~Calling(t) /\ Calling(f) /\ f.n = t.n
       /\ rows' = [rows EXCEPT !.open = @ \cup {<<r, d, t.n>>}]
    \/ Calling(t) /\ ~Calling(f) /\ rows' = Left({<<r, d, t.n>>})
    \/ Calling(t) /\ Calling(f) /\ f.n = t.n /\ rows' = rows
    \/ ~Calling(t) /\ ~Calling(f) /\ rows' = rows

\* ... and of its call: goes on, is done, is done for nobody, or ends it.
CallMoves(r, f) ==
    \/ Active(f) /\ UNCHANGED <<stage, product, kept>>
    \/ f = Done /\ stage' = stage
    \/ f = Idle /\ stage' = stage /\ ~Awaited(r)
    \/ f = Idle /\ stage' = 0 /\ r = run

StepTo(r, d, f) ==
    /\ Moves(r, d, f) /\ f \in ThreadOf(d) /\ (f.pc = "pause" => f.tries < Attempts)
    /\ RowMoves(r, d, f) /\ CallMoves(r, f)

LEMMA RaiseMoves ==
    ASSUME NEW r \in Runs, NEW d \in Decisions, Raise(r, d)
    PROVE  \E f \in {Idle, Done} : Moves(r, d, f) /\ CallMoves(r, f)
  <1>1. CASE Role(d) \notin Fatal
    BY <1>1 DEF Raise, Moves, CallMoves
  <1>2. CASE Role(d) \in Fatal
    BY <1>2 DEF Raise, Moves, CallMoves, Awaited
  <1>3. QED
    BY <1>1, <1>2

LEMMA ConcludeMoves ==
    ASSUME NEW r \in Runs, NEW d \in Decisions, NEW answer, Conclude(r, d, answer), stage' = stage
    PROVE  \E f \in {Idle, Done} : Moves(r, d, f) /\ CallMoves(r, f)
  <1>1. CASE Awaited(r)
    BY <1>1 DEF Conclude, Moves, CallMoves
  <1>2. CASE ~Awaited(r)
    BY <1>2 DEF Conclude, Moves, CallMoves
  <1>3. QED
    BY <1>1, <1>2

LEMMA StepMoves ==
    ASSUME TypeInv, NEW r \in Runs, NEW d \in Decisions, Step(r, d)
    PROVE  Active(th[r][d]) /\ \E f : StepTo(r, d, f)
  <1> DEFINE t == th[r][d]
  <1>1. t \in ThreadOf(d) /\ (t.pc = "pause" => t.tries < Attempts)
    BY DEF TypeInv
  <1>2. t.n \in Nat
    BY <1>1 DEF ThreadOf
  <1> HIDE DEF t
  <1> USE DEF Calling, Active
  <1>3. CASE OpenRow(r, d)
    <2> DEFINE f == Asking(t, 1)
    <2>1. f \in ThreadOf(d) /\ f.pc = "asked" /\ f.n = t.n
      <3>1. 1 \in 0..Attempts
        BY Constants
      <3>2. QED
        BY <1>1, <3>1, ThreadFields
    <2>2. t.pc = "open" /\ Moves(r, d, f) /\ UNCHANGED <<stage, product, kept>>
          /\ rows' = [rows EXCEPT !.open = @ \cup {<<r, d, t.n>>}]
      BY <1>3 DEF OpenRow, StartCall, Set, Moves, Asking, t
    <2> HIDE DEF f
    <2>3. QED
      BY <2>1, <2>2 DEF StepTo, RowMoves, CallMoves, t
  <1>4. CASE ReplyText(r, d) \/ ReplyFinal(r, d)
    <2>1. PICK reply \in {NoReply, Broken} \cup Replies[Role(d)] :
             Moves(r, d, Answered(t, reply))
      BY <1>4 DEF ReplyText, ReplyFinal, Set, Moves, Answered, t
    <2> DEFINE f == Answered(t, reply)
    <2>2. f \in ThreadOf(d) /\ f.pc = "close" /\ f.n = t.n
      BY <1>1, ThreadFields
    <2>3. t.pc = "asked" /\ UNCHANGED <<stage, product, rows, kept>>
      BY <1>4 DEF ReplyText, ReplyFinal, t
    <2> HIDE DEF f
    <2>4. QED
      BY <2>1, <2>2, <2>3 DEF StepTo, RowMoves, CallMoves, t, f
  <1>5. CASE ReplyBusy(r, d)
    <2>1. t.pc = "asked" /\ UNCHANGED <<stage, product, rows, kept>>
      BY <1>5 DEF ReplyBusy, t
    <2>2. CASE t.tries < Attempts
      <3> DEFINE f == Pausing(t)
      <3>1. f \in ThreadOf(d) /\ f.pc = "pause" /\ f.n = t.n /\ f.tries = t.tries
        BY <1>1, ThreadFields
      <3>2. Moves(r, d, f)
        BY <1>5, <2>2 DEF ReplyBusy, Set, Moves, Pausing, t
      <3> HIDE DEF f
      <3>3. QED
        BY <2>1, <2>2, <3>1, <3>2 DEF StepTo, RowMoves, CallMoves, t
    <2>3. CASE ~(t.tries < Attempts)
      <3> DEFINE f == Answered(t, NoReply)
      <3>1. f \in ThreadOf(d) /\ f.pc = "close" /\ f.n = t.n
        BY <1>1, ThreadFields
      <3>2. Moves(r, d, f)
        BY <1>5, <2>3 DEF ReplyBusy, Set, Moves, Answered, t
      <3> HIDE DEF f
      <3>3. QED
        BY <2>1, <3>1, <3>2 DEF StepTo, RowMoves, CallMoves, t
    <2>4. QED
      BY <2>2, <2>3
  <1>6. CASE ReplyGarbled(r, d)
    <2>1. t.pc = "asked" /\ Raise(r, d) /\ rows' = Left({<<r, d, t.n>>})
      BY <1>6 DEF ReplyGarbled, t
    <2>2. PICK f \in {Idle, Done} : Moves(r, d, f) /\ CallMoves(r, f)
      BY <2>1, RaiseMoves
    <2>3. f \in ThreadOf(d) /\ f.pc \in {"idle", "done"}
      BY <2>2, FreshThreads
    <2>4. QED
      BY <2>1, <2>2, <2>3 DEF StepTo, RowMoves, t
  <1>7. CASE AskAgain(r, d)
    <2> DEFINE f == Asking(t, t.tries + 1)
    <2>1. t.pc = "pause" /\ Moves(r, d, f) /\ UNCHANGED <<stage, product, rows, kept>>
      BY <1>7 DEF AskAgain, Set, Moves, Asking, t
    <2>2. f \in ThreadOf(d) /\ f.pc = "asked" /\ f.n = t.n
      <3>1. t.tries \in 0..Attempts /\ t.tries < Attempts
        BY <1>1, <2>1 DEF ThreadOf
      <3>2. t.tries + 1 \in 0..Attempts
        BY <3>1, Constants
      <3>3. QED
        BY <1>1, <3>2, ThreadFields
    <2> HIDE DEF f
    <2>3. QED
      BY <2>1, <2>2 DEF StepTo, RowMoves, CallMoves, t
  <1>8. CASE CloseRow(r, d)
    <2> DEFINE f == Judging(t)
    <2>1. t.pc = "close" /\ Moves(r, d, f) /\ rows' = Left({<<r, d, t.n>>})
          /\ UNCHANGED <<stage, product, kept>>
      BY <1>8 DEF CloseRow, Set, Moves, Judging, t
    <2>2. f \in ThreadOf(d) /\ f.pc = "judge"
      BY <1>1, ThreadFields
    <2> HIDE DEF f
    <2>3. QED
      BY <2>1, <2>2 DEF StepTo, RowMoves, CallMoves, t
  <1>9. CASE Judge(r, d)
    <2>1. t.pc = "judge" /\ UNCHANGED <<stage, rows>>
      BY <1>9 DEF Judge, t
    <2>2. CASE Repairable(d, t.reply, t.n)
      <3> DEFINE f == Opening(t.n + 1)
      <3>1. Moves(r, d, f) /\ UNCHANGED <<product, kept>>
        BY <1>9, <2>2 DEF Judge, Set, Moves, Opening, t
      <3>2. f \in ThreadOf(d) /\ f.pc = "open"
        <4>1. t.n + 1 \in Nat
          BY <1>2
        <4>2. QED
          BY <4>1, FreshThreads
      <3> HIDE DEF f
      <3>3. QED
        BY <2>1, <3>1, <3>2 DEF StepTo, RowMoves, CallMoves, t
    <2>3. CASE ~Repairable(d, t.reply, t.n)
      <3>1. Conclude(r, d, Answer(d, t.reply))
        BY <1>9, <2>3 DEF Judge, t
      <3>2. PICK f \in {Idle, Done} : Moves(r, d, f) /\ CallMoves(r, f)
        BY <2>1, <3>1, ConcludeMoves
      <3>3. f \in ThreadOf(d) /\ f.pc \in {"idle", "done"}
        BY <3>2, FreshThreads
      <3>4. QED
        BY <2>1, <3>2, <3>3 DEF StepTo, RowMoves, t
    <2>4. QED
      BY <2>2, <2>3
  <1>10. QED
    BY <1>3, <1>4, <1>5, <1>6, <1>7, <1>8, <1>9 DEF Step

\* A decision that is begun: taken without a model, by the player, or asked.
EnterTo(d, f) ==
    /\ Moves(run, d, f) /\ f \in ThreadOf(d) /\ ~Calling(f) /\ f.pc # "pause"
    /\ CallMoves(run, f)

LEMMA EnterMoves ==
    ASSUME TypeInv, NEW d \in Decisions, Enter(d)
    PROVE  /\ stage \in 1..Final /\ d \in Stages[stage] /\ th[run][d].pc = "idle"
           /\ UNCHANGED <<run, over, rows>>
           /\ \E f : EnterTo(d, f)
  <1> USE DEF Calling, Active
  <1>1. stage \in 1..Final /\ d \in Stages[stage] /\ th[run][d].pc = "idle" /\ UNCHANGED <<run, over, rows>>
    BY DEF Enter
  <1>2. run \in Runs
    BY DEF TypeInv
  <1>3. CASE EnterSilently(d)
    <2>1. Moves(run, d, Done) /\ stage' = stage
      BY <1>3 DEF EnterSilently, Set, Moves
    <2>2. QED
      BY <1>1, <2>1, FreshThreads DEF EnterTo, CallMoves
  <1>4. CASE EnterPlayer(d)
    <2>1. (\E a : Conclude(run, d, a) /\ stage' = stage) \/ Raise(run, d)
      BY <1>4 DEF EnterPlayer
    <2>2. PICK f \in {Idle, Done} : Moves(run, d, f) /\ CallMoves(run, f)
      BY <1>2, <2>1, ConcludeMoves, RaiseMoves
    <2>3. f \in ThreadOf(d) /\ f.pc \in {"idle", "done"}
      BY <2>2, FreshThreads
    <2>4. QED
      BY <1>1, <2>2, <2>3 DEF EnterTo
  <1>5. CASE EnterGraph(d)
    <2> DEFINE f == Opened
    <2>1. Moves(run, d, f) /\ UNCHANGED <<stage, product, kept>>
      BY <1>5 DEF EnterGraph, Set, Moves, Opened
    <2>2. f \in ThreadOf(d) /\ f.pc = "open"
      BY FreshThreads
    <2> HIDE DEF f
    <2>3. QED
      BY <1>1, <2>1, <2>2 DEF EnterTo, CallMoves
  <1>6. QED
    BY <1>1, <1>3, <1>4, <1>5 DEF Enter

-----------------------------------------------------------------------------
(* Shapes                                                                  *)

LEMMA LeftRows ==
    ASSUME TypeInv, NEW gone \in SUBSET rows.open
    PROVE  /\ Left(gone) \in [open : SUBSET (Runs \X Decisions \X Nat), past : 0..MaxCalls]
           /\ Left(gone).open = rows.open \ gone /\ IsFiniteSet(Left(gone).open)
  <1>1. IsFiniteSet(gone) /\ IsFiniteSet(rows.open \ gone)
    BY FS_Subset DEF TypeInv
  <1>2. Cardinality(gone) \in Nat
    BY <1>1, FS_CardinalityType
  <1>3. \A a \in 0..MaxCalls, b \in Nat : (IF a + b < MaxCalls THEN a + b ELSE MaxCalls) \in 0..MaxCalls
    BY Constants
  <1>4. rows.past \in 0..MaxCalls /\ rows.open \subseteq Runs \X Decisions \X Nat
    BY DEF TypeInv
  <1>5. QED
    BY <1>1, <1>2, <1>3, <1>4 DEF Left

\* Threads that are not touched keep what is known of them.
LEMMA ThreadsTyped ==
    ASSUME TypeInv, NEW r \in Runs, NEW d \in Decisions, NEW f, Moves(r, d, f), f \in ThreadOf(d),
           f.pc = "pause" => f.tries < Attempts
    PROVE  /\ Shaped(th)'
           /\ \A q \in Runs, e \in Decisions :
                 th'[q][e] \in ThreadOf(e) /\ (th'[q][e].pc = "pause" => th'[q][e].tries < Attempts)
  <1>1. Shaped(th)
    BY DEF TypeInv
  <1>2. /\ Shaped(th)' /\ th'[r][d] = f
        /\ \A q \in Runs, e \in Decisions : q # r \/ e # d => th'[q][e] = th[q][e]
    BY <1>1, MovesOne
  <1>3. QED
    BY <1>2 DEF TypeInv

\* The row of every call in flight, and no other.
Row(r, d) == <<r, d, th[r][d].n>>
Accounted == \A x : x \in rows.open <=>
                \E r \in Runs, d \in Decisions : Calling(th[r][d]) /\ x = Row(r, d)

LEMMA RowsAreAccounted == RowsAccounted <=> Accounted
  <1> DEFINE S == {<<x[1], x[2], th[x[1]][x[2]].n>> : x \in
                    {y \in Runs \X Decisions : th[y[1]][y[2]].pc \in {"asked", "pause", "close"}}}
  <1>1. ASSUME NEW z
        PROVE  z \in S <=> \E r \in Runs, d \in Decisions : Calling(th[r][d]) /\ z = Row(r, d)
    <2>1. ASSUME z \in S PROVE \E r \in Runs, d \in Decisions : Calling(th[r][d]) /\ z = Row(r, d)
      <3>1. PICK x \in Runs \X Decisions :
               Calling(th[x[1]][x[2]]) /\ z = <<x[1], x[2], th[x[1]][x[2]].n>>
        BY <2>1 DEF Calling
      <3>2. x[1] \in Runs /\ x[2] \in Decisions
        BY <3>1
      <3>3. QED
        BY <3>1, <3>2 DEF Row
    <2>2. ASSUME NEW r \in Runs, NEW d \in Decisions, Calling(th[r][d]), z = Row(r, d) PROVE z \in S
      <3>1. PICK x : x = <<r, d>>
        OBVIOUS
      <3>2. x \in Runs \X Decisions /\ x[1] = r /\ x[2] = d
        BY <3>1
      <3>3. QED
        BY <2>2, <3>2 DEF Row, Calling
    <2>3. QED
      BY <2>1, <2>2
  <1>2. RowsAccounted <=> rows.open = S
    BY DEF RowsAccounted
  <1> HIDE DEF S
  <1>3. QED
    BY <1>1, <1>2 DEF Accounted

\* Rows of a step.
LEMMA RowsTyped ==
    ASSUME TypeInv, Accounted, NEW r \in Runs, NEW d \in Decisions, NEW f, RowMoves(r, d, f)
    PROVE  /\ rows' \in [open : SUBSET (Runs \X Decisions \X Nat), past : 0..MaxCalls]
           /\ IsFiniteSet(rows'.open)
  <1> DEFINE row == <<r, d, th[r][d].n>>
  <1>1. th[r][d].n \in Nat
    BY DEF TypeInv, ThreadOf
  <1>2. CASE rows' = [rows EXCEPT !.open = @ \cup {row}]
    <2>1. rows'.open = rows.open \cup {row} /\ rows'.past = rows.past
          /\ rows' \in [open : SUBSET (Runs \X Decisions \X Nat), past : 0..MaxCalls]
      BY <1>1, <1>2 DEF TypeInv
    <2>2. IsFiniteSet(rows.open \cup {row})
      BY FS_AddElement DEF TypeInv
    <2>3. QED
      BY <2>1, <2>2
  <1>3. CASE Calling(th[r][d]) /\ rows' = Left({row})
    <2>1. row \in rows.open
      BY <1>3 DEF Accounted, Row
    <2>2. QED
      BY <1>3, <2>1, LeftRows
  <1>4. CASE rows' = rows
    BY <1>4 DEF TypeInv
  <1>5. QED
    BY <1>2, <1>3, <1>4 DEF RowMoves

LEMMA AccountedStep ==
    ASSUME TypeInv, Accounted, NEW r \in Runs, NEW d \in Decisions, NEW f, Moves(r, d, f), RowMoves(r, d, f)
    PROVE  Accounted'
  <1>1. /\ th'[r][d] = f
        /\ \A q \in Runs, e \in Decisions : q # r \/ e # d => th'[q][e] = th[q][e]
    BY MovesOne DEF TypeInv
  <1> DEFINE others(x) == \E q \in Runs, e \in Decisions :
                             (q # r \/ e # d) /\ Calling(th[q][e]) /\ x = Row(q, e)
             row == Row(r, d)
  <1>2. ASSUME NEW x PROVE x \in rows.open <=> others(x) \/ (Calling(th[r][d]) /\ x = row)
    BY DEF Accounted
  <1>3. ASSUME NEW x
        PROVE  (\E q \in Runs, e \in Decisions : Calling(th'[q][e]) /\ x = Row(q, e)')
                 <=> others(x) \/ (Calling(f) /\ x = <<r, d, f.n>>)
    BY <1>1 DEF Row
  <1>4. ~others(row)
    BY DEF Row
  <1> HIDE DEF others, row
  <1>5. row = <<r, d, th[r][d].n>>
    BY DEF row, Row
  <1>6. CASE ~Calling(th[r][d]) /\ Calling(f) /\ f.n = th[r][d].n /\ rows'.open = rows.open \cup {row}
    BY <1>2, <1>3, <1>5, <1>6 DEF Accounted
  <1>7. CASE Calling(th[r][d]) /\ ~Calling(f) /\ rows'.open = rows.open \ {row}
    BY <1>2, <1>3, <1>4, <1>5, <1>7 DEF Accounted
  <1>8. CASE /\ \/ Calling(th[r][d]) /\ Calling(f) /\ f.n = th[r][d].n
                \/ ~Calling(th[r][d]) /\ ~Calling(f)
             /\ rows' = rows
    BY <1>2, <1>3, <1>5, <1>8 DEF Accounted
  <1>9. QED
    <2>1. ASSUME rows' = [rows EXCEPT !.open = @ \cup {row}] PROVE rows'.open = rows.open \cup {row}
      BY <2>1 DEF TypeInv
    <2>2. ASSUME rows' = Left({row}) PROVE rows'.open = rows.open \ {row}
      BY <2>2 DEF Left
    <2>3. \/ /\ ~Calling(th[r][d]) /\ Calling(f) /\ f.n = th[r][d].n
             /\ rows' = [rows EXCEPT !.open = @ \cup {row}]
          \/ Calling(th[r][d]) /\ ~Calling(f) /\ rows' = Left({row})
          \/ Calling(th[r][d]) /\ Calling(f) /\ f.n = th[r][d].n /\ rows' = rows
          \/ ~Calling(th[r][d]) /\ ~Calling(f) /\ rows' = rows
      BY <1>5 DEF RowMoves
    <2>4. QED
      BY <1>6, <1>7, <1>8, <2>1, <2>2, <2>3

LEMMA ProductShape ==
    ASSUME TypeInv, NEW r \in Runs, NEW d \in Decisions, Step(r, d) \/ Enter(d)
    PROVE  (product = [e \in Decisions |-> product[e]])'
  <1> USE DEF TypeInv
  <1>1. product' = product \/ (\E v : product' = [product EXCEPT ![d] = v])
        \/ product' = [e \in Decisions |-> None]
    <2>1. ASSUME NEW a, NEW q, Conclude(q, d, a)
          PROVE  product' = product \/ \E v : product' = [product EXCEPT ![d] = v]
      BY <2>1 DEF Conclude
    <2>2. ASSUME NEW q, Raise(q, d)
          PROVE  product' = product \/ product' = [e \in Decisions |-> None]
      BY <2>2 DEF Raise
    <2>3. CASE Enter(d)
      BY <2>1, <2>2, <2>3 DEF Enter, EnterSilently, EnterPlayer, EnterGraph
    <2>4. CASE Step(r, d)
      BY <2>1, <2>2, <2>4 DEF Step, OpenRow, ReplyText, ReplyFinal, ReplyBusy, ReplyGarbled, AskAgain,
         CloseRow, Judge
    <2>5. QED
      BY <2>3, <2>4
  <1>2. CASE product' = product
    BY <1>2
  <1>3. ASSUME NEW v, product' = [product EXCEPT ![d] = v]
        PROVE  (product = [e \in Decisions |-> product[e]])'
    <2>1. DOMAIN product = Decisions
      BY Zenon
    <2>2. product' = [e \in Decisions |-> IF e = d THEN v ELSE product[e]]
      BY <1>3, <2>1
    <2>3. QED
      BY <2>2
  <1>4. CASE product' = [e \in Decisions |-> None]
    BY <1>4
  <1>5. QED
    BY <1>1, <1>2, <1>3, <1>4

LEMMA InitTyped == Init => TypeInv /\ Accounted
  <1> SUFFICES ASSUME Init PROVE TypeInv /\ Accounted
    OBVIOUS
  <1>1. /\ run = 1 /\ stage = 1 /\ rows = [open |-> {}, past |-> 0]
        /\ th = [r \in Runs |-> [d \in Decisions |-> Idle]]
        /\ product = [d \in Decisions |-> None]
    BY DEF Init
  <1>2. run \in Runs /\ stage \in 0..(Final + 1)
    BY <1>1, Constants DEF Runs
  <1>3. Shaped(th)
    BY <1>1 DEF Shaped
  <1>4. \A r \in Runs, d \in Decisions : th[r][d] = Idle
    BY <1>1
  <1>5. product = [d \in Decisions |-> product[d]]
    BY <1>1
  <1>6. rows \in [open : SUBSET (Runs \X Decisions \X Nat), past : 0..MaxCalls] /\ IsFiniteSet(rows.open)
    BY <1>1, Constants, FS_EmptySet
  <1>7. TypeInv
    BY <1>2, <1>3, <1>4, <1>5, <1>6, FreshThreads DEF TypeInv
  <1>8. Accounted
    BY <1>1, <1>4, FreshThreads DEF Accounted, Calling
  <1>9. QED
    BY <1>7, <1>8

LEMMA CrashTyped ==
    ASSUME TypeInv, Accounted, Crash
    PROVE  TypeInv' /\ Accounted'
  <1>1. /\ run' = run /\ stage' = 0 /\ rows' = Left(rows.open)
        /\ th' = [r \in Runs |-> [d \in Decisions |-> Idle]]
        /\ product' = [d \in Decisions |-> None]
    BY DEF Crash
  <1>2. run' \in Runs /\ stage' \in 0..(Final + 1)
    BY <1>1, Constants DEF TypeInv
  <1>3. Shaped(th)'
    BY <1>1 DEF Shaped
  <1>4. \A r \in Runs, d \in Decisions : th'[r][d] = Idle
    BY <1>1
  <1>5. (product = [d \in Decisions |-> product[d]])'
    BY <1>1
  <1>6. rows' \in [open : SUBSET (Runs \X Decisions \X Nat), past : 0..MaxCalls] /\ IsFiniteSet(rows'.open)
        /\ rows'.open = {}
    BY <1>1, LeftRows
  <1>7. TypeInv'
    BY <1>2, <1>3, <1>4, <1>5, <1>6, FreshThreads DEF TypeInv
  <1>8. Accounted'
    BY <1>4, <1>6, FreshThreads DEF Accounted, Calling
  <1>9. QED
    BY <1>7, <1>8

LEMMA TypeStep ==
    ASSUME TypeInv, Accounted, [Next]_vars
    PROVE  TypeInv' /\ Accounted'
  <1>1. CASE UNCHANGED vars
    BY <1>1 DEF TypeInv, Accounted, Shaped, Row, vars
  <1>2. CASE Proceed
    <2>1. /\ UNCHANGED <<run, th, rows>> /\ stage' = stage + 1 /\ stage \in 1..Final
          /\ product' = [d \in Decisions |-> IF Role(d) = "character" THEN product[d] ELSE None]
      BY <1>2 DEF Proceed
    <2>2. stage' \in 0..(Final + 1)
      BY <2>1, Constants
    <2>3. (product = [d \in Decisions |-> product[d]])'
      BY <2>1
    <2>4. QED
      BY <2>1, <2>2, <2>3 DEF TypeInv, Accounted, Shaped, Row
  <1>3. CASE Crash
    BY <1>3, CrashTyped
  <1>4. CASE Retry
    <2>1. UNCHANGED <<th, product, rows>> /\ run' = run + 1 /\ run < MaxRuns
          /\ stage' \in {1, Final + 1}
      BY <1>4 DEF Retry
    <2>2. run' \in Runs /\ stage' \in 0..(Final + 1)
      BY <2>1, Constants DEF TypeInv, Runs
    <2>3. QED
      BY <2>1, <2>2 DEF TypeInv, Accounted, Shaped, Row
  <1>5. ASSUME NEW d \in Decisions, Enter(d) PROVE TypeInv' /\ Accounted'
    <2>1. run \in Runs /\ stage \in 0..(Final + 1) /\ th[run][d].pc = "idle"
      BY <1>5, EnterMoves DEF TypeInv
    <2>2. PICK f : EnterTo(d, f)
      BY <1>5, EnterMoves
    <2>3. UNCHANGED <<run, rows>> /\ ~Calling(th[run][d])
      BY <1>5, <2>1, EnterMoves DEF Calling
    <2>4. RowMoves(run, d, f)
      BY <2>2, <2>3 DEF EnterTo, RowMoves
    <2>5. stage' \in 0..(Final + 1)
      BY <2>1, <2>2, Constants DEF EnterTo, CallMoves
    <2>6. Accounted'
      BY <2>1, <2>2, <2>4, AccountedStep DEF EnterTo
    <2>7. /\ Shaped(th)'
          /\ \A q \in Runs, e \in Decisions :
                th'[q][e] \in ThreadOf(e) /\ (th'[q][e].pc = "pause" => th'[q][e].tries < Attempts)
      BY <2>1, <2>2, ThreadsTyped DEF EnterTo
    <2>8. (product = [e \in Decisions |-> product[e]])'
      BY <1>5, <2>1, ProductShape
    <2>9. QED
      BY <2>1, <2>3, <2>5, <2>6, <2>7, <2>8 DEF TypeInv
  <1>6. ASSUME NEW r \in Runs, NEW d \in Decisions, Step(r, d) PROVE TypeInv' /\ Accounted'
    <2>1. PICK f : StepTo(r, d, f)
      BY <1>6, StepMoves
    <2>2. run' = run /\ run \in Runs /\ stage \in 0..(Final + 1)
      BY <1>6 DEF Step, OpenRow, ReplyText, ReplyFinal, ReplyBusy, ReplyGarbled, AskAgain, CloseRow,
         Judge, TypeInv
    <2>3. stage' \in 0..(Final + 1)
      BY <2>1, <2>2, Constants DEF StepTo, CallMoves
    <2>4. Accounted'
      BY <2>1, AccountedStep DEF StepTo
    <2>5. /\ Shaped(th)'
          /\ \A q \in Runs, e \in Decisions :
                th'[q][e] \in ThreadOf(e) /\ (th'[q][e].pc = "pause" => th'[q][e].tries < Attempts)
      BY <2>1, ThreadsTyped DEF StepTo
    <2>6. (product = [e \in Decisions |-> product[e]])'
      BY <1>6, ProductShape
    <2>7. rows' \in [open : SUBSET (Runs \X Decisions \X Nat), past : 0..MaxCalls]
          /\ IsFiniteSet(rows'.open)
      BY <2>1, RowsTyped DEF StepTo
    <2>8. QED
      BY <2>2, <2>3, <2>4, <2>5, <2>6, <2>7 DEF TypeInv
  <1>7. QED
    BY <1>1, <1>2, <1>3, <1>4, <1>5, <1>6 DEF Next

\* The audit accounts for every call of a model (tracing/service.py, run_call):
\* rows that are started are those of the calls in flight, in every order of
\* threads, repairs, retries, garbled answers and deaths, over any number of calls
\* of advance.
THEOREM RowsAccountedHolds == Spec => []RowsAccounted
  <1>1. TypeInv /\ Accounted /\ [Next]_vars => TypeInv' /\ Accounted'
    BY TypeStep
  <1>2. TypeInv /\ Accounted => RowsAccounted
    BY RowsAreAccounted
  <1>3. QED
    BY <1>1, <1>2, InitTyped, PTL DEF Spec

LEMMA Typed == Spec => [](TypeInv /\ Accounted)
  <1>1. TypeInv /\ Accounted /\ [Next]_vars => TypeInv' /\ Accounted'
    BY TypeStep
  <1>2. QED
    BY <1>1, InitTyped, PTL DEF Spec

-----------------------------------------------------------------------------
(* Stages                                                                  *)

LEMMA InitPlaces == TypeInv /\ Init => PlaceInv
  <1> SUFFICES ASSUME Init PROVE PlaceInv
    OBVIOUS
  <1>1. run = 1 /\ stage = 1 /\ th = [r \in Runs |-> [d \in Decisions |-> Idle]] /\ 1 \in Runs
    BY Constants DEF Init, Runs
  <1>2. \A r \in Runs, d \in Decisions : th[r][d].pc = "idle"
    BY <1>1, FreshThreads
  <1>3. \A j \in 1..Final : ~(j < stage)
    BY <1>1
  <1>4. QED
    BY <1>1, <1>2, <1>3 DEF PlaceInv, Active

\* One thread moves, where it belongs.
LEMMA PlaceMoves ==
    ASSUME TypeInv, PlaceInv, run' = run, NEW r \in Runs, NEW d \in Decisions, NEW f, Moves(r, d, f),
           r <= run, th[r][d].pc # "done",
           r = run /\ stage # 0 => stage \in 1..Final /\ d \in Stages[stage],
           stage' = stage \/ stage' = 0
    PROVE  PlaceInv'
  <1>1. /\ th'[r][d] = f
        /\ \A q \in Runs, e \in Decisions : q # r \/ e # d => th'[q][e] = th[q][e]
    BY MovesOne DEF TypeInv
  <1>2. run \in Nat /\ r \in Nat /\ run \in Runs
    BY DEF TypeInv, Runs
  <1>3. \A q \in Runs, e \in Decisions : q > run => th'[q][e].pc = "idle"
    <2> SUFFICES ASSUME NEW q \in Runs, NEW e \in Decisions, q > run PROVE th'[q][e].pc = "idle"
      OBVIOUS
    <2>1. q # r
      BY <1>2 DEF Runs
    <2>2. QED
      BY <1>1, <2>1 DEF PlaceInv
  <1>4. ASSUME stage' # 0, NEW e \in Decisions
        PROVE  /\ th'[run][e].pc # "idle" => \E j \in 1..Final : j <= stage /\ e \in Stages[j]
               /\ Active(th'[run][e]) => stage \in 1..Final /\ e \in Stages[stage]
    <2>1. stage # 0
      BY <1>4
    <2>2. CASE run = r /\ e = d
      <3>1. stage \in 1..Final /\ e \in Stages[stage]
        BY <2>1, <2>2
      <3>2. stage <= stage
        BY <3>1
      <3>3. QED
        BY <3>1, <3>2
    <2>3. CASE run # r \/ e # d
      BY <1>1, <1>2, <2>1, <2>3 DEF PlaceInv
    <2>4. QED
      BY <2>2, <2>3
  <1>5. ASSUME NEW j \in 1..Final, stage \in 1..Final, j < stage, NEW e \in Stages[j]
        PROVE  th'[run][e].pc = "done"
    <2>1. e \in Decisions /\ th[run][e].pc = "done"
      BY <1>5, Constants DEF PlaceInv
    <2>2. run # r \/ e # d
      BY <2>1
    <2>3. QED
      BY <1>1, <1>2, <2>1, <2>2
  <1>6. CASE stage' = stage
    BY <1>3, <1>4, <1>5, <1>6 DEF PlaceInv
  <1>7. CASE stage' = 0
    <2>1. stage' \notin 1..Final
      BY <1>7
    <2>2. QED
      BY <1>3, <1>7, <2>1 DEF PlaceInv
  <1>8. QED
    BY <1>6, <1>7

LEMMA StepPlaces ==
    ASSUME TypeInv, PlaceInv, NEW r \in Runs, NEW d \in Decisions, Step(r, d)
    PROVE  /\ PlaceInv' /\ r <= run /\ run' = run /\ stage' \in {0, stage}
           /\ r = run /\ stage # 0 => stage \in 1..Final /\ d \in Stages[stage]
  <1>1. PICK f : StepTo(r, d, f)
    BY StepMoves
  <1>2. run' = run
    BY DEF Step, OpenRow, ReplyText, ReplyFinal, ReplyBusy, ReplyGarbled, AskAgain, CloseRow, Judge
  <1>9. run \in Nat /\ r \in Nat
    BY Constants DEF TypeInv, Runs
  <1>3. Active(th[r][d])
    BY StepMoves
  <1>4. ~(r > run)
    BY <1>3 DEF PlaceInv, Active
  <1>5. r = run /\ stage # 0 => stage \in 1..Final /\ d \in Stages[stage]
    BY <1>3 DEF PlaceInv
  <1>6. stage' = stage \/ stage' = 0
    BY <1>1 DEF StepTo, CallMoves
  <1>7. Moves(r, d, f) /\ r <= run /\ th[r][d].pc # "done"
    BY <1>1, <1>2, <1>9, <1>3, <1>4 DEF StepTo, Active
  <1>8. QED
    BY <1>2, <1>5, <1>6, <1>7, PlaceMoves

LEMMA EnterPlaces ==
    ASSUME TypeInv, PlaceInv, NEW d \in Decisions, Enter(d)
    PROVE  PlaceInv' /\ run' = run /\ stage' \in {0, stage}
  <1>1. PICK f : EnterTo(d, f)
    BY EnterMoves
  <1>2. stage \in 1..Final /\ d \in Stages[stage] /\ th[run][d].pc = "idle" /\ run' = run
    BY EnterMoves
  <1>3. run \in Runs /\ run <= run
    BY DEF TypeInv, Runs
  <1>4. stage' = stage \/ stage' = 0
    BY <1>1 DEF EnterTo, CallMoves
  <1>5. QED
    BY <1>1, <1>2, <1>3, <1>4, PlaceMoves DEF EnterTo

LEMMA ProceedPlaces ==
    ASSUME TypeInv, PlaceInv, Proceed
    PROVE  /\ PlaceInv'
           /\ \A d \in Decisions : stage' \in 1..Final /\ d \in Stages[stage'] => th[run][d].pc = "idle"
  <1>1. /\ stage \in 1..Final /\ stage' = stage + 1 /\ UNCHANGED <<run, th>>
        /\ \A d \in Stages[stage] : th[run][d].pc = "done"
    BY DEF Proceed
  <1>2. stage # 0 /\ stage \in Nat /\ Final \in Nat /\ stage' \in Nat
    BY <1>1, Constants
  <1>3. ASSUME NEW d \in Decisions
        PROVE  /\ th[run][d].pc # "idle" => \E j \in 1..Final : j <= stage /\ d \in Stages[j]
               /\ ~Active(th[run][d])
    BY <1>1, <1>2 DEF PlaceInv, Active
  <1>4. ASSUME NEW d \in Decisions, th[run][d].pc # "idle"
        PROVE  \E j \in 1..Final : j <= stage' /\ d \in Stages[j]
    BY <1>1, <1>2, <1>3, <1>4
  <1>5. ASSUME NEW j \in 1..Final, j < stage', NEW d \in Stages[j]
        PROVE  th[run][d].pc = "done"
    <2>1. j < stage \/ j = stage
      BY <1>1, <1>2, <1>5
    <2>2. QED
      BY <1>1, <2>1 DEF PlaceInv
  <1>6. PlaceInv'
    BY <1>1, <1>3, <1>4, <1>5 DEF PlaceInv
  <1>7. ASSUME NEW d \in Decisions, stage' \in 1..Final, d \in Stages[stage']
        PROVE  th[run][d].pc = "idle"
    <2>1. ASSUME NEW j \in 1..Final, j <= stage, d \in Stages[j] PROVE FALSE
      <3>1. j # stage'
        BY <1>1, <1>2, <2>1
      <3>2. QED
        BY <1>7, <2>1, <3>1, DeliberationAssumption
    <2>2. QED
      BY <1>3, <2>1
  <1>8. QED
    BY <1>6, <1>7

LEMMA PlaceStep ==
    ASSUME TypeInv, PlaceInv, [Next]_vars
    PROVE  PlaceInv'
  <1>1. CASE UNCHANGED vars
    BY <1>1 DEF PlaceInv, vars
  <1>2. CASE Crash
    <2>1. stage' = 0 /\ th' = [r \in Runs |-> [d \in Decisions |-> Idle]]
      BY <1>2 DEF Crash
    <2>2. \A r \in Runs, d \in Decisions : th'[r][d].pc = "idle"
      BY <2>1, FreshThreads
    <2>3. stage' \notin 1..Final
      BY <2>1
    <2>4. QED
      BY <2>1, <2>2, <2>3 DEF PlaceInv
  <1>3. CASE Retry
    <2>1. run' = run + 1 /\ run < MaxRuns /\ th' = th /\ stage' \in {1, Final + 1}
      BY <1>3 DEF Retry
    <2>2. run \in Nat /\ run' \in Runs /\ run' > run
      BY <2>1, Constants DEF TypeInv, Runs
    <2>3. \A r \in Runs, d \in Decisions : r > run' \/ r = run' => th'[r][d].pc = "idle"
      BY <2>1, <2>2 DEF PlaceInv, Runs
    <2>4. \A j \in 1..Final : ~(stage' \in 1..Final /\ j < stage')
      BY <2>1, Constants
    <2>5. QED
      BY <2>2, <2>3, <2>4 DEF PlaceInv, Active
  <1>4. QED
    BY <1>1, <1>2, <1>3, ProceedPlaces, StepPlaces, EnterPlaces DEF Next

-----------------------------------------------------------------------------
(* The abstract oracle                                                     *)

Given == {d \in IF stage \in 1..Final THEN Stages[stage] ELSE {} : th[run][d].pc = "done"}

\* One thread moves: a decision is given, the call breaks off, or nothing shows.
LEMMA GivenMoves ==
    ASSUME TypeInv, PlaceInv, run' = run, NEW r \in Runs, NEW d \in Decisions, NEW f, Moves(r, d, f),
           th[r][d].pc # "done",
           r = run /\ stage # 0 => stage \in 1..Final /\ d \in Stages[stage],
           CallMoves(r, f)
    PROVE  \/ stage' = stage /\ Given' = Given
           \/ /\ stage \in 1..Final /\ stage' = stage
              /\ d \in Stages[stage] \ Given /\ Given' = Given \cup {d}
           \/ stage \in 1..Final /\ stage' = 0 /\ Given' = {}
  <1>1. /\ th'[r][d] = f
        /\ \A q \in Runs, e \in Decisions : q # r \/ e # d => th'[q][e] = th[q][e]
    BY MovesOne DEF TypeInv
  <1>2. run \in Runs /\ stage \in 0..(Final + 1) /\ Final \in Nat
        /\ \A i \in 1..Final : Stages[i] \subseteq Decisions
    BY Constants DEF TypeInv
  <1>3. CASE stage' = stage /\ r = run /\ stage # 0 /\ f.pc = "done"
    <2>1. stage \in 1..Final /\ d \in Stages[stage] /\ d \notin Given
      BY <1>3 DEF Given
    <2>2. Given' = Given \cup {d}
      BY <1>1, <1>2, <1>3, <2>1 DEF Given
    <2>3. QED
      BY <1>3, <2>1, <2>2
  <1>4. CASE stage' = stage /\ ~(r = run /\ stage # 0 /\ f.pc = "done")
    <2>1. Given' = Given
      <3>1. CASE stage = 0
        <4>1. 0 \notin 1..Final
          OBVIOUS
        <4>2. QED
          BY <1>4, <3>1, <4>1 DEF Given
      <3>2. CASE r # run
        BY <1>1, <1>2, <1>4, <3>2 DEF Given
      <3>3. CASE f.pc # "done"
        BY <1>1, <1>2, <1>4, <3>3 DEF Given
      <3>4. QED
        BY <1>4, <3>1, <3>2, <3>3
    <2>2. QED
      BY <1>4, <2>1
  <1>5. CASE stage' = 0 /\ r = run
    <2>1. 0 \notin 1..Final
      OBVIOUS
    <2>2. Given' = {}
      BY <1>5, <2>1 DEF Given
    <2>3. CASE stage = 0
      <3>1. Given = {}
        BY <2>1, <2>3 DEF Given
      <3>2. QED
        BY <1>5, <2>2, <2>3, <3>1
    <2>4. CASE stage # 0
      BY <1>5, <2>2, <2>4
    <2>5. QED
      BY <2>3, <2>4
  <1>6. QED
    BY <1>3, <1>4, <1>5 DEF CallMoves

LEMMA OracleStep ==
    ASSUME TypeInv, PlaceInv, [Next]_vars
    PROVE  \/ UNCHANGED <<stage, Given>>
           \/ /\ stage \in 1..Final
              /\ \/ \E d \in Stages[stage] \ Given : Given' = Given \cup {d} /\ UNCHANGED stage
                 \/ Given = Stages[stage] /\ stage' = stage + 1 /\ Given' = {}
                 \/ stage' = 0 /\ Given' = {}
           \/ stage = 0 /\ stage' \in {1, Final + 1} /\ Given' = {}
  <1>1. CASE UNCHANGED vars
    BY <1>1 DEF Given, vars
  <1>2. CASE Proceed
    <2>1. stage \in 1..Final /\ stage' = stage + 1 /\ UNCHANGED <<run, th>>
          /\ \A d \in Stages[stage] : th[run][d].pc = "done"
      BY <1>2 DEF Proceed
    <2>2. Given = Stages[stage]
      BY <2>1 DEF Given
    <2>3. Given' = {}
      BY <1>2, <2>1, ProceedPlaces, Constants DEF Given
    <2>4. QED
      BY <2>1, <2>2, <2>3
  <1>3. CASE Crash
    <2>1. stage \in 1..Final /\ stage' = 0 /\ stage' \notin 1..Final
      BY <1>3 DEF Crash
    <2>2. QED
      BY <2>1 DEF Given
  <1>4. CASE Retry
    <2>1. stage = 0 /\ run' = run + 1 /\ run < MaxRuns /\ th' = th /\ stage' \in {1, Final + 1}
      BY <1>4 DEF Retry
    <2>2. run' \in Runs /\ run' > run
      BY <2>1, Constants DEF TypeInv, Runs
    <2>3. \A d \in Decisions : th'[run'][d].pc = "idle"
      BY <2>1, <2>2 DEF PlaceInv
    <2>4. Given' = {}
      BY <2>3, Constants DEF Given
    <2>5. QED
      BY <2>1, <2>4
  <1>5. ASSUME NEW d \in Decisions, Enter(d)
        PROVE  \/ UNCHANGED <<stage, Given>>
               \/ /\ stage \in 1..Final
                  /\ \/ \E e \in Stages[stage] \ Given : Given' = Given \cup {e} /\ UNCHANGED stage
                     \/ stage' = 0 /\ Given' = {}
    <2>1. PICK f : EnterTo(d, f)
      BY <1>5, EnterMoves
    <2>2. stage \in 1..Final /\ d \in Stages[stage] /\ th[run][d].pc = "idle" /\ run' = run
          /\ run \in Runs
      BY <1>5, EnterMoves DEF TypeInv
    <2>3. QED
      BY <2>1, <2>2, GivenMoves DEF EnterTo
  <1>6. ASSUME NEW r \in Runs, NEW d \in Decisions, Step(r, d)
        PROVE  \/ UNCHANGED <<stage, Given>>
               \/ /\ stage \in 1..Final
                  /\ \/ \E e \in Stages[stage] \ Given : Given' = Given \cup {e} /\ UNCHANGED stage
                     \/ stage' = 0 /\ Given' = {}
    <2>1. PICK f : StepTo(r, d, f)
      BY <1>6, StepMoves
    <2>2. th[r][d].pc # "done" /\ run' = run
          /\ (r = run /\ stage # 0 => stage \in 1..Final /\ d \in Stages[stage])
      BY <1>6, StepMoves, StepPlaces DEF Active
    <2>3. QED
      BY <2>1, <2>2, GivenMoves DEF StepTo
  <1>7. QED
    BY <1>1, <1>2, <1>3, <1>4, <1>5, <1>6 DEF Next

LEMMA Placed == Spec => [](TypeInv /\ PlaceInv)
  <1>1. TypeInv /\ PlaceInv /\ [Next]_vars => PlaceInv'
    BY PlaceStep
  <1>2. QED
    BY <1>1, InitPlaces, Typed, PTL DEF Spec

\* Every step of the decisions is a step of the oracle or none: the decisions of a
\* stage are all taken before the next looks at them, and a call that broke off
\* starts over (stage1.py, advance_phase and the gather of _decide_all), also while
\* threads of abandoned calls go on.  The oracle's fairness stays with the run.
THEOREM ImplementsOracle == Spec => Oracle!Init /\ [][Oracle!Next]_(Oracle!vars)
  <1>1. Init => Oracle!Init
    <2> SUFFICES ASSUME Init PROVE stage = 1 /\ Given = {}
      BY DEF Oracle!Init, Given
    <2>1. stage = 1 /\ \A d \in Decisions : th[run][d].pc = "idle"
      BY Constants, FreshThreads DEF Init, Runs
    <2>2. QED
      BY <2>1, Constants DEF Given
  <1>2. TypeInv /\ PlaceInv /\ [Next]_vars => [Oracle!Next]_(Oracle!vars)
    BY OracleStep DEF Oracle!Next, Oracle!vars, Oracle!Working, Oracle!Give, Oracle!Proceed,
       Oracle!BreakOff, Oracle!StartOver, Given, Final
  <1>3. QED
    BY <1>1, <1>2, Placed, PTL DEF Spec

-----------------------------------------------------------------------------
(* What answers are worth                                                  *)

Outcomes == {"success", "partial", "failure", "impossible"}

\* An envelope allows known outcomes, touches whom it has an effect on, and an
\* ambiguous one can always fail.
Proper(e) ==
    /\ e.outcomes \subseteq Outcomes
    /\ \A x \in e.effects : x.whom \in e.touched
    /\ ~e.determined => "failure" \in e.outcomes

LEMMA EnvelopesProper == ASSUME NEW a PROVE Proper(Envelope(a))
  <1>1. \A x \in Planned(a) : x.whom = a.who
    BY DEF Planned
  <1>2. CASE ~Feasible(a)
    BY <1>2 DEF Envelope, Proper, Outcomes
  <1>3. CASE Feasible(a) /\ a.family = "communicate"
    BY <1>3 DEF Envelope, Proper, Outcomes
  <1>4. CASE Feasible(a) /\ a.family # "communicate"
    BY <1>1, <1>4 DEF Envelope, Proper, Outcomes
  <1>5. QED
    BY <1>2, <1>3, <1>4

LEMMA WorstIsOne == ASSUME NEW S \in SUBSET Outcomes, S # {} PROVE Worst(S) \in S
  <1>1. /\ Rank["success"] = 0 /\ Rank["partial"] = 1 /\ Rank["failure"] = 2
        /\ Rank["impossible"] = 3
    BY DEF Rank
  <1> HIDE DEF Rank
  <1>2. \A o \in S : o = "success" \/ o = "partial" \/ o = "failure" \/ o = "impossible"
    BY DEF Outcomes
  <1>3. \E o \in S : \A other \in S : Rank[other] <= Rank[o]
    <2>1. CASE "impossible" \in S
      BY <1>1, <1>2, <2>1
    <2>2. CASE "impossible" \notin S /\ "failure" \in S
      BY <1>1, <1>2, <2>2
    <2>3. CASE "impossible" \notin S /\ "failure" \notin S /\ "partial" \in S
      BY <1>1, <1>2, <2>3
    <2>4. CASE "impossible" \notin S /\ "failure" \notin S /\ "partial" \notin S
      BY <1>1, <1>2, <2>4
    <2>5. QED
      BY <2>1, <2>2, <2>3, <2>4
  <1>4. QED
    BY <1>3 DEF Worst

Bounded(v, E) ==
    /\ v.outcome \in {"success"} \cup UNION {e.outcomes : e \in E}
    /\ {x.whom : x \in v.effects} \subseteq UNION {e.touched : e \in E}

LEMMA MergedBounded ==
    ASSUME NEW E, \A e \in E : Proper(e), NEW D \in SUBSET E
    PROVE  Bounded(Merged(D), E)
  <1> DEFINE S == {"success"} \cup UNION {e.outcomes : e \in D}
  <1>1. S \in SUBSET Outcomes /\ S # {}
    BY DEF Proper, Outcomes
  <1>2. Worst(S) \in S
    BY <1>1, WorstIsOne
  <1>3. Merged(D).outcome = Worst(S) /\ Merged(D).effects = UNION {e.effects : e \in D}
    BY DEF Merged
  <1>4. S \subseteq {"success"} \cup UNION {e.outcomes : e \in E}
    OBVIOUS
  <1> HIDE DEF S
  <1>5. ASSUME NEW x \in Merged(D).effects PROVE x.whom \in UNION {e.touched : e \in E}
    <2>1. PICK e \in D : x \in e.effects
      BY <1>3
    <2>2. x.whom \in e.touched
      BY <2>1 DEF Proper
    <2>3. QED
      BY <2>2
  <1>6. QED
    BY <1>2, <1>3, <1>4, <1>5 DEF Bounded

\* Whatever the resolver says of a scene with intents stays within the envelopes,
\* and a scene without ambiguity is settled without it.
LEMMA ResolverBounded ==
    ASSUME NEW E, \A e \in E : Proper(e), E # {}, NEW reply
    PROVE  /\ Bounded(ResolverAnswer(E, reply), E)
           /\ Automatic(E) /\ ~reply.ok => ResolverAnswer(E, reply) = Merged(E)
  <1> DEFINE D == {e \in E : e.determined}
  <1>1. CASE reply.ok /\ EffectsValid(reply, Packet(E))
    BY <1>1 DEF ResolverAnswer, EffectsValid, Packet, Bounded
  <1>2. CASE ~(reply.ok /\ EffectsValid(reply, Packet(E)))
    <2>1. ResolverAnswer(E, reply) = ResolverFallback(E)
      BY <1>2 DEF ResolverAnswer
    <2>2. CASE D = {}
      <3>1. ResolverFallback(E) = [outcome |-> "failure", effects |-> {}]
        BY <2>2 DEF ResolverFallback
      <3>2. PICK e \in E : ~e.determined
        BY <2>2
      <3>3. "failure" \in e.outcomes
        BY <3>2 DEF Proper
      <3>4. Bounded(ResolverFallback(E), E)
        BY <3>1, <3>3 DEF Bounded
      <3>5. ~Automatic(E)
        BY <3>2 DEF Automatic
      <3>6. QED
        BY <2>1, <3>4, <3>5
    <2>3. CASE D # {}
      <3>1. ResolverFallback(E) = Merged(D) /\ D \in SUBSET E
        BY <2>3 DEF ResolverFallback
      <3>2. Automatic(E) => D = E
        BY DEF Automatic
      <3>3. Bounded(Merged(D), E)
        BY <3>1, MergedBounded
      <3>4. QED
        BY <2>1, <3>1, <3>2, <3>3
    <2>4. QED
      BY <2>2, <2>3
  <1>3. QED
    BY <1>1, <1>2

Beats(v, facts) ==
    /\ UNION {b.cited : b \in Range(v)} \subseteq facts
    /\ Len(v) <= (IF BeatBudget > 1 THEN BeatBudget ELSE 1)

LEMMA Listed ==
    ASSUME NEW facts, IsFiniteSet(facts)
    PROVE  SetToSeq(facts) \in [1..Cardinality(facts) -> facts] /\ Cardinality(facts) \in Nat
  <1>1. Cardinality(facts) \in Nat /\ ExistsBijection(1..Cardinality(facts), facts)
    BY FS_CardinalityType
  <1>2. PICK f \in [1..Cardinality(facts) -> facts] : IsInjective(f)
    BY <1>1 DEF ExistsBijection, Bijection, Injection, IsInjective
  <1>3. QED
    BY <1>1, <1>2 DEF SetToSeq

\* Narration cites what happened in the scene, and no more beats than it has.
LEMMA NarrationBounded ==
    ASSUME NEW facts, IsFiniteSet(facts), NEW audience, NEW reply
    PROVE  Beats(NarratorAnswer(facts, audience, reply), facts)
  <1> DEFINE listed == SetToSeq(facts)
             many == IF Len(listed) < BeatBudget THEN Len(listed) ELSE BeatBudget
  <1>1. BeatBudget \in Nat
    BY JudgementAssumption
  <1>2. CASE reply.ok /\ BeatsValid(reply.beats, facts, audience)
    <2>1. NarratorAnswer(facts, audience, reply) = reply.beats
      BY <1>2 DEF NarratorAnswer
    <2>2. Len(reply.beats) <= BeatBudget /\ Len(reply.beats) \in Nat
          /\ \A b \in Range(reply.beats) : b.cited \subseteq facts
      BY <1>1, <1>2 DEF BeatsValid
    <2>3. QED
      BY <1>1, <2>1, <2>2 DEF Beats
  <1>3. CASE ~(reply.ok /\ BeatsValid(reply.beats, facts, audience)) /\ facts = {}
    <2> DEFINE v == <<[cited |-> {}, speaker |-> Nobody]>>
    <2>1. NarratorAnswer(facts, audience, reply) = v
      BY <1>3 DEF NarratorAnswer, FallbackBeats
    <2>2. Len(v) = 1 /\ Range(v) = {[cited |-> {}, speaker |-> Nobody]}
      BY DEF Range
    <2> HIDE DEF v
    <2>3. QED
      BY <1>1, <2>1, <2>2 DEF Beats
  <1>4. CASE ~(reply.ok /\ BeatsValid(reply.beats, facts, audience)) /\ facts # {}
    <2> DEFINE v == [i \in 1..many |-> [cited |-> {listed[i]}, speaker |-> Nobody]]
    <2>1. NarratorAnswer(facts, audience, reply) = v
      BY <1>4 DEF NarratorAnswer, FallbackBeats
    <2>2. listed \in [1..Cardinality(facts) -> facts] /\ Cardinality(facts) \in Nat
      BY Listed
    <2> HIDE DEF listed
    <2>3. Len(listed) = Cardinality(facts)
      BY <2>2
    <2>4. many \in Nat /\ many <= BeatBudget /\ many <= Cardinality(facts)
      BY <1>1, <2>2, <2>3
    <2> HIDE DEF many
    <2>5. Len(v) = many
      BY <2>4
    <2>6. ASSUME NEW b \in Range(v) PROVE b.cited \subseteq facts
      <3>1. PICK i \in 1..many : b = [cited |-> {listed[i]}, speaker |-> Nobody]
        BY <2>6 DEF Range
      <3>2. i \in 1..Cardinality(facts)
        BY <2>2, <2>4
      <3>3. QED
        BY <2>2, <3>1, <3>2
    <2>7. QED
      BY <1>1, <2>1, <2>4, <2>5, <2>6 DEF Beats
  <1>5. QED
    BY <1>2, <1>3, <1>4

\* What an answer is worth when the intents are those of this call.
LawfulAction(a) == a.family \in Families /\ a.to \in Characters \cup Places \cup {Nobody}

Lawful(d, v) ==
    /\ Role(d) = "character" => LawfulAction(v)
    /\ Role(d) = "resolver" =>
          Bounded(v, Envelopes) /\ (Automatic(Envelopes) => v = Merged(Envelopes))
    /\ Role(d) = "narrator" => Beats(v, Facts)
    /\ Role(d) = "summary" => v \subseteq Sources

ProductInv ==
    /\ \A d \in Decisions : product[d].made =>
          /\ Lawful(d, product[d].value)
          /\ stage # 0
          /\ Role(d) # "character" => stage \in 1..Final /\ d \in Stages[stage]
    /\ stage # 0 => \A d \in Decisions :
          /\ Role(d) = "character" /\ th[run][d].pc = "done" => product[d].made
          /\ Role(d) = "resolver" /\ Active(th[run][d]) => ~Automatic(Envelopes)

LEMMA ActionsLawful ==
    ASSUME NEW a \in Replies["character"] \cup PlayerActions, Precheck(a)
    PROVE  LawfulAction(a)
  <1>1. a.family \in Families /\ (a.family \notin Targeting => a.to = Nobody)
    BY RolesAssumption
  <1>2. CASE a.family \in Targeting
    BY <1>1, <1>2 DEF Targeting, Precheck, LawfulAction
  <1>3. CASE a.family \notin Targeting
    BY <1>1, <1>3 DEF LawfulAction
  <1>4. QED
    BY <1>2, <1>3

LEMMA FactsFinite == IsFiniteSet(Facts)
  <1> DEFINE S == {x \in Decisions : Role(x) = "character" /\ product[x].made}
             f == [x \in S |-> product[x].value.family]
  <1>1. IsFiniteSet(S)
    BY FS_Subset, DeliberationAssumption
  <1>2. Facts = {product[x].value.family : x \in S}
    BY DEF Facts, Intents
  <1>3. f \in Surjection(S, Facts)
    BY <1>2 DEF Surjection
  <1>4. QED
    BY <1>1, <1>3, FS_Surjection

\* A scene is resolved when its characters have intents.
LEMMA IntentsMade ==
    ASSUME TypeInv, PlaceInv, ProductInv, stage \in 1..Final, NEW d \in Stages[stage],
           Role(d) = "resolver"
    PROVE  Envelopes # {}
  <1>1. PICK j \in 1..(stage - 1) : \E e \in Stages[j] : Role(e) = "character"
    BY RolesAssumption
  <1>2. j \in 1..Final /\ j < stage /\ stage # 0
    BY <1>1, Constants
  <1>3. PICK e \in Stages[j] : Role(e) = "character"
    BY <1>1
  <1>4. e \in Decisions /\ th[run][e].pc = "done"
    BY <1>2, <1>3, Constants DEF PlaceInv
  <1>5. product[e].made
    BY <1>2, <1>3, <1>4 DEF ProductInv
  <1>6. product[e].value \in Intents
    BY <1>3, <1>4, <1>5 DEF Intents
  <1>7. QED
    BY <1>6 DEF Envelopes

LEMMA AnswersAreLawful ==
    ASSUME TypeInv, PlaceInv, ProductInv, stage \in 1..Final, NEW d \in Stages[stage],
           NEW reply \in {NoReply, Broken} \cup Replies[Role(d)],
           Role(d) = "resolver" => ~Automatic(Envelopes) \/ reply = NoReply
    PROVE  Lawful(d, Answer(d, reply))
  <1>1. ~NoReply.ok /\ ~Broken.ok
    BY DEF NoReply, Broken
  <1>2. CASE Role(d) = "character"
    <2>1. Answer(d, reply) = CharacterAnswer(Who(d), reply)
      BY <1>2 DEF Answer
    <2>2. LawfulAction(Wait(Who(d)))
      BY DEF Wait, LawfulAction, Families
    <2>3. CASE reply.ok /\ Precheck(reply)
      <3>1. reply \in Replies["character"]
        BY <1>1, <1>2, <2>3
      <3>2. LawfulAction(reply)
        BY <2>3, <3>1, ActionsLawful
      <3>3. QED
        BY <1>2, <2>1, <2>3, <3>2 DEF CharacterAnswer, Lawful
    <2>4. CASE ~(reply.ok /\ Precheck(reply))
      BY <1>2, <2>1, <2>2, <2>4 DEF CharacterAnswer, Lawful
    <2>5. QED
      BY <2>3, <2>4
  <1>3. CASE Role(d) = "resolver"
    <2>1. Answer(d, reply) = ResolverAnswer(Envelopes, reply)
      BY <1>3 DEF Answer
    <2>2. Envelopes # {} /\ \A e \in Envelopes : Proper(e)
      BY <1>3, IntentsMade, EnvelopesProper DEF Envelopes
    <2>3. Bounded(Answer(d, reply), Envelopes)
          /\ (Automatic(Envelopes) /\ ~reply.ok => Answer(d, reply) = Merged(Envelopes))
      BY <2>1, <2>2, ResolverBounded
    <2>4. Automatic(Envelopes) => ~reply.ok
      BY <1>1, <1>3
    <2>5. QED
      BY <1>3, <2>3, <2>4 DEF Lawful
  <1>4. CASE Role(d) = "narrator"
    <2>1. Answer(d, reply) = NarratorAnswer(Facts, Characters, reply)
      BY <1>4 DEF Answer
    <2>2. Beats(Answer(d, reply), Facts)
      BY <2>1, FactsFinite, NarrationBounded
    <2>3. QED
      BY <1>4, <2>2 DEF Lawful
  <1>5. CASE Role(d) = "summary"
    <2>1. Answer(d, reply) = SummaryAnswer(Sources, reply)
      BY <1>5 DEF Answer
    <2>2. QED
      BY <1>5, <2>1 DEF SummaryAnswer, SummaryValid, Lawful
  <1>6. CASE Role(d) \notin {"character", "resolver", "narrator", "summary"}
    BY <1>6 DEF Lawful
  <1>7. QED
    BY <1>2, <1>3, <1>4, <1>5, <1>6

\* What the move of a thread makes of the products: it breaks its call off, leaves
\* them, or has come to something its stage waits for.
Settles(d, p) ==
    \/ p = None /\ Role(d) # "character"
    \/ \E v : p = Made(v) /\ Lawful(d, v)

ProductMoves(r, d, f) ==
    \/ stage' = 0 /\ product' = [x \in Decisions |-> None]
    \/ /\ UNCHANGED <<stage, product>>
       /\ Awaited(r) /\ Role(d) = "character" => f.pc # "done"
       /\ Awaited(r) /\ Role(d) = "resolver" /\ Active(f) => ~Automatic(Envelopes)
    \/ /\ r = run /\ stage \in 1..Final /\ d \in Stages[stage] /\ stage' = stage
       /\ f = Done /\ \E p : Settles(d, p) /\ product' = [product EXCEPT ![d] = p]

LEMMA IntentsKept ==
    ASSUME \A x \in Decisions : Role(x) = "character" => product'[x] = product[x]
    PROVE  Envelopes' = Envelopes /\ Facts' = Facts
  <1>1. Intents' = Intents
    BY DEF Intents
  <1>2. QED
    BY <1>1 DEF Envelopes, Facts

LEMMA ProductKept ==
    ASSUME TypeInv, PlaceInv, ProductInv, run' = run, NEW r \in Runs, NEW d \in Decisions, NEW f,
           Moves(r, d, f), ProductMoves(r, d, f)
    PROVE  ProductInv'
  <1>1. /\ th'[r][d] = f /\ run \in Runs
        /\ \A e \in Decisions : run # r \/ e # d => th'[run][e] = th[run][e]
    BY MovesOne DEF TypeInv
  <1>2. CASE stage' = 0 /\ product' = [x \in Decisions |-> None]
    <2>1. \A e \in Decisions : ~product'[e].made
      BY <1>2 DEF None
    <2>2. QED
      BY <1>2, <2>1 DEF ProductInv
  <1>3. CASE /\ UNCHANGED <<stage, product>>
             /\ Awaited(r) /\ Role(d) = "character" => f.pc # "done"
             /\ Awaited(r) /\ Role(d) = "resolver" /\ Active(f) => ~Automatic(Envelopes)
    <2>1. Envelopes' = Envelopes /\ Facts' = Facts
      BY <1>3, IntentsKept
    <2>2. ASSUME NEW e \in Decisions, product'[e].made
          PROVE  /\ Lawful(e, product[e].value)' /\ stage' # 0
                 /\ Role(e) # "character" => stage' \in 1..Final /\ e \in Stages[stage']
      BY <1>3, <2>1, <2>2 DEF ProductInv, Lawful
    <2>3. ASSUME NEW e \in Decisions, stage' # 0
          PROVE  /\ Role(e) = "character" /\ th'[run][e].pc = "done" => product'[e].made
                 /\ Role(e) = "resolver" /\ Active(th'[run][e]) => ~Automatic(Envelopes)
      <3>1. CASE run = r /\ e = d
        BY <1>1, <1>3, <2>3, <3>1 DEF Awaited
      <3>2. CASE run # r \/ e # d
        BY <1>1, <1>3, <2>3, <3>2 DEF ProductInv
      <3>3. QED
        BY <3>1, <3>2
    <2>4. QED
      BY <2>1, <2>2, <2>3 DEF ProductInv
  <1>4. ASSUME r = run, stage \in 1..Final, d \in Stages[stage], stage' = stage, f = Done,
               NEW p, Settles(d, p), product' = [product EXCEPT ![d] = p]
        PROVE  ProductInv'
    <2>1. product'[d] = p /\ \A e \in Decisions : e # d => product'[e] = product[e]
      BY <1>4 DEF TypeInv
    <2>2. stage # 0 /\ f.pc = "done" /\ ~Active(f)
      BY <1>4, FreshThreads DEF Active
    <2>3. \A e \in Stages[stage] : Role(e) = Role(d)
      BY <1>4, RolesAssumption
    <2>4. p.made => \E v : p = Made(v) /\ Lawful(d, v)
      BY <1>4 DEF Settles, None
    <2>5. CASE Role(d) = "character"
      <3>1. PICK v : p = Made(v) /\ LawfulAction(v)
        BY <1>4, <2>5 DEF Settles, Lawful
      <3>2. p.made /\ p.value = v
        BY <3>1 DEF Made
      <3>3. ASSUME NEW e \in Decisions, product'[e].made
            PROVE  Role(e) = "character" /\ LawfulAction(product'[e].value)
        <4>1. CASE e = d
          BY <2>1, <2>5, <3>1, <3>2, <4>1
        <4>2. CASE e # d
          <5>1. product[e].made /\ product'[e] = product[e]
            BY <2>1, <3>3, <4>2
          <5>2. Role(e) = "character"
            BY <2>3, <2>5, <5>1 DEF ProductInv
          <5>3. QED
            BY <5>1, <5>2 DEF ProductInv, Lawful
        <4>3. QED
          BY <4>1, <4>2
      <3>4. ASSUME NEW e \in Decisions
            PROVE  /\ Role(e) = "character" /\ th'[run][e].pc = "done" => product'[e].made
                   /\ ~(Role(e) = "resolver" /\ Active(th'[run][e]))
        <4>1. CASE e = d
          BY <2>1, <2>5, <3>2, <4>1
        <4>2. CASE e # d
          BY <1>1, <2>1, <2>2, <2>3, <2>5, <4>2 DEF ProductInv, PlaceInv
        <4>3. QED
          BY <4>1, <4>2
      <3>5. QED
        BY <1>4, <2>2, <3>3, <3>4 DEF ProductInv, Lawful
    <2>6. CASE Role(d) # "character"
      <3>1. Envelopes' = Envelopes /\ Facts' = Facts
        BY <2>1, <2>6, IntentsKept
      <3>2. ASSUME NEW e \in Decisions, product'[e].made
            PROVE  /\ Lawful(e, product[e].value)'
                   /\ Role(e) # "character" => e \in Stages[stage]
        <4>1. CASE e = d
          <5>1. PICK v : p = Made(v) /\ Lawful(d, v)
            BY <2>1, <2>4, <3>2, <4>1
          <5>2. p.value = v
            BY <5>1 DEF Made
          <5>3. QED
            BY <1>4, <2>1, <3>1, <4>1, <5>1, <5>2 DEF Lawful
        <4>2. CASE e # d
          BY <2>1, <3>1, <3>2, <4>2 DEF ProductInv, Lawful
        <4>3. QED
          BY <4>1, <4>2
      <3>3. ASSUME NEW e \in Decisions
            PROVE  /\ Role(e) = "character" /\ th'[run][e].pc = "done" => product'[e].made
                   /\ Role(e) = "resolver" /\ Active(th'[run][e]) => ~Automatic(Envelopes)
        <4>1. CASE e = d
          BY <1>1, <1>4, <2>2, <2>6, <4>1
        <4>2. CASE e # d
          BY <1>1, <2>1, <2>2, <4>2 DEF ProductInv
        <4>3. QED
          BY <4>1, <4>2
      <3>4. QED
        BY <1>4, <2>2, <3>1, <3>2, <3>3 DEF ProductInv
    <2>7. QED
      BY <2>5, <2>6
  <1>5. QED
    BY <1>2, <1>3, <1>4 DEF ProductMoves

Asks(r, d) ==
    OpenRow(r, d) \/ ReplyText(r, d) \/ ReplyFinal(r, d) \/ ReplyBusy(r, d) \/ AskAgain(r, d)
    \/ CloseRow(r, d)

LEMMA AsksOn ==
    ASSUME TypeInv, NEW r \in Runs, NEW d \in Decisions, Asks(r, d)
    PROVE  UNCHANGED <<stage, product, kept>> /\ \E f : Moves(r, d, f) /\ Active(f)
  <1> DEFINE t == th[r][d]
  <1>1. t \in ThreadOf(d) /\ (t.pc = "pause" => t.tries < Attempts) /\ 1 \in 0..Attempts
    BY Constants DEF TypeInv
  <1>2. t.pc = "pause" => t.tries + 1 \in 0..Attempts
    <2>1. t.tries \in 0..Attempts
      BY <1>1 DEF ThreadOf
    <2>2. QED
      BY <1>1, <2>1, Constants
  <1> HIDE DEF t
  <1>3. UNCHANGED <<stage, product, kept>>
    BY DEF Asks, OpenRow, ReplyText, ReplyFinal, ReplyBusy, AskAgain, CloseRow
  <1>4. CASE OpenRow(r, d)
    <2>1. Moves(r, d, Asking(t, 1))
      BY <1>4 DEF OpenRow, Set, Moves, Asking, t
    <2>2. Active(Asking(t, 1))
      BY <1>1, ThreadFields DEF Active
    <2>3. QED
      BY <1>3, <2>1, <2>2
  <1>5. CASE AskAgain(r, d)
    <2>1. Moves(r, d, Asking(t, t.tries + 1)) /\ t.pc = "pause"
      BY <1>5 DEF AskAgain, Set, Moves, Asking, t
    <2>2. Active(Asking(t, t.tries + 1))
      BY <1>1, <1>2, <2>1, ThreadFields DEF Active
    <2>3. QED
      BY <1>3, <2>1, <2>2
  <1>6. CASE CloseRow(r, d)
    <2>1. Moves(r, d, Judging(t))
      BY <1>6 DEF CloseRow, Set, Moves, Judging, t
    <2>2. Active(Judging(t))
      BY <1>1, ThreadFields DEF Active
    <2>3. QED
      BY <1>3, <2>1, <2>2
  <1>7. CASE ReplyText(r, d) \/ ReplyFinal(r, d) \/ ReplyBusy(r, d)
    <2>1. Moves(r, d, Pausing(t))
          \/ \E reply \in {NoReply, Broken} \cup Replies[Role(d)] : Moves(r, d, Answered(t, reply))
      BY <1>7 DEF ReplyText, ReplyFinal, ReplyBusy, Set, Moves, Answered, Pausing, t
    <2>2. Active(Pausing(t))
      BY <1>1, ThreadFields DEF Active
    <2>3. \A reply \in {NoReply, Broken} \cup Replies[Role(d)] : Active(Answered(t, reply))
      BY <1>1, ThreadFields DEF Active
    <2>4. QED
      BY <1>3, <2>1, <2>2, <2>3
  <1>8. QED
    BY <1>4, <1>5, <1>6, <1>7 DEF Asks

LEMMA RaiseProducts ==
    ASSUME NEW r \in Runs, NEW d \in Decisions, Raise(r, d)
    PROVE  \E f : Moves(r, d, f) /\ ProductMoves(r, d, f)
  <1>1. CASE Role(d) \notin Fatal
    <2>1. Moves(r, d, Done) /\ UNCHANGED <<stage, product>>
      BY <1>1 DEF Raise, Moves
    <2>2. Role(d) # "character" /\ Role(d) # "resolver"
      BY <1>1 DEF Fatal
    <2>3. QED
      BY <2>1, <2>2 DEF ProductMoves
  <1>2. CASE Role(d) \in Fatal /\ r = run
    BY <1>2 DEF Raise, Moves, ProductMoves
  <1>3. CASE Role(d) \in Fatal /\ r # run
    BY <1>3 DEF Raise, Moves, ProductMoves, Awaited
  <1>4. QED
    BY <1>1, <1>2, <1>3

LEMMA ConcludeProducts ==
    ASSUME NEW r \in Runs, NEW d \in Decisions, NEW answer, Conclude(r, d, answer), stage' = stage,
           Awaited(r) => stage \in 1..Final /\ d \in Stages[stage] /\ Lawful(d, answer)
    PROVE  \E f : Moves(r, d, f) /\ ProductMoves(r, d, f)
  <1>1. CASE Awaited(r)
    <2>1. Moves(r, d, Done) /\ r = run /\ product' = [product EXCEPT ![d] = Made(answer)]
      BY <1>1 DEF Conclude, Moves, Awaited
    <2>2. Settles(d, Made(answer))
      BY <1>1 DEF Settles
    <2>3. QED
      BY <1>1, <2>1, <2>2 DEF ProductMoves
  <1>2. CASE ~Awaited(r)
    BY <1>2 DEF Conclude, Moves, ProductMoves
  <1>3. QED
    BY <1>1, <1>2

LEMMA StepProducts ==
    ASSUME TypeInv, PlaceInv, ProductInv, NEW r \in Runs, NEW d \in Decisions, Step(r, d)
    PROVE  \E f : Moves(r, d, f) /\ ProductMoves(r, d, f)
  <1>1. Active(th[r][d]) /\ th[r][d] \in ThreadOf(d)
    BY StepMoves DEF TypeInv
  <1>2. Awaited(r) => /\ stage \in 1..Final /\ d \in Stages[stage]
                      /\ Role(d) = "resolver" => ~Automatic(Envelopes)
    BY <1>1 DEF Awaited, PlaceInv, ProductInv
  <1>3. CASE Asks(r, d)
    <2>1. PICK f : Moves(r, d, f) /\ Active(f)
      BY <1>3, AsksOn
    <2>2. UNCHANGED <<stage, product>>
      BY <1>3, AsksOn
    <2>3. QED
      BY <1>2, <2>1, <2>2 DEF ProductMoves, Active
  <1>4. CASE ReplyGarbled(r, d)
    BY <1>4, RaiseProducts DEF ReplyGarbled
  <1>5. CASE Judge(r, d) /\ Repairable(d, th[r][d].reply, th[r][d].n)
    <2>1. Moves(r, d, Opening(th[r][d].n + 1)) /\ UNCHANGED <<stage, product>>
      BY <1>5 DEF Judge, Set, Moves, Opening
    <2>2. Opening(th[r][d].n + 1).pc = "open"
      <3>1. th[r][d].n + 1 \in Nat
        BY <1>1 DEF ThreadOf
      <3>2. QED
        BY <3>1, FreshThreads
    <2>3. QED
      BY <1>2, <2>1, <2>2 DEF ProductMoves
  <1>6. CASE Judge(r, d) /\ ~Repairable(d, th[r][d].reply, th[r][d].n)
    <2> DEFINE reply == th[r][d].reply
    <2>1. reply \in {NoReply, Broken} \cup Replies[Role(d)]
      BY <1>1 DEF ThreadOf
    <2>2. Conclude(r, d, Answer(d, reply)) /\ stage' = stage
      BY <1>6 DEF Judge
    <2>3. Awaited(r) => Lawful(d, Answer(d, reply))
      BY <1>2, <2>1, AnswersAreLawful
    <2> HIDE DEF reply
    <2>4. QED
      BY <1>2, <2>2, <2>3, ConcludeProducts
  <1>7. QED
    BY <1>3, <1>4, <1>5, <1>6 DEF Step, Asks

LEMMA EnterProducts ==
    ASSUME TypeInv, PlaceInv, ProductInv, NEW d \in Decisions, Enter(d)
    PROVE  \E f : Moves(run, d, f) /\ ProductMoves(run, d, f)
  <1>1. stage \in 1..Final /\ d \in Stages[stage] /\ run \in Runs
    BY EnterMoves DEF TypeInv
  <1>2. CASE EnterSilently(d)
    <2>1. Moves(run, d, Done) /\ stage' = stage /\ Unasked(d)
      BY <1>2 DEF EnterSilently, Set, Moves
    <2>2. Role(d) # "character"
      BY <2>1 DEF Unasked, DirectorRests, ReactorRests, ResolverRests, NarratorRests, SummaryRests
    <2>3. Lawful(d, Answer(d, NoReply))
      BY <1>1, AnswersAreLawful
    <2>4. PICK p \in {None, Made(Answer(d, NoReply))} : product' = [product EXCEPT ![d] = p]
      BY <1>2 DEF EnterSilently
    <2>5. Settles(d, p)
      BY <2>2, <2>3, <2>4 DEF Settles
    <2>6. QED
      BY <1>1, <2>1, <2>4, <2>5 DEF ProductMoves
  <1>3. CASE EnterPlayer(d)
    <2>1. PICK a \in PlayerActions :
             \/ Precheck(a) /\ Conclude(run, d, a) /\ stage' = stage
             \/ Raise(run, d)
      BY <1>3 DEF EnterPlayer
    <2>2. Role(d) = "character"
      BY <1>3 DEF EnterPlayer
    <2>3. CASE Precheck(a) /\ Conclude(run, d, a) /\ stage' = stage
      <3>1. Lawful(d, a)
        BY <2>2, <2>3, ActionsLawful DEF Lawful
      <3>2. QED
        BY <1>1, <2>3, <3>1, ConcludeProducts
    <2>4. CASE Raise(run, d)
      BY <1>1, <2>4, RaiseProducts
    <2>5. QED
      BY <2>1, <2>3, <2>4
  <1>4. CASE EnterGraph(d)
    <2> DEFINE f == [Idle EXCEPT !.pc = "open"]
    <2>1. Moves(run, d, f) /\ UNCHANGED <<stage, product>> /\ ~Unasked(d)
      BY <1>4 DEF EnterGraph, Set, Moves
    <2>2. f.pc = "open"
      BY FreshThreads DEF Opened
    <2>3. Role(d) = "resolver" => ~Automatic(Envelopes)
      BY <2>1 DEF Unasked, ResolverRests
    <2> HIDE DEF f
    <2>4. QED
      BY <2>1, <2>2, <2>3 DEF ProductMoves
  <1>5. QED
    BY <1>2, <1>3, <1>4 DEF Enter

LEMMA InitProducts == Init => ProductInv
  <1> SUFFICES ASSUME Init PROVE ProductInv
    OBVIOUS
  <1>1. /\ \A d \in Decisions : ~product[d].made
        /\ \A d \in Decisions : th[run][d].pc = "idle"
    BY Constants, FreshThreads DEF Init, None, Runs
  <1>2. QED
    BY <1>1 DEF ProductInv, Active

LEMMA ProductStep ==
    ASSUME TypeInv, PlaceInv, ProductInv, [Next]_vars
    PROVE  ProductInv'
  <1>1. CASE UNCHANGED vars
    BY <1>1 DEF ProductInv, Lawful, Envelopes, Facts, Intents, vars
  <1>2. CASE Proceed
    <2>1. /\ stage \in 1..Final /\ stage' = stage + 1 /\ UNCHANGED <<run, th>>
          /\ \A d \in Stages[stage] : th[run][d].pc = "done"
          /\ product' = [d \in Decisions |-> IF Role(d) = "character" THEN product[d] ELSE None]
      BY <1>2 DEF Proceed
    <2>2. stage # 0 /\ stage' # 0
      BY <2>1, Constants
    <2>3. \A d \in Decisions : product'[d].made => Role(d) = "character" /\ product'[d] = product[d]
      BY <2>1 DEF None
    <2>4. \A d \in Decisions : ~Active(th'[run'][d])
      BY <2>1, <2>2 DEF PlaceInv, Active
    <2>5. \A d \in Decisions :
             Role(d) = "character" /\ th'[run'][d].pc = "done" => product'[d].made
      BY <2>1, <2>2 DEF ProductInv
    <2>6. QED
      BY <2>2, <2>3, <2>4, <2>5 DEF ProductInv, Lawful
  <1>3. CASE Crash
    <2>1. stage' = 0 /\ product' = [d \in Decisions |-> None]
      BY <1>3 DEF Crash
    <2>2. \A d \in Decisions : ~product'[d].made
      BY <2>1 DEF None
    <2>3. QED
      BY <2>1, <2>2 DEF ProductInv
  <1>4. CASE Retry
    <2>1. stage = 0 /\ run' = run + 1 /\ run < MaxRuns /\ th' = th /\ product' = product
      BY <1>4 DEF Retry
    <2>2. run' \in Runs /\ run' > run
      BY <2>1, Constants DEF TypeInv, Runs
    <2>3. \A d \in Decisions : th'[run'][d].pc = "idle"
      BY <2>1, <2>2 DEF PlaceInv
    <2>4. \A d \in Decisions : ~product'[d].made
      BY <2>1 DEF ProductInv
    <2>5. QED
      BY <2>3, <2>4 DEF ProductInv, Active
  <1>5. ASSUME NEW d \in Decisions, Enter(d) PROVE ProductInv'
    <2>1. PICK f : Moves(run, d, f) /\ ProductMoves(run, d, f)
      BY <1>5, EnterProducts
    <2>2. run' = run /\ run \in Runs
      BY <1>5, EnterMoves DEF TypeInv
    <2>3. QED
      BY <2>1, <2>2, ProductKept
  <1>6. ASSUME NEW r \in Runs, NEW d \in Decisions, Step(r, d) PROVE ProductInv'
    <2>1. PICK f : Moves(r, d, f) /\ ProductMoves(r, d, f)
      BY <1>6, StepProducts
    <2>2. run' = run
      BY <1>6, StepPlaces
    <2>3. QED
      BY <2>1, <2>2, ProductKept
  <1>7. QED
    BY <1>1, <1>2, <1>3, <1>4, <1>5, <1>6 DEF Next

-----------------------------------------------------------------------------
(* What is durable                                                         *)

KeptType == [last : {0, Index}, hooks : 0..MaxHooks, narrated : BOOLEAN, completed : BOOLEAN]

KeptInv == kept \in KeptType /\ over \in BOOLEAN

\* The director opens a hook only while there is room for one.
LEMMA KeepTyped ==
    ASSUME kept \in KeptType, NEW d, NEW reply
    PROVE  Keep(d, Answer(d, reply)) \in KeptType
  <1>1. CASE Role(d) = "director"
    <2> DEFINE A == DirectorAnswer(kept.hooks, reply)
    <2>1. Answer(d, reply) = A
      BY <1>1 DEF Answer
    <2>2. A = {} \/ (A = {reply} /\ kept.hooks < MaxHooks)
      BY DEF DirectorAnswer, ProposalValid
    <2>3. Cardinality(A) = 0 \/ (Cardinality(A) = 1 /\ kept.hooks < MaxHooks)
      BY <2>2, FS_EmptySet, FS_Singleton
    <2> HIDE DEF A
    <2>4. kept.hooks \in 0..MaxHooks /\ MaxHooks \in Nat
      BY JudgementAssumption DEF KeptType
    <2>5. kept.hooks + Cardinality(A) \in 0..MaxHooks
      BY <2>3, <2>4
    <2>6. [kept EXCEPT !.last = Index, !.hooks = @ + Cardinality(A)] \in KeptType
      BY <2>5 DEF KeptType
    <2>7. QED
      BY <1>1, <2>1, <2>6 DEF Keep
  <1>2. CASE Role(d) = "narrator"
    <2>1. [kept EXCEPT !.narrated = TRUE] \in KeptType
      BY DEF KeptType
    <2>2. QED
      BY <1>2, <2>1 DEF Keep
  <1>3. CASE Role(d) \notin {"director", "narrator"}
    BY <1>3 DEF Keep
  <1>4. QED
    BY <1>1, <1>2, <1>3

LEMMA InitKept == Init => KeptInv
  <1>1. 0 \in 0..MaxHooks
    BY JudgementAssumption
  <1>2. [last |-> 0, hooks |-> 0, narrated |-> FALSE, completed |-> FALSE] \in KeptType
    BY <1>1 DEF KeptType
  <1>3. QED
    BY <1>2 DEF Init, KeptInv

LEMMA KeptStep ==
    ASSUME KeptInv, [Next]_vars
    PROVE  KeptInv'
  <1> USE DEF KeptInv
  <1>1. CASE UNCHANGED vars
    BY <1>1 DEF vars
  <1>2. CASE Proceed
    <2>1. over' \in BOOLEAN
      <3>1. OverBudget \in BOOLEAN
        BY DEF OverBudget
      <3>2. over' = OverBudget \/ over' = over
        BY <1>2 DEF Proceed
      <3>3. QED
        BY <3>1, <3>2
    <2>2. PICK b \in BOOLEAN : kept' = [kept EXCEPT !.completed = b]
      <3>1. (kept.completed \/ RoleOf(stage) = {"narrator"}) \in BOOLEAN
        OBVIOUS
      <3>2. kept' = [kept EXCEPT !.completed = kept.completed \/ RoleOf(stage) = {"narrator"}]
        BY <1>2 DEF Proceed
      <3>3. QED
        BY <3>1, <3>2
    <2>3. QED
      BY <2>1, <2>2 DEF KeptType
  <1>3. CASE Crash
    BY <1>3 DEF Crash
  <1>4. CASE Retry
    BY <1>4 DEF Retry
  <1>5. ASSUME NEW d \in Decisions, Enter(d) PROVE KeptInv'
    <2>1. over' = over
      BY <1>5 DEF Enter
    <2>2. CASE EnterSilently(d)
      <3>1. kept' = kept \/ kept' = [kept EXCEPT !.narrated = TRUE]
        BY <2>2 DEF EnterSilently
      <3>2. QED
        BY <2>1, <3>1 DEF KeptType
    <2>3. CASE EnterPlayer(d)
      BY <2>1, <2>3 DEF EnterPlayer, Conclude, Keep
    <2>4. CASE EnterGraph(d)
      BY <2>1, <2>4 DEF EnterGraph
    <2>5. QED
      BY <1>5, <2>2, <2>3, <2>4 DEF Enter
  <1>6. ASSUME NEW r \in Runs, NEW d \in Decisions, Step(r, d) PROVE KeptInv'
    <2>1. over' = over
      BY <1>6 DEF Step, OpenRow, ReplyText, ReplyFinal, ReplyBusy, ReplyGarbled, AskAgain, CloseRow, Judge
    <2>2. kept' = kept \/ kept' = Keep(d, Answer(d, th[r][d].reply))
      BY <1>6 DEF Step, OpenRow, ReplyText, ReplyFinal, ReplyBusy, ReplyGarbled, AskAgain, CloseRow,
         Judge, Conclude
    <2>3. QED
      BY <2>1, <2>2, KeepTyped
  <1>7. QED
    BY <1>1, <1>2, <1>3, <1>4, <1>5, <1>6 DEF Next

\* The variables of the decisions keep their types: threads within their retries,
\* audit rows, what a call has made, and what is durable, the director's hooks
\* within their number included (graphs/director.py, stage1.py _director_phase).
THEOREM DeliberationTypeCorrect == Spec => []TypeOK
  <1>1. TypeInv /\ KeptInv => TypeOK
    <2> SUFFICES ASSUME TypeInv, KeptInv PROVE TypeOK
      OBVIOUS
    <2>1. \A r \in Runs, d \in Decisions : th[r][d] \in Thread
      BY DEF TypeInv, ThreadOf, Thread
    <2>2. rows.open \subseteq Runs \X Decisions \X Nat /\ rows.past \in 0..MaxCalls
      BY DEF TypeInv
    <2>3. DOMAIN product = Decisions
      BY DEF TypeInv
    <2>4. kept.last \in {0, Index} /\ kept.hooks \in Nat /\ {kept.narrated, kept.completed} \subseteq BOOLEAN
      BY JudgementAssumption DEF KeptInv, KeptType
    <2>5. run \in Runs /\ stage \in 0..(Final + 1) /\ over \in BOOLEAN
      BY DEF TypeInv, KeptInv
    <2>6. QED
      BY <2>1, <2>2, <2>3, <2>4, <2>5 DEF TypeOK
  <1>2. KeptInv /\ [Next]_vars => KeptInv'
    BY KeptStep
  <1>3. QED
    BY <1>1, <1>2, InitKept, Typed, PTL DEF Spec

\* What the phase builds on is what the rules allow, whatever a provider says
\* (application/graphs and the pure rules they call): for any stages, replies and
\* budgets, while threads of abandoned calls answer late, and although envelopes and
\* facts are read when a decision is begun and used again when its answer is judged.
THEOREM AnswersLawfulHolds == Spec => []AnswersLawful
  <1>1. ProductInv /\ KeptInv => AnswersLawful
    <2> SUFFICES ASSUME ProductInv, KeptInv PROVE AnswersLawful
      OBVIOUS
    <2>1. kept.hooks <= MaxHooks
      BY JudgementAssumption DEF KeptInv, KeptType
    <2>2. ASSUME NEW d \in Decisions, product[d].made PROVE Lawful(d, product[d].value)
      BY <2>2 DEF ProductInv
    <2>3. QED
      BY <2>1, <2>2 DEF AnswersLawful, Lawful, LawfulAction, Bounded, Beats
  <1>2. TypeInv /\ PlaceInv /\ ProductInv /\ [Next]_vars => ProductInv'
    BY ProductStep
  <1>3. KeptInv /\ [Next]_vars => KeptInv'
    BY KeptStep
  <1>4. QED
    BY <1>1, <1>2, <1>3, InitProducts, InitKept, Placed, PTL DEF Spec
=============================================================================
