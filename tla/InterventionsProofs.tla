------------------------- MODULE InterventionsProofs -------------------------
(***************************************************************************)
(* Proofs about the intervention queue, for any number of items, actors,   *)
(* calls, plans and disturbances:                                          *)
(*   RowsInv     steps exist before anything happens to them.              *)
(*   CallInv     what a call has read of its batch is what the rows were,  *)
(*               and a row that has moved since has a later version.       *)
(*   SerialInv   while requests come one after the other, a step that is   *)
(*               still to be tried has had no effect, or one that trying   *)
(*               it again will find.                                       *)
(***************************************************************************)
EXTENDS Interventions, FiniteSetTheorems, SequenceTheorems, WellFoundedInduction, TLAPS

HasRow(s) == s[2] \in DOMAIN row[s[1]]
Of(s) == row[s[1]][s[2]]
Repeats(s) == Repeatable(s[1], s[2])

RowsInv ==
    /\ \A i \in Items : item[i] = "absent" => row[i] = <<>>
    /\ \A i \in Items : item[i] \in {"queued", "executing"} => row[i] # <<>>
    /\ \A s \in called : HasRow(s)
    /\ \A s \in Steps : ~HasRow(s) => applied[s] = 0

\* A call has read its batch; is at one of its items; has one step in hand.
Reading == {"read", "step", "start", "started", "create", "mark", "finish"}
AtItem == {"step", "start", "started", "create", "mark", "finish"}
InHand == {"start", "started", "create", "mark"}

SameStep(r, q) == r.kind = q.kind /\ r.actor = q.actor /\ r.to = q.to

\* A row as it was read, and as it is.
Follows(r, q) == SameStep(r, q) /\ r.version <= q.version /\ (r.version = q.version => r = q)

Verdict(i, mark) ==
    /\ mark \in {"executing", "completed", "partially_completed", "failed"}
    /\ \A k \in DOMAIN row[i] :
          /\ mark # "executing" => row[i][k].status # "queued"
          /\ mark = "completed" => row[i][k].status = "completed"
          /\ mark = "failed" => row[i][k].status # "completed"

\* An item that a call may have claimed.
Taken(i) == item[i] \notin {"absent", "queued", "needs_clarification"}

BatchInv(p) ==
    /\ call[p].pc \in {"idle", "claim"} => call[p].batch = {} /\ call[p].directed = {}
    /\ call[p].pc = "phase" => call[p].todo = {}
    /\ call[p].todo \subseteq call[p].batch
    /\ \A i \in call[p].batch : Taken(i) /\ row[i] # <<>>
    /\ \A s \in call[p].directed : s[1] \in call[p].batch /\ HasRow(s)
    /\ call[p].pc \in Reading =>
          \A i \in call[p].batch :
             /\ DOMAIN call[p].rows[i] = DOMAIN row[i]
             /\ \A k \in DOMAIN row[i] : Follows(call[p].rows[i][k], row[i][k])
    /\ call[p].pc \in AtItem => call[p].item \in call[p].batch \ call[p].todo

HandInv(p) ==
    /\ call[p].pc \in InHand => HasRow(Here(p)) /\ Mine(p).status = "queued"
    /\ call[p].pc = "mark" =>
          /\ call[p].mark \in {"completed", "failed"}
          /\ call[p].version <= Of(Here(p)).version
          /\ call[p].version = Of(Here(p)).version =>
                \/ Of(Here(p)).status = "queued"
                \/ Of(Here(p)).status = "completed" /\ call[p].mark = "completed"
    /\ call[p].pc = "finish" => Verdict(call[p].item, call[p].mark)

CallInv(p) == BatchInv(p) /\ HandInv(p)

-----------------------------------------------------------------------------
\* Trying the step now would not be its second effect.
Untaken(s) ==
    /\ Repeats(s) => applied[s] <= disturbances
    /\ Of(s).kind = "attempt" => applied[s] = 0
    /\ Of(s).kind = "travel" /\ ~Repeats(s) =>
          applied[s] = 0 \/ SameActivity(Of(s).actor, Of(s).to)

Tally(s) ==
    /\ applied[s] <= 1 + (IF Repeats(s) THEN disturbances ELSE 0)
    /\ Of(s).kind \in {"hook", "condition"} => applied[s] = IF s \in called THEN 1 ELSE 0
    /\ Of(s).status = "failed" /\ ~Repeats(s) => applied[s] = 0

\* The steps a call has not come to yet.
Ahead(p, s) ==
    /\ HasRow(s)
    /\ \/ s[1] \in call[p].todo
       \/ call[p].pc \in AtItem \ {"finish"} /\ s[1] = call[p].item /\ s[2] > call[p].slot

Hand(p, s) == call[p].pc \in InHand /\ s = Here(p)
ReadAs(p, s) == call[p].rows[s[1]][s[2]]

\* What is ahead is as it was read or cancelled, and can be tried.
AheadFacts(p, s) ==
    Ahead(p, s) =>
        /\ Of(s) = ReadAs(p, s) \/ Of(s).status = "cancelled"
        /\ ReadAs(p, s).status = "queued" => Untaken(s)

\* What is neither ahead nor in hand can be tried by a later call, even when
\* the phase has brought activities to their end.
LeftFacts(p, s) ==
    HasRow(s) /\ Of(s).status = "queued" /\ ~Ahead(p, s) /\ ~Hand(p, s) =>
        Untaken(s) /\ (Of(s).kind = "travel" /\ ~Repeats(s) => applied[s] = 0)

\* An attempt kept for the phase has been settled, or is being marked.
DirectedFacts(p, s) ==
    s \in call[p].directed =>
        /\ Of(s).kind = "attempt" /\ applied[s] = 0 /\ ~Ahead(p, s)
        /\ Of(s).status \in {"completed", "cancelled"} \/ Hand(p, s)
        /\ Hand(p, s) => call[p].pc = "mark" /\ call[p].mark = "completed"

HandFacts(p, s) ==
    Hand(p, s) =>
        /\ call[p].pc # "mark" => Of(s) = ReadAs(p, s) \/ Of(s).status = "cancelled"
        /\ call[p].pc = "start" =>
              Of(s).kind = "travel" /\ Untaken(s) /\ (~Repeats(s) => applied[s] = 0)
        /\ call[p].pc = "started" =>
              Of(s).kind = "travel" /\ (~Repeats(s) => SameActivity(Of(s).actor, Of(s).to))
        /\ call[p].pc = "create" => Of(s).kind = "condition" /\ ~Exists("condition")
        /\ call[p].pc = "mark" =>
              /\ Of(s).status \in {"queued", "completed", "cancelled"}
              /\ Of(s).status = "queued" => call[p].version = Of(s).version
              /\ Of(s).status = "completed" => call[p].mark = "completed"
              /\ Of(s).status = "queued" /\ Of(s).kind = "travel" => call[p].mark = "failed"
              /\ call[p].mark = "failed" => Untaken(s) /\ (~Repeats(s) => applied[s] = 0)
              /\ Of(s).kind = "attempt" => applied[s] = 0

Facts(p, s) == AheadFacts(p, s) /\ LeftFacts(p, s) /\ DirectedFacts(p, s) /\ HandFacts(p, s)

PastClaim(p) == call[p].pc \notin {"idle", "claim"}

SerialInv ==
    ~overlapped =>
        /\ \A p, q \in InProgress : p = q
        /\ \A s \in Steps : HasRow(s) => Tally(s)
        /\ (\A p \in Calls : ~PastClaim(p)) =>
              \A s \in Steps : HasRow(s) /\ Of(s).status = "queued" => Untaken(s)
        /\ \A p \in Calls : PastClaim(p) => \A s \in Steps : Facts(p, s)

-----------------------------------------------------------------------------
(* Numbers, sequences and rows                                             *)

LEMMA NatMin ==
    ASSUME NEW S, S \subseteq Nat, S # {}
    PROVE  Min(S) \in S /\ \A k \in S : Min(S) <= k
  <1>1. \E x \in S : \A y \in S : ~(<<y, x>> \in OpToRel(<, Nat))
    BY NatLessThanWellFounded, WFMin, Zenon
  <1>2. \A x \in Nat, y \in Nat : y < x => <<y, x>> \in OpToRel(<, Nat)
    BY Zenon DEF OpToRel
  <1>3. \E x \in S : \A y \in S : ~(y < x)
    BY <1>1, <1>2, Zenon
  <1>4. \E x \in S : \A y \in S : x <= y
    BY <1>3
  <1>5. QED
    BY <1>4 DEF Min

LEMMA SteppedType ==
    ASSUME NEW r \in StepRow, NEW status \in StepStatus
    PROVE  /\ Stepped(r, status) \in StepRow /\ SameStep(r, Stepped(r, status))
           /\ Stepped(r, status).status = status /\ Stepped(r, status).version = r.version + 1
  <1>1. r.version + 1 \in Nat
    BY DEF StepRow
  <1>2. Stepped(r, status) \in StepRow
    BY <1>1 DEF Stepped, StepRow
  <1>3. SameStep(r, Stepped(r, status)) /\ Stepped(r, status).status = status
    BY DEF Stepped, StepRow, SameStep
  <1>4. Stepped(r, status).version = r.version + 1
    BY DEF Stepped, StepRow
  <1>5. QED
    BY <1>2, <1>3, <1>4

\* The rows of an item.
LEMMA RowFacts ==
    ASSUME TypeOK, NEW i \in Items
    PROVE  /\ row[i] \in Seq(StepRow) /\ Len(row[i]) \in Nat /\ Len(row[i]) <= MaxSteps
           /\ DOMAIN row[i] = 1..Len(row[i]) /\ DOMAIN row[i] \subseteq 1..MaxSteps
           /\ \A k \in DOMAIN row[i] : row[i][k] \in StepRow /\ <<i, k>> \in Steps
           /\ row[i] = <<>> <=> DOMAIN row[i] = {}
  <1>1. row[i] \in Seq(StepRow) /\ Len(row[i]) <= MaxSteps
    BY DEF TypeOK
  <1>2. Len(row[i]) \in Nat /\ DOMAIN row[i] = 1..Len(row[i])
    BY <1>1, LenProperties
  <1>3. \A k \in DOMAIN row[i] : row[i][k] \in StepRow
    BY <1>1, <1>2, ElementOfSeq
  <1>4. DOMAIN row[i] \subseteq 1..MaxSteps
    BY <1>1, <1>2, InterventionsAssumption
  <1>5. row[i] = <<>> <=> DOMAIN row[i] = {}
    <2>1. CASE row[i] = <<>>
      BY <2>1
    <2>2. CASE row[i] # <<>>
      <3>1. Len(row[i]) # 0
        BY <1>1, <2>2, EmptySeq
      <3>2. 1 \in DOMAIN row[i]
        BY <1>2, <3>1
      <3>3. QED
        BY <2>2, <3>2
    <2>3. QED
      BY <2>1, <2>2
  <1>6. QED
    BY <1>1, <1>2, <1>3, <1>4, <1>5 DEF Steps

LEMMA QueuedType ==
    ASSUME NEW plan \in Plans
    PROVE  /\ Queued(plan) \in Seq(StepRow) /\ Len(Queued(plan)) \in 1..MaxSteps
           /\ DOMAIN Queued(plan) # {}
           /\ \A k \in DOMAIN Queued(plan) : Queued(plan)[k].status = "queued"
  <1> DEFINE e(k) == [kind |-> plan[k].kind, actor |-> plan[k].actor, to |-> plan[k].to,
                      status |-> "queued", version |-> 0]
  <1>1. plan \in Seq([kind : Kinds, actor : Actors, to : Places]) /\ Len(plan) \in 1..MaxSteps
    BY InterventionsAssumption
  <1>2. DOMAIN plan = 1..Len(plan) /\ Len(plan) \in Nat
    BY <1>1, LenProperties
  <1>3. ASSUME NEW k \in 1..Len(plan)
        PROVE  e(k) \in StepRow
    <2>1. plan[k] \in [kind : Kinds, actor : Actors, to : Places]
      BY <1>1, <1>2, ElementOfSeq
    <2>2. plan[k].kind \in Kinds /\ plan[k].actor \in Actors /\ plan[k].to \in Places
      BY <2>1
    <2>3. QED
      BY <2>2 DEF StepRow, StepStatus
  <1>4. Queued(plan) = [k \in 1..Len(plan) |-> e(k)]
    BY <1>2 DEF Queued
  <1>5. \A k \in 1..Len(plan) : e(k).status = "queued"
    OBVIOUS
  <1> HIDE DEF e
  <1>6. [k \in 1..Len(plan) |-> e(k)] \in Seq(StepRow)
    BY <1>2, <1>3, IsASeq
  <1>7. Queued(plan) \in Seq(StepRow) /\ DOMAIN Queued(plan) = 1..Len(plan)
    BY <1>4, <1>6
  <1>8. Len(Queued(plan)) = Len(plan)
    BY <1>2, <1>7, LenProperties
  <1>9. DOMAIN Queued(plan) # {}
    BY <1>1, <1>7, InterventionsAssumption
  <1>10. \A k \in DOMAIN Queued(plan) : Queued(plan)[k].status = "queued"
    BY <1>4, <1>5
  <1>11. QED
    BY <1>1, <1>7, <1>8, <1>9, <1>10

\* Saving a step touches that step and its status and version.
LEMMA SaveStepIs ==
    ASSUME TypeOK, NEW s \in Steps, HasRow(s), NEW status \in StepStatus, SaveStep(s, status)
    PROVE  /\ row' \in [Items -> Seq(StepRow)] /\ \A i \in Items : Len(row'[i]) <= MaxSteps
           /\ \A i \in Items : DOMAIN row'[i] = DOMAIN row[i]
           /\ Of(s)' = Stepped(Of(s), status)
           /\ \A i \in Items : \A k \in DOMAIN row[i] :
                 <<i, k>> # s => row'[i][k] = row[i][k]
           /\ \A i \in Items : i # s[1] => row'[i] = row[i]
  <1> DEFINE i == s[1]
             k == s[2]
             r == Stepped(row[i][k], status)
             new == [row[i] EXCEPT ![k] = r]
  <1>1. i \in Items /\ s = <<i, k>> /\ k \in DOMAIN row[i]
    BY DEF Steps, HasRow
  <1>2. row[i] \in Seq(StepRow) /\ k \in 1..Len(row[i]) /\ row[i][k] \in StepRow
    BY <1>1, RowFacts
  <1>3. r \in StepRow
    BY <1>2, SteppedType
  <1>4. row' = [row EXCEPT ![i] = new]
    BY DEF SaveStep
  <1> HIDE DEF r
  <1>5. /\ new \in Seq(StepRow) /\ Len(new) = Len(row[i])
        /\ \A j \in 1..Len(row[i]) : new[j] = IF j = k THEN r ELSE row[i][j]
    BY <1>2, <1>3, ExceptSeq
  <1>6. DOMAIN new = DOMAIN row[i] /\ DOMAIN row[i] = 1..Len(row[i])
    BY <1>1, RowFacts
  <1> HIDE DEF new
  <1>7. row'[i] = new /\ \A j \in Items : j # i => row'[j] = row[j]
    BY <1>1, <1>4 DEF TypeOK
  <1>8. row' \in [Items -> Seq(StepRow)] /\ \A j \in Items : Len(row'[j]) <= MaxSteps
    BY <1>1, <1>4, <1>5 DEF TypeOK
  <1>9. \A j \in Items : DOMAIN row'[j] = DOMAIN row[j]
    BY <1>6, <1>7
  <1>10. row'[i][k] = r /\ \A j \in DOMAIN row[i] : j # k => row'[i][j] = row[i][j]
    BY <1>2, <1>5, <1>6, <1>7
  <1>11. \A j \in Items : \A m \in DOMAIN row[j] : <<j, m>> # s => row'[j][m] = row[j][m]
    <2> SUFFICES ASSUME NEW j \in Items, NEW m \in DOMAIN row[j], <<j, m>> # s
                 PROVE  row'[j][m] = row[j][m]
      OBVIOUS
    <2>1. CASE j = i
      <3>1. m # k
        BY <1>1, <2>1
      <3>2. QED
        BY <1>10, <2>1, <3>1
    <2>2. CASE j # i
      BY <1>7, <2>2
    <2>3. QED
      BY <2>1, <2>2
  <1>12. Of(s)' = r
    BY <1>10 DEF Of
  <1>13. QED
    BY <1>7, <1>8, <1>9, <1>11, <1>12 DEF Of, r

-----------------------------------------------------------------------------
(* The call                                                                *)

LEMMA CallTypes ==
    ASSUME TypeOK, NEW p \in Calls
    PROVE  /\ call \in [Calls -> Call] /\ call[p] \in Call
           /\ call[p].todo \subseteq Items /\ call[p].batch \subseteq Items
           /\ call[p].rows \in [Items -> Seq(StepRow)] /\ call[p].busy \subseteq Actors
           /\ call[p].item \in Nat /\ call[p].slot \in 0..MaxSteps /\ call[p].version \in Nat
           /\ call[p].mark \in ItemStatus /\ call[p].directed \subseteq Steps
           /\ call[p].pc \in Pcs /\ call[p].request \in {"next", "other"}
  <1>1. call \in [Calls -> Call] /\ call[p] \in Call
    BY DEF TypeOK
  <1>2. QED
    BY <1>1 DEF Call

LEMMA Becomes ==
    ASSUME TypeOK, NEW p \in Calls, NEW c \in Call, call' = [call EXCEPT ![p] = c]
    PROVE  call' \in [Calls -> Call] /\ call'[p] = c /\ \A q \in Calls : q # p => call'[q] = call[q]
  BY DEF TypeOK

LEMMA IdleType == Idle \in Call
  <1>1. NoRows \in [Items -> Seq(StepRow)]
    <2>1. <<>> \in Seq(StepRow)
      BY EmptySeq
    <2>2. QED
      BY <2>1 DEF NoRows
  <1>2. 0 \in 0..MaxSteps
    BY InterventionsAssumption
  <1>3. QED
    BY <1>1, <1>2 DEF Idle, Call, Pcs, ItemStatus

\* What a step in which call p goes on leaves of it.
KeepsBatch(p) ==
    /\ call'[p].todo = call[p].todo /\ call'[p].batch = call[p].batch
    /\ call'[p].rows = call[p].rows /\ call'[p].busy = call[p].busy
    /\ call'[p].item = call[p].item /\ call'[p].request = call[p].request

Others(p) == \A q \in Calls : q # p => call'[q] = call[q]

LEMMA Marked ==
    ASSUME TypeOK, NEW p \in Calls, NEW slot \in 0..MaxSteps, NEW version \in Nat,
           NEW mark \in ItemStatus, Marking(p, slot, version, mark)
    PROVE  /\ call' \in [Calls -> Call] /\ KeepsBatch(p) /\ Others(p)
           /\ call'[p].pc = "mark" /\ call'[p].slot = slot /\ call'[p].version = version
           /\ call'[p].mark = mark /\ call'[p].directed = call[p].directed
  <1> DEFINE c == [call[p] EXCEPT !.pc = "mark", !.slot = slot, !.version = version, !.mark = mark]
  <1>1. call \in [Calls -> Call] /\ call[p] \in Call
    BY CallTypes
  <1>2. call' = [call EXCEPT ![p] = c]
    BY <1>1 DEF Marking
  <1>3. c \in Call
    BY <1>1 DEF Call, Pcs
  <1>4. /\ c.pc = "mark" /\ c.slot = slot /\ c.version = version /\ c.mark = mark
        /\ c.todo = call[p].todo /\ c.batch = call[p].batch /\ c.rows = call[p].rows
        /\ c.busy = call[p].busy /\ c.item = call[p].item /\ c.request = call[p].request
        /\ c.directed = call[p].directed
    BY <1>1 DEF Call
  <1> HIDE DEF c
  <1>5. call' \in [Calls -> Call] /\ call'[p] = c /\ Others(p)
    BY <1>2, <1>3, Becomes DEF Others
  <1>6. QED
    BY <1>4, <1>5 DEF KeepsBatch

LEMMA SteppedTo ==
    ASSUME TypeOK, NEW p \in Calls, NEW pc \in Pcs, Min(Due(p)) \in 0..MaxSteps, ToStep(p, pc)
    PROVE  /\ call' \in [Calls -> Call] /\ KeepsBatch(p) /\ Others(p)
           /\ call'[p].pc = pc /\ call'[p].slot = Min(Due(p)) /\ call'[p].version = call[p].version
           /\ call'[p].mark = call[p].mark /\ call'[p].directed = call[p].directed
  <1> DEFINE slot == Min(Due(p))
             c == [call[p] EXCEPT !.pc = pc, !.slot = slot]
  <1>1. call \in [Calls -> Call] /\ call[p] \in Call
    BY CallTypes
  <1>2. call' = [call EXCEPT ![p] = c]
    BY <1>1 DEF ToStep
  <1> HIDE DEF slot
  <1>3. c \in Call
    BY <1>1 DEF Call, slot
  <1>4. /\ c.pc = pc /\ c.slot = slot /\ c.version = call[p].version /\ c.mark = call[p].mark
        /\ c.todo = call[p].todo /\ c.batch = call[p].batch /\ c.rows = call[p].rows
        /\ c.busy = call[p].busy /\ c.item = call[p].item /\ c.request = call[p].request
        /\ c.directed = call[p].directed
    BY <1>1 DEF Call
  <1> HIDE DEF c
  <1>5. call' \in [Calls -> Call] /\ call'[p] = c /\ Others(p)
    BY <1>2, <1>3, Becomes DEF Others
  <1>6. QED
    BY <1>4, <1>5 DEF KeepsBatch, slot

LEMMA WentTo ==
    ASSUME TypeOK, NEW p \in Calls, NEW pc \in Pcs, Goto(p, pc)
    PROVE  /\ call' \in [Calls -> Call] /\ KeepsBatch(p) /\ Others(p)
           /\ call'[p].pc = pc /\ call'[p].slot = call[p].slot
           /\ call'[p].version = call[p].version
           /\ call'[p].mark = call[p].mark /\ call'[p].directed = call[p].directed
  <1> DEFINE c == [call[p] EXCEPT !.pc = pc]
  <1>1. call \in [Calls -> Call] /\ call[p] \in Call
    BY CallTypes
  <1>2. call' = [call EXCEPT ![p] = c]
    BY <1>1 DEF Goto
  <1>3. c \in Call
    BY <1>1 DEF Call
  <1>4. /\ c.pc = pc /\ c.slot = call[p].slot /\ c.version = call[p].version
        /\ c.mark = call[p].mark
        /\ c.todo = call[p].todo /\ c.batch = call[p].batch /\ c.rows = call[p].rows
        /\ c.busy = call[p].busy /\ c.item = call[p].item /\ c.request = call[p].request
        /\ c.directed = call[p].directed
    BY <1>1 DEF Call
  <1> HIDE DEF c
  <1>5. call' \in [Calls -> Call] /\ call'[p] = c /\ Others(p)
    BY <1>2, <1>3, Becomes DEF Others
  <1>6. QED
    BY <1>4, <1>5 DEF KeepsBatch

LEMMA Ended ==
    ASSUME TypeOK, NEW p \in Calls, Ends(p)
    PROVE  /\ call' \in [Calls -> Call] /\ Others(p)
           /\ call'[p].pc = "idle" /\ call'[p].todo = {} /\ call'[p].batch = {}
           /\ call'[p].directed = {}
  <1>1. call' \in [Calls -> Call] /\ call'[p] = Idle /\ Others(p)
    BY IdleType, Becomes DEF Ends, Others
  <1>2. QED
    BY <1>1 DEF Idle

LEMMA WentOnward ==
    ASSUME TypeOK, NEW p \in Calls, NEW c \in Call, call' = [call EXCEPT ![p] = Onward(c)]
    PROVE  /\ call' \in [Calls -> Call] /\ Others(p)
           /\ call'[p].batch = c.batch /\ call'[p].directed = c.directed
           /\ c.todo = {} => call'[p].pc = "phase" /\ call'[p].todo = {}
           /\ c.todo # {} =>
                 /\ call'[p].pc = "step" /\ call'[p].item \in c.todo
                 /\ call'[p].todo = c.todo \ {call'[p].item}
                 /\ call'[p].slot = 0 /\ call'[p].rows = c.rows /\ call'[p].busy = c.busy
  <1> DEFINE n == Onward(c)
  <1>1. n \in Call /\ n.batch = c.batch /\ n.directed = c.directed
        /\ (c.todo = {} => n.pc = "phase" /\ n.todo = {})
        /\ (c.todo # {} => n.pc = "step" /\ n.item \in c.todo /\ n.todo = c.todo \ {n.item}
                           /\ n.slot = 0 /\ n.rows = c.rows /\ n.busy = c.busy)
    <2>1. CASE c.todo = {}
      <3>1. n = [Idle EXCEPT !.pc = "phase", !.request = c.request, !.batch = c.batch,
                             !.directed = c.directed]
        BY <2>1 DEF Onward
      <3>2. n \in Call
        <4>1. Idle \in Call
          BY IdleType
        <4>2. c.request \in {"next", "other"} /\ c.batch \subseteq Items /\ c.directed \subseteq Steps
          BY DEF Call
        <4> HIDE DEF n
        <4>3. QED
          BY <3>1, <4>1, <4>2 DEF Call, Pcs
      <3>3. n.pc = "phase" /\ n.todo = {} /\ n.batch = c.batch /\ n.directed = c.directed
        BY <3>1 DEF Idle
      <3>4. QED
        BY <2>1, <3>2, <3>3
    <2>2. CASE c.todo # {}
      <3> DEFINE i == Min(c.todo)
      <3>1. c.todo \subseteq Items /\ c.todo \subseteq Nat
        BY InterventionsAssumption DEF Call
      <3>2. i \in c.todo /\ i \in Nat
        BY <2>2, <3>1, NatMin
      <3> HIDE DEF i
      <3>3. n = [c EXCEPT !.pc = "step", !.item = i, !.slot = 0, !.todo = c.todo \ {i},
                          !.mark = "queued"]
        BY <2>2 DEF Onward, i, Call
      <3>4. 0 \in 0..MaxSteps
        BY InterventionsAssumption
      <3> HIDE DEF n
      <3>5. n \in Call
        BY <3>1, <3>2, <3>3, <3>4 DEF Call, Pcs, ItemStatus
      <3>6. n.pc = "step" /\ n.item = i /\ n.slot = 0 /\ n.todo = c.todo \ {i}
        BY <3>3 DEF Call
      <3>7. n.batch = c.batch /\ n.directed = c.directed /\ n.rows = c.rows /\ n.busy = c.busy
        BY <3>3 DEF Call
      <3>8. QED
        BY <2>2, <3>2, <3>5, <3>6, <3>7
    <2>3. QED
      BY <2>1, <2>2
  <1>2. call' = [call EXCEPT ![p] = n]
    OBVIOUS
  <1> HIDE DEF n
  <1>3. call' \in [Calls -> Call] /\ call'[p] = n /\ Others(p)
    BY <1>1, <1>2, Becomes DEF Others
  <1>4. QED
    BY <1>1, <1>3

\* The step a call tries next.
LEMMA NextDue ==
    ASSUME TypeOK, NEW p \in Calls, CallInv(p), call[p].pc = "step", Due(p) # {}
    PROVE  /\ Id(p) \in Steps /\ HasRow(Id(p))
           /\ Id(p)[1] = call[p].item /\ Id(p)[2] = Min(Due(p)) /\ Id(p)[2] > call[p].slot
           /\ Id(p)[1] \in call[p].batch /\ Id(p)[1] \in Items /\ Id(p)[2] \in 1..MaxSteps
           /\ Tried(p) \in StepRow /\ Tried(p).status = "queued" /\ Tried(p) = ReadAs(p, Id(p))
           /\ Follows(Tried(p), Of(Id(p)))
           /\ Id(p)[2] \in Due(p) /\ \A k \in Due(p) : Id(p)[2] <= k
  <1> DEFINE i == call[p].item
             k == Min(Due(p))
  <1>1. i \in call[p].batch /\ i \in Items
    BY CallTypes DEF CallInv, BatchInv, AtItem
  <1>2. call[p].rows[i] \in Seq(StepRow)
    BY <1>1, CallTypes
  <1>3. DOMAIN call[p].rows[i] = DOMAIN row[i] /\ DOMAIN row[i] \subseteq 1..MaxSteps
        /\ \A j \in DOMAIN row[i] : <<i, j>> \in Steps /\ Follows(call[p].rows[i][j], row[i][j])
    BY <1>1, RowFacts DEF CallInv, BatchInv, Reading
  <1>4. Due(p) \subseteq DOMAIN row[i] /\ Due(p) \subseteq Nat
    BY <1>3 DEF Due, Read
  <1>5. k \in Due(p) /\ \A j \in Due(p) : k <= j
    BY <1>4, NatMin
  <1> HIDE DEF k
  <1>6. Id(p) = <<i, k>>
    BY DEF Id, k
  <1>7. k > call[p].slot /\ call[p].rows[i][k].status = "queued"
    BY <1>5 DEF Due, Read
  <1>8. Tried(p) = call[p].rows[i][k] /\ Tried(p) = ReadAs(p, Id(p))
    BY <1>6 DEF Tried, Read, ReadAs, k
  <1>9. Tried(p) \in StepRow
    <2>1. k \in DOMAIN call[p].rows[i]
      BY <1>3, <1>4, <1>5
    <2>2. call[p].rows[i][k] \in StepRow
      BY <1>2, <2>1, ElementOfSeq, LenProperties
    <2>3. QED
      BY <1>8, <2>2
  <1>10. k \in DOMAIN row[i] /\ k \in 1..MaxSteps /\ <<i, k>> \in Steps
         /\ Follows(Tried(p), row[i][k])
    BY <1>3, <1>4, <1>5, <1>8
  <1>11. Id(p)[1] = i /\ Id(p)[2] = k /\ HasRow(Id(p)) /\ Of(Id(p)) = row[i][k]
    BY <1>6, <1>10 DEF HasRow, Of
  <1>12. Tried(p).status = "queued" /\ Id(p) \in Steps
    BY <1>6, <1>7, <1>8, <1>10
  <1>13. Id(p)[2] = Min(Due(p))
    BY <1>11 DEF k
  <1>14. QED
    BY <1>1, <1>5, <1>7, <1>8, <1>9, <1>10, <1>11, <1>12, <1>13

\* The step a call has in hand.
LEMMA StepInHand ==
    ASSUME TypeOK, NEW p \in Calls, CallInv(p), call[p].pc \in InHand
    PROVE  /\ Here(p) \in Steps /\ HasRow(Here(p)) /\ Here(p)[1] \in call[p].batch
           /\ Here(p)[1] = call[p].item /\ Here(p)[1] \in Items /\ Here(p)[2] = call[p].slot
           /\ Mine(p) \in StepRow /\ Mine(p).status = "queued" /\ Mine(p) = ReadAs(p, Here(p))
           /\ Follows(Mine(p), Of(Here(p))) /\ Of(Here(p)) \in StepRow
  <1> DEFINE i == call[p].item
             k == call[p].slot
  <1>1. i \in call[p].batch /\ i \in Items /\ k \in DOMAIN row[i] /\ Mine(p).status = "queued"
    BY CallTypes DEF CallInv, BatchInv, HandInv, AtItem, InHand, HasRow, Here
  <1>2. call[p].rows[i] \in Seq(StepRow)
    BY <1>1, CallTypes
  <1>3. DOMAIN call[p].rows[i] = DOMAIN row[i]
        /\ <<i, k>> \in Steps /\ Follows(call[p].rows[i][k], row[i][k]) /\ row[i][k] \in StepRow
    BY <1>1, RowFacts DEF CallInv, BatchInv, Reading, InHand
  <1>4. call[p].rows[i][k] \in StepRow
    BY <1>1, <1>2, <1>3, ElementOfSeq, LenProperties
  <1>5. Here(p) = <<i, k>> /\ Mine(p) = call[p].rows[i][k]
    BY DEF Here, Mine, Read
  <1>6. QED
    BY <1>1, <1>3, <1>4, <1>5 DEF HasRow, Of, ReadAs

-----------------------------------------------------------------------------
(* How rows move                                                           *)

Evolves(r, q) ==
    \/ q = r
    \/ /\ r.status \in {"queued", "completed"}
       /\ \E status \in StepStatus :
             /\ status # "queued" /\ (r.status = "completed" => status = "completed")
             /\ q = Stepped(r, status)

\* An item that is taken keeps its rows, which only advance.
Steady(i) ==
    Taken(i) => /\ Taken(i)' /\ DOMAIN row'[i] = DOMAIN row[i]
                /\ \A k \in DOMAIN row[i] : Evolves(row[i][k], row'[i][k])
AllSteady == \A i \in Items : Steady(i)

LEMMA Evolution ==
    ASSUME NEW r \in StepRow, NEW q, Evolves(r, q)
    PROVE  /\ q \in StepRow /\ SameStep(r, q) /\ r.version <= q.version
           /\ r.version = q.version => q = r
           /\ r.status # "queued" => q.status = r.status
           /\ r.status \notin {"queued", "completed"} => q = r
  <1>1. CASE q = r
    BY <1>1 DEF StepRow, SameStep
  <1>2. CASE q # r
    <2>1. PICK status \in StepStatus : q = Stepped(r, status) /\ (r.status = "completed" => status = "completed")
      BY <1>2 DEF Evolves
    <2>2. r.status \in {"queued", "completed"}
      BY <1>2 DEF Evolves
    <2>3. q \in StepRow /\ SameStep(r, q) /\ q.status = status /\ q.version = r.version + 1
      BY <2>1, SteppedType
    <2>4. r.version \in Nat
      BY DEF StepRow
    <2>5. QED
      BY <2>1, <2>2, <2>3, <2>4
  <1>3. QED
    BY <1>1, <1>2

LEMMA FollowsOn ==
    ASSUME NEW a \in StepRow, NEW r \in StepRow, NEW q, Follows(a, r), Evolves(r, q)
    PROVE  Follows(a, q)
  <1>1. q \in StepRow /\ SameStep(r, q) /\ r.version <= q.version /\ (r.version = q.version => q = r)
    BY Evolution
  <1>2. a.version \in Nat /\ r.version \in Nat /\ q.version \in Nat
    BY <1>1 DEF StepRow
  <1>3. SameStep(a, q)
    BY <1>1 DEF Follows, SameStep
  <1>4. a.version <= q.version /\ (a.version = q.version => r.version = q.version /\ a.version = r.version)
    BY <1>1, <1>2 DEF Follows
  <1>5. QED
    BY <1>1, <1>3, <1>4 DEF Follows

RowsTyped == item \in [Items -> ItemStatus] /\ row \in [Items -> Seq(StepRow)]
             /\ \A i \in Items : Len(row[i]) <= MaxSteps

\* What a step does to the rows: they keep their type and promises.
RowsGo == RowsTyped' /\ AllSteady /\ RowsInv' /\ NothingForgotten'

\* Titles, labels and effects belong to steps that exist.
WorldOnRows ==
    /\ \A s \in called' : s \in called \/ HasRow(s)
    /\ called' \subseteq Steps
    /\ \A s \in Steps : ~HasRow(s) => applied'[s] = applied[s]

LEMMA RowsInvKept ==
    ASSUME TypeOK, RowsInv, WorldOnRows, \A s \in Steps : HasRow(s) => HasRow(s)',
           \A i \in Items : item'[i] = "absent" => row'[i] = <<>>,
           \A i \in Items : item'[i] \in {"queued", "executing"} => row'[i] # <<>>
    PROVE  RowsInv'
  <1>1. \A s \in called' : HasRow(s)'
    <2>1. \A s \in called' : s \in Steps /\ HasRow(s)
      BY DEF RowsInv, WorldOnRows
    <2>2. QED
      BY <2>1
  <1>2. \A s \in Steps : ~HasRow(s)' => applied'[s] = 0
    BY DEF RowsInv, WorldOnRows
  <1>3. QED
    BY <1>1, <1>2 DEF RowsInv

LEMMA RowsRest ==
    ASSUME TypeOK, RowsInv, NothingForgotten, UNCHANGED rows, WorldOnRows
    PROVE  RowsGo
  <1>1. item' = item /\ row' = row
    BY DEF rows
  <1>2. RowsTyped'
    BY <1>1 DEF RowsTyped, TypeOK
  <1>3. AllSteady
    BY <1>1 DEF AllSteady, Steady, Taken, Evolves
  <1>4. NothingForgotten'
    BY <1>1 DEF NothingForgotten
  <1>5. \A s \in Steps : HasRow(s) => HasRow(s)'
    BY <1>1 DEF HasRow
  <1>6. RowsInv'
    BY <1>1, <1>5, RowsInvKept DEF RowsInv
  <1>7. QED
    BY <1>2, <1>3, <1>4, <1>6 DEF RowsGo

LEMMA RowsSaved ==
    ASSUME TypeOK, RowsInv, NothingForgotten, NEW s \in Steps, HasRow(s),
           NEW status \in {"completed", "failed"}, SaveStep(s, status),
           \/ Of(s).status = "queued"
           \/ Of(s).status = "completed" /\ status = "completed",
           UNCHANGED <<item, world>>
    PROVE  RowsGo
  <1> DEFINE i == s[1]
             k == s[2]
  <1>1. i \in Items /\ s = <<i, k>> /\ k \in DOMAIN row[i] /\ Of(s) = row[i][k] /\ status \in StepStatus
    BY DEF Steps, HasRow, Of, StepStatus
  <1>2. /\ row' \in [Items -> Seq(StepRow)] /\ \A j \in Items : Len(row'[j]) <= MaxSteps
        /\ \A j \in Items : DOMAIN row'[j] = DOMAIN row[j]
        /\ row'[i][k] = Stepped(row[i][k], status)
        /\ \A j \in Items : \A m \in DOMAIN row[j] : <<j, m>> # s => row'[j][m] = row[j][m]
        /\ \A j \in Items : j # i => row'[j] = row[j]
    BY <1>1, SaveStepIs DEF Of
  <1>3. item' = item
    OBVIOUS
  <1>4. RowsTyped'
    BY <1>2, <1>3 DEF RowsTyped, TypeOK
  <1>5. \A j \in Items : \A m \in DOMAIN row[j] :
           row'[j][m] = row[j][m] \/ (j = i /\ m = k)
    BY <1>1, <1>2
  <1>6. AllSteady
    <2> SUFFICES ASSUME NEW j \in Items, Taken(j), NEW m \in DOMAIN row[j]
                 PROVE  Evolves(row[j][m], row'[j][m])
      BY <1>2, <1>3 DEF AllSteady, Steady, Taken
    <2>1. CASE row'[j][m] = row[j][m]
      BY <2>1 DEF Evolves
    <2>2. CASE j = i /\ m = k
      BY <1>1, <1>2, <2>2 DEF Evolves
    <2>3. QED
      BY <1>5, <2>1, <2>2
  <1>7. row[i][k] \in StepRow
    BY <1>1, RowFacts
  <1>8. row'[i][k].status = status
    BY <1>1, <1>2, <1>7, SteppedType
  <1>9. NothingForgotten'
    <2> SUFFICES ASSUME NEW j \in Items, NEW m \in DOMAIN row'[j]
                 PROVE  /\ item'[j] \notin {"queued", "executing"} => row'[j][m].status # "queued"
                        /\ item'[j] = "completed" => row'[j][m].status = "completed"
                        /\ item'[j] = "failed" => row'[j][m].status # "completed"
      BY DEF NothingForgotten
    <2>1. m \in DOMAIN row[j]
      BY <1>2
    <2>2. CASE row'[j][m] = row[j][m]
      BY <1>3, <2>1, <2>2 DEF NothingForgotten
    <2>3. CASE j = i /\ m = k
      <3>1. /\ item[i] \notin {"queued", "executing"} => row[i][k].status # "queued"
            /\ item[i] = "completed" => row[i][k].status = "completed"
            /\ item[i] = "failed" => row[i][k].status # "completed"
        BY <1>1 DEF NothingForgotten
      <3>2. QED
        BY <1>1, <1>3, <1>8, <2>3, <3>1
    <2>4. QED
      BY <1>5, <2>1, <2>2, <2>3
  <1>10. \A j \in Items : row[j] = <<>> <=> row'[j] = <<>>
    <2> SUFFICES ASSUME NEW j \in Items PROVE row[j] = <<>> <=> row'[j] = <<>>
      OBVIOUS
    <2>1. j = i => row[j] # <<>> /\ row'[j] # <<>>
      BY <1>1, <1>2
    <2>2. QED
      BY <1>2, <2>1
  <1>11. \A t \in Steps : HasRow(t) => HasRow(t)'
    BY <1>2 DEF HasRow, Steps
  <1>12. WorldOnRows
    BY DEF WorldOnRows, world, TypeOK
  <1>13. RowsInv'
    BY <1>3, <1>10, <1>11, <1>12, RowsInvKept DEF RowsInv
  <1>14. QED
    BY <1>4, <1>6, <1>9, <1>13 DEF RowsGo

\* New rows for an item that has none.
LEMMA RowsAdded ==
    ASSUME TypeOK, RowsInv, NothingForgotten, NEW i \in Items, ~Taken(i), row[i] = <<>>,
           NEW plan \in Plans, AddSteps(i, plan), item' = Written(i, "queued"), UNCHANGED world
    PROVE  RowsGo
  <1>1. /\ Queued(plan) \in Seq(StepRow) /\ Len(Queued(plan)) <= MaxSteps
        /\ DOMAIN Queued(plan) # {}
        /\ \A k \in DOMAIN Queued(plan) : Queued(plan)[k].status = "queued"
    BY QueuedType, InterventionsAssumption
  <1> DEFINE new == Queued(plan)
  <1> HIDE DEF new
  <1>2. /\ row' = [row EXCEPT ![i] = new] /\ row'[i] = new
        /\ \A j \in Items : j # i => row'[j] = row[j]
    BY DEF AddSteps, TypeOK, new
  <1>3. /\ item' = [item EXCEPT ![i] = "queued"] /\ item'[i] = "queued"
        /\ \A j \in Items : j # i => item'[j] = item[j]
    BY DEF Written, TypeOK
  <1>4. RowsTyped'
    BY <1>1, <1>2, <1>3 DEF RowsTyped, TypeOK, ItemStatus, new
  <1>5. AllSteady
    BY <1>2, <1>3 DEF AllSteady, Steady, Taken, Evolves
  <1>6. NothingForgotten'
    BY <1>1, <1>2, <1>3 DEF NothingForgotten, new
  <1>7. new # <<>>
    BY <1>1 DEF new
  <1>8. \A s \in Steps : HasRow(s) => HasRow(s)'
    BY <1>2 DEF HasRow, Steps
  <1>9. WorldOnRows
    BY DEF WorldOnRows, world, TypeOK
  <1>10. QED
    BY <1>2, <1>3, <1>4, <1>5, <1>6, <1>7, <1>8, <1>9, RowsInvKept DEF RowsGo, RowsInv

\* Steps of an item cancelled, and its status with them.
LEMMA CancelledRows ==
    ASSUME TypeOK, NEW i \in Items, NEW new,
           new = [k \in DOMAIN row[i] |-> new[k]],
           \A k \in DOMAIN row[i] : new[k] \in {row[i][k], Stepped(row[i][k], "cancelled")},
           row' = [row EXCEPT ![i] = new],
           NEW status \in ItemStatus, item' = Written(i, status)
    PROVE  /\ RowsTyped' /\ \A j \in Items : DOMAIN row'[j] = DOMAIN row[j]
           /\ row'[i] = new /\ item'[i] = status
           /\ \A j \in Items : j # i => row'[j] = row[j] /\ item'[j] = item[j]
           /\ \A s \in Steps : HasRow(s) => HasRow(s)'
           /\ \A j \in Items : row[j] = <<>> <=> row'[j] = <<>>
  <1>1. /\ Len(row[i]) \in Nat /\ Len(row[i]) <= MaxSteps /\ DOMAIN row[i] = 1..Len(row[i])
        /\ \A k \in DOMAIN row[i] : row[i][k] \in StepRow
    BY RowFacts
  <1>2. \A k \in 1..Len(row[i]) : new[k] \in StepRow
    BY <1>1, SteppedType DEF StepStatus
  <1>3. DOMAIN new = DOMAIN row[i]
    OBVIOUS
  <1>4. new \in Seq(StepRow) /\ DOMAIN new = DOMAIN row[i]
    <2>1. new \in [1..Len(row[i]) -> StepRow]
      BY <1>1, <1>2
    <2>2. QED
      BY <1>1, <1>3, <2>1, SeqDef
  <1>5. Len(new) = Len(row[i])
    BY <1>1, <1>4, LenProperties
  <1>6. row'[i] = new /\ \A j \in Items : j # i => row'[j] = row[j]
    BY DEF TypeOK
  <1>7. item' = [item EXCEPT ![i] = status]
    BY DEF Written
  <1>8. item'[i] = status /\ \A j \in Items : j # i => item'[j] = item[j]
    BY <1>7 DEF TypeOK
  <1>9. RowsTyped'
    BY <1>1, <1>4, <1>5, <1>6, <1>7 DEF RowsTyped, TypeOK
  <1>10. \A j \in Items : DOMAIN row'[j] = DOMAIN row[j]
    BY <1>4, <1>6
  <1>11. \A s \in Steps : HasRow(s) => HasRow(s)'
    BY <1>10 DEF HasRow, Steps
  <1>12. row[i] = <<>> <=> new = <<>>
    <2>1. row[i] \in Seq(StepRow)
      BY DEF TypeOK
    <2>2. (row[i] = <<>> <=> Len(row[i]) = 0) /\ (new = <<>> <=> Len(new) = 0)
      BY <1>4, <2>1, EmptySeq
    <2>3. QED
      BY <1>5, <2>2
  <1>13. QED
    BY <1>6, <1>8, <1>9, <1>10, <1>11, <1>12

LEMMA RowsEdited ==
    ASSUME TypeOK, RowsInv, NothingForgotten, NEW i \in Items, Edit(i)
    PROVE  RowsGo
  <1>1. CASE row[i] = <<>> /\ (\E plan \in Plans : AddSteps(i, plan)) /\ item' = Written(i, "queued")
    BY <1>1, RowsAdded DEF Edit, Taken
  <1>2. ASSUME NEW status \in {"needs_clarification", "failed"}, item' = Written(i, status),
               row' = [row EXCEPT ![i] = [k \in DOMAIN @ |-> Stepped(@[k], "cancelled")]]
        PROVE  RowsGo
    <2> DEFINE new == [k \in DOMAIN row[i] |-> Stepped(row[i][k], "cancelled")]
    <2>1. new = [k \in DOMAIN row[i] |-> new[k]]
          /\ \A k \in DOMAIN row[i] : new[k] = Stepped(row[i][k], "cancelled")
      OBVIOUS
    <2>2. row' = [row EXCEPT ![i] = new] /\ status \in ItemStatus
      BY <1>2 DEF TypeOK, ItemStatus
    <2> HIDE DEF new
    <2>3. /\ RowsTyped' /\ \A j \in Items : DOMAIN row'[j] = DOMAIN row[j]
          /\ row'[i] = new /\ item'[i] = status
          /\ \A j \in Items : j # i => row'[j] = row[j] /\ item'[j] = item[j]
          /\ \A s \in Steps : HasRow(s) => HasRow(s)'
          /\ \A j \in Items : row[j] = <<>> <=> row'[j] = <<>>
      BY <1>2, <2>1, <2>2, CancelledRows
    <2>4. \A k \in DOMAIN row[i] : row'[i][k].status = "cancelled"
      <3> SUFFICES ASSUME NEW k \in DOMAIN row[i] PROVE new[k].status = "cancelled"
        BY <2>3
      <3>1. row[i][k] \in StepRow /\ "cancelled" \in StepStatus
        BY RowFacts DEF StepStatus
      <3>2. QED
        BY <2>1, <3>1, SteppedType
    <2>5. ~Taken(i)
      BY DEF Edit, Taken
    <2>6. AllSteady
      BY <2>3, <2>5 DEF AllSteady, Steady, Taken, Evolves
    <2>7. NothingForgotten'
      <3> SUFFICES ASSUME NEW j \in Items, NEW k \in DOMAIN row[j]
                   PROVE  /\ item'[j] \notin {"queued", "executing"} => row'[j][k].status # "queued"
                          /\ item'[j] = "completed" => row'[j][k].status = "completed"
                          /\ item'[j] = "failed" => row'[j][k].status # "completed"
        BY <2>3 DEF NothingForgotten
      <3>1. CASE j = i
        BY <1>2, <2>3, <2>4, <3>1
      <3>2. CASE j # i
        BY <2>3, <3>2 DEF NothingForgotten
      <3>3. QED
        BY <3>1, <3>2
    <2>8. WorldOnRows
      BY DEF WorldOnRows, world, TypeOK, Edit
    <2>9. RowsInv'
      BY <1>2, <2>3, <2>8, RowsInvKept DEF RowsInv
    <2>10. QED
      BY <2>3, <2>6, <2>7, <2>9 DEF RowsGo
  <1>3. QED
    BY <1>1, <1>2 DEF Edit

LEMMA RowsCancelled ==
    ASSUME TypeOK, RowsInv, NothingForgotten, NEW i \in Items, Cancel(i)
    PROVE  RowsGo
  <1> DEFINE new == [k \in DOMAIN row[i] |->
               IF row[i][k].status = "queued" THEN Stepped(row[i][k], "cancelled") ELSE row[i][k]]
  <1>1. /\ new = [k \in DOMAIN row[i] |-> new[k]]
        /\ \A k \in DOMAIN row[i] : row[i][k].status = "queued" => new[k] = Stepped(row[i][k], "cancelled")
        /\ \A k \in DOMAIN row[i] : row[i][k].status # "queued" => new[k] = row[i][k]
    OBVIOUS
  <1>2. row' = [row EXCEPT ![i] = new] /\ "cancelled" \in ItemStatus
    BY DEF Cancel, TypeOK, ItemStatus
  <1>3. item' = Written(i, "cancelled")
    BY DEF Cancel
  <1> HIDE DEF new
  <1>4. /\ RowsTyped' /\ \A j \in Items : DOMAIN row'[j] = DOMAIN row[j]
        /\ row'[i] = new /\ item'[i] = "cancelled"
        /\ \A j \in Items : j # i => row'[j] = row[j] /\ item'[j] = item[j]
        /\ \A s \in Steps : HasRow(s) => HasRow(s)'
        /\ \A j \in Items : row[j] = <<>> <=> row'[j] = <<>>
    BY <1>1, <1>2, <1>3, CancelledRows
  <1>5. \A k \in DOMAIN row[i] : Evolves(row[i][k], row'[i][k]) /\ row'[i][k].status # "queued"
    <2> SUFFICES ASSUME NEW k \in DOMAIN row[i]
                 PROVE  Evolves(row[i][k], new[k]) /\ new[k].status # "queued"
      BY <1>4
    <2>1. CASE row[i][k].status = "queued"
      <3>1. new[k] = Stepped(row[i][k], "cancelled") /\ "cancelled" \in StepStatus
        BY <1>1, <2>1 DEF StepStatus
      <3>2. new[k].status = "cancelled"
        BY <3>1, RowFacts, SteppedType
      <3>3. QED
        BY <2>1, <3>1, <3>2 DEF Evolves
    <2>2. CASE row[i][k].status # "queued"
      BY <1>1, <2>2 DEF Evolves
    <2>3. QED
      BY <2>1, <2>2
  <1>6. AllSteady
    <2> SUFFICES ASSUME NEW j \in Items, Taken(j)
                 PROVE  Taken(j)' /\ DOMAIN row'[j] = DOMAIN row[j]
                        /\ \A k \in DOMAIN row[j] : Evolves(row[j][k], row'[j][k])
      BY DEF AllSteady, Steady
    <2>1. CASE j = i
      BY <1>4, <1>5, <2>1 DEF Taken
    <2>2. CASE j # i
      BY <1>4, <2>2 DEF Taken, Evolves
    <2>3. QED
      BY <2>1, <2>2
  <1>7. NothingForgotten'
    BY <1>4, <1>5 DEF NothingForgotten
  <1>8. WorldOnRows
    BY DEF WorldOnRows, world, TypeOK, Cancel
  <1>9. RowsInv'
    BY <1>4, <1>8, RowsInvKept DEF RowsInv
  <1>10. QED
    BY <1>4, <1>6, <1>7, <1>9 DEF RowsGo

\* A step that writes the status of items only.
LEMMA RowsMarked ==
    ASSUME TypeOK, RowsInv, NothingForgotten, item' \in [Items -> ItemStatus],
           UNCHANGED <<row, world>>,
           \A i \in Items : Taken(i) => Taken(i)',
           \A i \in Items : item'[i] = "absent" => item[i] = "absent",
           \A i \in Items : item'[i] \in {"queued", "executing"} => row[i] # <<>>,
           \A i \in Items : item'[i] = item[i] \/ Verdict(i, item'[i])
               \/ (item'[i] \in {"queued", "executing", "needs_clarification", "failed"}
                   /\ (item'[i] \in {"needs_clarification", "failed"} => row[i] = <<>>))
    PROVE  RowsGo
  <1>1. row' = row
    OBVIOUS
  <1>2. RowsTyped'
    BY <1>1 DEF RowsTyped, TypeOK
  <1>3. AllSteady
    BY <1>1 DEF AllSteady, Steady, Evolves
  <1>4. NothingForgotten'
    <2> SUFFICES ASSUME NEW i \in Items, NEW k \in DOMAIN row[i]
                 PROVE  /\ item'[i] \notin {"queued", "executing"} => row[i][k].status # "queued"
                        /\ item'[i] = "completed" => row[i][k].status = "completed"
                        /\ item'[i] = "failed" => row[i][k].status # "completed"
      BY <1>1 DEF NothingForgotten
    <2>1. CASE item'[i] = item[i]
      BY <2>1 DEF NothingForgotten
    <2>2. CASE Verdict(i, item'[i])
      BY <2>2 DEF Verdict
    <2>3. CASE item'[i] \in {"queued", "executing"}
      BY <2>3
    <2>4. CASE row[i] = <<>>
      BY <2>4
    <2>5. QED
      BY <2>1, <2>2, <2>3, <2>4
  <1>5. \A s \in Steps : HasRow(s) => HasRow(s)'
    BY <1>1 DEF HasRow
  <1>6. WorldOnRows
    BY DEF WorldOnRows, world, TypeOK
  <1>7. RowsInv'
    BY <1>1, <1>5, <1>6, RowsInvKept DEF RowsInv
  <1>8. QED
    BY <1>2, <1>3, <1>4, <1>7 DEF RowsGo

LEMMA RowsSubmitted ==
    ASSUME TypeOK, RowsInv, NothingForgotten, NEW i \in Items, Submit(i)
    PROVE  RowsGo
  <1>1. UNCHANGED world
    BY DEF Submit
  <1>2. ASSUME AddIntervention(i, "queued"), NEW plan \in Plans, AddSteps(i, plan)
        PROVE  RowsGo
    BY <1>1, <1>2, RowsAdded DEF AddIntervention, Taken, RowsInv
  <1>3. ASSUME NEW status \in {"needs_clarification", "failed"}, AddIntervention(i, status), UNCHANGED row
        PROVE  RowsGo
    <2>1. item[i] = "absent" /\ row[i] = <<>> /\ item' = [item EXCEPT ![i] = status]
      BY <1>3 DEF AddIntervention, Written, RowsInv
    <2>2. item' \in [Items -> ItemStatus] /\ item'[i] = status
          /\ \A j \in Items : j # i => item'[j] = item[j]
      BY <2>1 DEF TypeOK, ItemStatus
    <2>3. QED
      BY <1>1, <1>3, <2>1, <2>2, RowsMarked DEF Taken, RowsInv
  <1>4. QED
    BY <1>2, <1>3 DEF Submit

LEMMA RowsClaimed ==
    ASSUME TypeOK, RowsInv, NothingForgotten, NEW p \in Calls, Claim(p)
    PROVE  RowsGo
  <1>1. item' = [i \in Items |-> IF item[i] = "queued" THEN "executing" ELSE item[i]]
        /\ UNCHANGED <<row, world>>
    BY DEF Claim
  <1>2. item' \in [Items -> ItemStatus]
    BY <1>1 DEF TypeOK, ItemStatus
  <1>3. \A i \in Items : item'[i] = item[i] \/ (item[i] = "queued" /\ item'[i] = "executing")
    BY <1>1
  <1>4. QED
    BY <1>1, <1>2, <1>3, RowsMarked DEF Taken, RowsInv

LEMMA RowsFinished ==
    ASSUME TypeOK, RowsInv, NothingForgotten, NEW p \in Calls, CallInv(p), FinishWrite(p)
    PROVE  RowsGo
  <1> DEFINE i == call[p].item
  <1>1. call[p].pc = "finish" /\ UNCHANGED <<row, world>> /\ item' = [item EXCEPT ![i] = call[p].mark]
    BY DEF FinishWrite, Written, At
  <1>2. i \in Items /\ Taken(i) /\ row[i] # <<>> /\ Verdict(i, call[p].mark)
    BY <1>1, CallTypes DEF CallInv, BatchInv, HandInv, AtItem
  <1>3. item'[i] = call[p].mark /\ \A j \in Items : j # i => item'[j] = item[j]
    BY <1>1, <1>2 DEF TypeOK
  <1>4. item' \in [Items -> ItemStatus]
    BY <1>1, CallTypes DEF TypeOK
  <1>5. QED
    BY <1>1, <1>2, <1>3, <1>4, RowsMarked DEF Taken, RowsInv, Verdict

-----------------------------------------------------------------------------
(* What the calls know stays true                                          *)

\* Whoever acts, what a call has read of its batch only falls behind.
LEMMA BatchKept ==
    ASSUME TypeOK, NEW p \in Calls, CallInv(p), AllSteady,
           call'[p].batch = call[p].batch
    PROVE  /\ \A i \in call'[p].batch : Taken(i)' /\ row'[i] # <<>>
           /\ call[p].pc \in Reading =>
                 \A i \in call'[p].batch :
                    /\ DOMAIN call[p].rows[i] = DOMAIN row'[i]
                    /\ \A k \in DOMAIN row'[i] : Follows(call[p].rows[i][k], row'[i][k])
           /\ \A s \in Steps : s[1] \in call[p].batch /\ HasRow(s) =>
                 HasRow(s)' /\ Of(s) \in StepRow /\ Evolves(Of(s), Of(s)')
  <1>1. ASSUME NEW i \in call[p].batch
        PROVE  /\ i \in Items /\ Taken(i) /\ row[i] # <<>> /\ Taken(i)' /\ row'[i] # <<>>
               /\ DOMAIN row'[i] = DOMAIN row[i]
               /\ \A k \in DOMAIN row[i] : row[i][k] \in StepRow /\ Evolves(row[i][k], row'[i][k])
    <2>1. i \in Items /\ Taken(i) /\ row[i] # <<>>
      BY CallTypes DEF CallInv, BatchInv
    <2>2. DOMAIN row'[i] = DOMAIN row[i] /\ Taken(i)'
          /\ \A k \in DOMAIN row[i] : Evolves(row[i][k], row'[i][k])
      BY <2>1 DEF AllSteady, Steady
    <2>3. DOMAIN row[i] # {} /\ \A k \in DOMAIN row[i] : row[i][k] \in StepRow
      BY <2>1, RowFacts
    <2>4. row'[i] # <<>>
      BY <2>2, <2>3
    <2>5. QED
      BY <2>1, <2>2, <2>3, <2>4
  <1>2. ASSUME call[p].pc \in Reading, NEW i \in call[p].batch
        PROVE  /\ DOMAIN call[p].rows[i] = DOMAIN row'[i]
               /\ \A k \in DOMAIN row'[i] : Follows(call[p].rows[i][k], row'[i][k])
    <2>1. /\ DOMAIN call[p].rows[i] = DOMAIN row[i]
          /\ \A k \in DOMAIN row[i] : Follows(call[p].rows[i][k], row[i][k])
      BY <1>2 DEF CallInv, BatchInv
    <2>2. call[p].rows[i] \in Seq(StepRow)
      BY <1>1, CallTypes
    <2>3. \A k \in DOMAIN row[i] : call[p].rows[i][k] \in StepRow
      BY <2>1, <2>2, ElementOfSeq, LenProperties
    <2>4. QED
      BY <1>1, <2>1, <2>3, FollowsOn
  <1>3. ASSUME NEW s \in Steps, s[1] \in call[p].batch, HasRow(s)
        PROVE  HasRow(s)' /\ Of(s) \in StepRow /\ Evolves(Of(s), Of(s)')
    BY <1>1, <1>3 DEF HasRow, Of
  <1>4. QED
    BY <1>1, <1>2, <1>3

LEMMA CallInvKept ==
    ASSUME TypeOK, NEW p \in Calls, CallInv(p), AllSteady, call'[p] = call[p]
    PROVE  CallInv(p)'
  <1>1. /\ \A i \in call'[p].batch : Taken(i)' /\ row'[i] # <<>>
        /\ call[p].pc \in Reading =>
              \A i \in call'[p].batch :
                 /\ DOMAIN call[p].rows[i] = DOMAIN row'[i]
                 /\ \A k \in DOMAIN row'[i] : Follows(call[p].rows[i][k], row'[i][k])
        /\ \A s \in Steps : s[1] \in call[p].batch /\ HasRow(s) =>
              HasRow(s)' /\ Of(s) \in StepRow /\ Evolves(Of(s), Of(s)')
    BY BatchKept
  <1>2. call[p].directed \subseteq Steps
    BY CallTypes
  <1>3. BatchInv(p)'
    BY <1>1, <1>2 DEF CallInv, BatchInv
  <1>4. Here(p)' = Here(p) /\ Mine(p)' = Mine(p)
    BY DEF Here, Mine, Read
  <1>5. call[p].pc \in InHand => HasRow(Here(p))' /\ Mine(p)'.status = "queued"
    BY <1>1, <1>4, StepInHand DEF CallInv, HandInv
  <1>6. ASSUME call[p].pc = "mark"
        PROVE  /\ call[p].mark \in {"completed", "failed"}
               /\ call[p].version <= Of(Here(p))'.version
               /\ call[p].version = Of(Here(p))'.version =>
                     \/ Of(Here(p))'.status = "queued"
                     \/ Of(Here(p))'.status = "completed" /\ call[p].mark = "completed"
    <2> DEFINE r == Of(Here(p))
               q == Of(Here(p))'
    <2>1. r \in StepRow /\ Evolves(r, q)
      BY <1>1, <1>4, <1>6, StepInHand DEF InHand
    <2>2. /\ call[p].mark \in {"completed", "failed"} /\ call[p].version <= r.version
          /\ call[p].version = r.version =>
                r.status = "queued" \/ (r.status = "completed" /\ call[p].mark = "completed")
      BY <1>6 DEF CallInv, HandInv
    <2> HIDE DEF r, q
    <2>3. q \in StepRow /\ r.version <= q.version /\ (r.version = q.version => q = r)
      BY <2>1, Evolution
    <2>4. call[p].version \in Nat /\ r.version \in Nat /\ q.version \in Nat
      BY <2>1, <2>3, CallTypes DEF StepRow
    <2>5. QED
      BY <2>2, <2>3, <2>4 DEF r, q
  <1>7. ASSUME call[p].pc = "finish"
        PROVE  Verdict(call[p].item, call[p].mark)'
    <2> DEFINE i == call[p].item
    <2>1. Verdict(i, call[p].mark) /\ i \in call[p].batch /\ i \in Items
      BY <1>7, CallTypes DEF CallInv, BatchInv, HandInv, AtItem
    <2>2. DOMAIN row'[i] = DOMAIN row[i]
          /\ \A k \in DOMAIN row[i] : row[i][k] \in StepRow /\ Evolves(row[i][k], row'[i][k])
      BY <2>1, RowFacts DEF AllSteady, Steady, CallInv, BatchInv
    <2>3. \A k \in DOMAIN row[i] :
             /\ row[i][k].status # "queued" => row'[i][k].status = row[i][k].status
      BY <2>2, Evolution
    <2>4. QED
      BY <2>1, <2>2, <2>3 DEF Verdict
  <1>8. HandInv(p)'
    BY <1>4, <1>5, <1>6, <1>7 DEF HandInv
  <1>9. QED
    BY <1>3, <1>8 DEF CallInv

\* The acting call, while it stays with its item: what is left to show is
\* what it knows of the step in hand.
LEMMA CallInvGoesOn ==
    ASSUME TypeOK, NEW p \in Calls, CallInv(p), AllSteady, KeepsBatch(p),
           call[p].pc \in AtItem, call'[p].pc \in AtItem,
           \A s \in call'[p].directed :
              s \in call[p].directed \/ (s \in Steps /\ s[1] \in call[p].batch /\ HasRow(s)),
           HandInv(p)'
    PROVE  CallInv(p)'
  <1>1. /\ \A i \in call'[p].batch : Taken(i)' /\ row'[i] # <<>>
        /\ call[p].pc \in Reading =>
              \A i \in call'[p].batch :
                 /\ DOMAIN call[p].rows[i] = DOMAIN row'[i]
                 /\ \A k \in DOMAIN row'[i] : Follows(call[p].rows[i][k], row'[i][k])
        /\ \A s \in Steps : s[1] \in call[p].batch /\ HasRow(s) =>
              HasRow(s)' /\ Of(s) \in StepRow /\ Evolves(Of(s), Of(s)')
    BY BatchKept DEF KeepsBatch
  <1>2. call[p].directed \subseteq Steps
    BY CallTypes
  <1>3. \A s \in call'[p].directed : s[1] \in call'[p].batch /\ HasRow(s)'
    BY <1>1, <1>2 DEF CallInv, BatchInv, KeepsBatch
  <1>4. BatchInv(p)'
    BY <1>1, <1>3 DEF CallInv, BatchInv, KeepsBatch, AtItem, Reading
  <1>5. QED
    BY <1>4 DEF CallInv

WorldTyped ==
    /\ active \in [Actors -> SUBSET Activity] /\ place \in [Actors -> Places]
    /\ called \subseteq Steps /\ applied \in [Steps -> Nat]

\* What a step of call p does.
Goes(p) ==
    /\ RowsGo /\ WorldTyped'
    /\ call' \in [Calls -> Call] /\ Others(p) /\ CallInv(p)'

Inv == TypeOK /\ RowsInv /\ NothingForgotten /\ \A p \in Calls : CallInv(p)

LEMMA WorldRests ==
    ASSUME TypeOK, UNCHANGED world
    PROVE  WorldTyped' /\ WorldOnRows
  BY DEF TypeOK, WorldTyped, WorldOnRows, world

LEMMA EndedGoes ==
    ASSUME Inv, NEW p \in Calls, Ends(p)
    PROVE  call' \in [Calls -> Call] /\ Others(p) /\ CallInv(p)'
  <1>1. /\ call' \in [Calls -> Call] /\ Others(p)
        /\ call'[p].pc = "idle" /\ call'[p].todo = {} /\ call'[p].batch = {}
        /\ call'[p].directed = {}
    BY Ended DEF Inv
  <1>2. QED
    BY <1>1 DEF CallInv, BatchInv, HandInv, Reading, AtItem, InHand

LEMMA OnwardGoes ==
    ASSUME Inv, AllSteady, NEW p \in Calls, call[p].pc \in Reading, NEW c \in Call,
           c.todo = call[p].todo, c.batch = call[p].batch, c.rows = call[p].rows,
           c.directed = call[p].directed,
           call' = [call EXCEPT ![p] = Onward(c)]
    PROVE  call' \in [Calls -> Call] /\ Others(p) /\ CallInv(p)'
  <1>1. TypeOK /\ CallInv(p)
    BY DEF Inv
  <1>2. /\ call' \in [Calls -> Call] /\ Others(p)
        /\ call'[p].batch = c.batch /\ call'[p].directed = c.directed
        /\ c.todo = {} => call'[p].pc = "phase" /\ call'[p].todo = {}
        /\ c.todo # {} =>
              /\ call'[p].pc = "step" /\ call'[p].item \in c.todo
              /\ call'[p].todo = c.todo \ {call'[p].item}
              /\ call'[p].slot = 0 /\ call'[p].rows = c.rows /\ call'[p].busy = c.busy
    BY <1>1, WentOnward
  <1>3. /\ \A i \in call'[p].batch : Taken(i)' /\ row'[i] # <<>>
        /\ \A i \in call'[p].batch :
              /\ DOMAIN call[p].rows[i] = DOMAIN row'[i]
              /\ \A k \in DOMAIN row'[i] : Follows(call[p].rows[i][k], row'[i][k])
        /\ \A s \in Steps : s[1] \in call[p].batch /\ HasRow(s) =>
              HasRow(s)' /\ Of(s) \in StepRow /\ Evolves(Of(s), Of(s)')
    BY <1>1, <1>2, BatchKept
  <1>4. call[p].directed \subseteq Steps
    BY <1>1, CallTypes
  <1>5. \A s \in call'[p].directed : s[1] \in call'[p].batch /\ HasRow(s)'
    BY <1>1, <1>2, <1>3, <1>4 DEF CallInv, BatchInv
  <1>6. call[p].todo \subseteq call[p].batch
    BY <1>1 DEF CallInv, BatchInv
  <1>7. CASE c.todo = {}
    BY <1>2, <1>3, <1>5, <1>7 DEF CallInv, BatchInv, HandInv, Reading, AtItem, InHand
  <1>8. CASE c.todo # {}
    <2>1. BatchInv(p)'
      BY <1>2, <1>3, <1>5, <1>6, <1>8 DEF BatchInv, Reading, AtItem
    <2>2. HandInv(p)'
      BY <1>2, <1>8 DEF HandInv, InHand
    <2>3. QED
      BY <1>2, <2>1, <2>2 DEF CallInv
  <1>9. QED
    BY <1>2, <1>7, <1>8

\* The step that is due next is marked as it was read.
LEMMA MarksWhatIsDue ==
    ASSUME Inv, NEW p \in Calls, call[p].pc = "step", Due(p) # {},
           UNCHANGED row, KeepsBatch(p), call'[p].pc = "mark", call'[p].slot = Id(p)[2],
           call'[p].version = Tried(p).version, call'[p].mark \in {"completed", "failed"}
    PROVE  HandInv(p)' /\ Here(p)' = Id(p)
  <1>1. /\ Id(p) \in Steps /\ HasRow(Id(p)) /\ Id(p)[1] = call[p].item
        /\ Tried(p) \in StepRow /\ Tried(p).status = "queued" /\ Tried(p) = ReadAs(p, Id(p))
        /\ Follows(Tried(p), Of(Id(p)))
    BY NextDue DEF Inv
  <1>2. Here(p)' = Id(p)
    BY <1>1 DEF Here, KeepsBatch, Id
  <1>3. Mine(p)' = Tried(p)
    BY <1>1 DEF Mine, Read, ReadAs, KeepsBatch
  <1>4. HasRow(Here(p))' /\ Of(Here(p))' = Of(Id(p))
    BY <1>1, <1>2 DEF HasRow, Of
  <1>5. QED
    BY <1>1, <1>2, <1>3, <1>4 DEF HandInv, InHand, Follows

\* A step that has just been saved as completed is marked so once more.
LEMMA MarksWhatIsSaved ==
    ASSUME Inv, NEW p \in Calls, KeepsBatch(p), NEW s \in Steps, HasRow(s),
           s[1] = call[p].item, call'[p].pc = "mark", call'[p].slot = s[2],
           ReadAs(p, s).status = "queued", NEW version \in Nat, Fresh(s, version),
           SaveStep(s, "completed"), call'[p].version = version + 1, call'[p].mark = "completed"
    PROVE  HandInv(p)' /\ Here(p)' = s
  <1>1. s = <<s[1], s[2]>> /\ s[1] \in Items /\ s[2] \in DOMAIN row[s[1]]
    BY DEF Steps, HasRow
  <1>2. Here(p)' = s
    BY <1>1 DEF Here, KeepsBatch
  <1>3. Mine(p)' = ReadAs(p, s)
    BY DEF Mine, Read, ReadAs, KeepsBatch
  <1>4. /\ \A i \in Items : DOMAIN row'[i] = DOMAIN row[i]
        /\ Of(s)' = Stepped(Of(s), "completed")
    BY SaveStepIs DEF Inv, StepStatus
  <1>5. Of(s) \in StepRow /\ Of(s).version = version
    BY <1>1, RowFacts DEF Inv, Of, Fresh
  <1>6. Of(s)'.status = "completed" /\ Of(s)'.version = version + 1
    BY <1>4, <1>5, SteppedType DEF StepStatus
  <1>7. HasRow(s)'
    BY <1>1, <1>4 DEF HasRow
  <1>8. QED
    BY <1>2, <1>3, <1>6, <1>7 DEF HandInv, InHand

LEMMA ClaimGoes ==
    ASSUME Inv, NEW p \in Calls, Claim(p)
    PROVE  Goes(p)
  <1>1. TypeOK /\ RowsInv /\ NothingForgotten /\ CallInv(p)
    BY DEF Inv
  <1>2. RowsGo
    BY <1>1, RowsClaimed
  <1>3. WorldTyped'
    BY <1>1, WorldRests DEF Claim
  <1> DEFINE read == [i \in Items |-> IF i \in Open THEN row[i] ELSE <<>>]
             c == [call[p] EXCEPT !.pc = "read", !.todo = Open, !.batch = Open, !.rows = read]
  <1>4. call \in [Calls -> Call] /\ call[p] \in Call /\ call[p].directed = {}
    BY <1>1, CallTypes DEF CallInv, BatchInv, Claim, At
  <1>5. call' = [call EXCEPT ![p] = c] /\ row' = row
    BY <1>4 DEF Claim
  <1>6. read \in [Items -> Seq(StepRow)] /\ Open \subseteq Items
    <2>1. <<>> \in Seq(StepRow)
      BY EmptySeq
    <2>2. QED
      BY <1>1, <2>1 DEF TypeOK, Open
  <1>7. \A i \in Open : read[i] = row[i]
    BY <1>6
  <1> HIDE DEF read
  <1>8. c \in Call
    BY <1>4, <1>6 DEF Call, Pcs
  <1>9. /\ c.pc = "read" /\ c.todo = Open /\ c.batch = Open /\ c.rows = read /\ c.directed = {}
    BY <1>4 DEF Call
  <1> HIDE DEF c
  <1>10. call' \in [Calls -> Call] /\ call'[p] = c /\ Others(p)
    BY <1>1, <1>5, <1>8, Becomes DEF Others
  <1>11. \A i \in Open : Taken(i)' /\ row'[i] # <<>>
    <2> SUFFICES ASSUME NEW i \in Open PROVE Taken(i)' /\ row'[i] # <<>>
      OBVIOUS
    <2>1. item'[i] = IF item[i] = "queued" THEN "executing" ELSE item[i]
      BY <1>6 DEF Claim
    <2>2. QED
      BY <1>1, <1>5, <1>6, <2>1 DEF Open, Taken, RowsInv
  <1>12. \A i \in Open : \A k \in DOMAIN row[i] : Follows(row[i][k], row[i][k])
    <2> SUFFICES ASSUME NEW i \in Open, NEW k \in DOMAIN row[i]
                 PROVE  Follows(row[i][k], row[i][k])
      OBVIOUS
    <2>1. row[i][k] \in StepRow
      BY <1>1, <1>6, RowFacts
    <2>2. row[i][k].version \in Nat
      BY <2>1 DEF StepRow
    <2>3. QED
      BY <2>2 DEF Follows, SameStep
  <1>13. CallInv(p)'
    BY <1>5, <1>7, <1>9, <1>10, <1>11, <1>12 DEF CallInv, BatchInv, HandInv, Reading, AtItem, InHand
  <1>14. QED
    BY <1>2, <1>3, <1>10, <1>13 DEF Goes

LEMMA ReadActivesGoes ==
    ASSUME Inv, NEW p \in Calls, ReadActives(p)
    PROVE  Goes(p)
  <1>1. TypeOK /\ RowsInv /\ NothingForgotten
    BY DEF Inv
  <1>2. RowsGo /\ WorldTyped'
    BY <1>1, RowsRest, WorldRests DEF ReadActives
  <1> DEFINE busy == {c \in Actors : active[c] # {}}
             c == [call[p] EXCEPT !.busy = busy]
  <1>3. call \in [Calls -> Call] /\ call[p] \in Call /\ call[p].pc = "read"
    BY <1>1, CallTypes DEF ReadActives, At
  <1>4. call' = [call EXCEPT ![p] = Onward(c)]
    BY <1>3 DEF ReadActives
  <1>5. busy \subseteq Actors
    OBVIOUS
  <1> HIDE DEF busy
  <1>6. c \in Call
    BY <1>3, <1>5 DEF Call
  <1>7. c.todo = call[p].todo /\ c.batch = call[p].batch /\ c.rows = call[p].rows
        /\ c.directed = call[p].directed
    BY <1>3 DEF Call
  <1> HIDE DEF c
  <1>8. call' \in [Calls -> Call] /\ Others(p) /\ CallInv(p)'
    BY <1>2, <1>3, <1>4, <1>6, <1>7, OnwardGoes DEF Reading, RowsGo
  <1>9. QED
    BY <1>2, <1>8 DEF Goes

LEMMA FinishWriteGoes ==
    ASSUME Inv, NEW p \in Calls, FinishWrite(p)
    PROVE  Goes(p)
  <1>1. TypeOK /\ RowsInv /\ NothingForgotten /\ CallInv(p)
    BY DEF Inv
  <1>2. RowsGo /\ WorldTyped'
    BY <1>1, RowsFinished, WorldRests DEF FinishWrite
  <1>3. call \in [Calls -> Call] /\ call[p] \in Call /\ call[p].pc = "finish"
    BY <1>1, CallTypes DEF FinishWrite, At
  <1>4. call' = [call EXCEPT ![p] = Onward(call[p])]
    BY <1>3 DEF FinishWrite
  <1>5. call' \in [Calls -> Call] /\ Others(p) /\ CallInv(p)'
    BY <1>2, <1>3, <1>4, OnwardGoes DEF Reading, RowsGo
  <1>6. QED
    BY <1>2, <1>5 DEF Goes

\* A step that is due is marked, and no row is written yet.
LEMMA ToMarkGoes ==
    ASSUME Inv, NEW p \in Calls, call[p].pc = "step", Due(p) # {},
           NEW mark \in {"completed", "failed"}, ToMark(p, mark),
           UNCHANGED rows, WorldTyped', WorldOnRows
    PROVE  Goes(p)
  <1>1. TypeOK /\ RowsInv /\ NothingForgotten /\ CallInv(p)
    BY DEF Inv
  <1>2. RowsGo /\ row' = row
    BY <1>1, RowsRest DEF rows
  <1>3. /\ Id(p)[2] = Min(Due(p)) /\ Id(p)[2] \in 1..MaxSteps /\ Tried(p) \in StepRow
    BY <1>1, NextDue
  <1>4. Id(p)[2] \in 0..MaxSteps /\ Tried(p).version \in Nat /\ mark \in ItemStatus
    BY <1>3, InterventionsAssumption DEF StepRow, ItemStatus
  <1>5. Marking(p, Id(p)[2], Tried(p).version, mark)
    BY <1>3 DEF ToMark
  <1>6. /\ call' \in [Calls -> Call] /\ KeepsBatch(p) /\ Others(p)
        /\ call'[p].pc = "mark" /\ call'[p].slot = Id(p)[2] /\ call'[p].version = Tried(p).version
        /\ call'[p].mark = mark /\ call'[p].directed = call[p].directed
    BY <1>1, <1>4, <1>5, Marked
  <1>7. HandInv(p)'
    BY <1>2, <1>6, MarksWhatIsDue
  <1>8. CallInv(p)'
    BY <1>1, <1>2, <1>6, <1>7, CallInvGoesOn DEF RowsGo, AtItem
  <1>9. QED
    BY <1>2, <1>6, <1>8 DEF Goes

\* A step that is due is taken in hand.
LEMMA ToStepGoes ==
    ASSUME Inv, NEW p \in Calls, call[p].pc = "step", Due(p) # {},
           NEW pc \in {"start", "create"}, ToStep(p, pc), UNCHANGED <<rows, world>>
    PROVE  Goes(p)
  <1>1. TypeOK /\ RowsInv /\ NothingForgotten /\ CallInv(p)
    BY DEF Inv
  <1>2. RowsGo /\ WorldTyped' /\ row' = row
    BY <1>1, RowsRest, WorldRests DEF rows
  <1>3. /\ Id(p) \in Steps /\ HasRow(Id(p)) /\ Id(p)[1] = call[p].item /\ Id(p)[2] = Min(Due(p))
        /\ Id(p)[2] \in 1..MaxSteps
        /\ Tried(p) \in StepRow /\ Tried(p).status = "queued" /\ Tried(p) = ReadAs(p, Id(p))
    BY <1>1, NextDue
  <1>4. Id(p)[2] \in 0..MaxSteps /\ pc \in Pcs
    BY <1>3, InterventionsAssumption DEF Pcs
  <1>5. Min(Due(p)) \in 0..MaxSteps
    BY <1>3, <1>4
  <1>6. /\ call' \in [Calls -> Call] /\ KeepsBatch(p) /\ Others(p)
        /\ call'[p].pc = pc /\ call'[p].slot = Id(p)[2] /\ call'[p].directed = call[p].directed
    BY <1>1, <1>3, <1>4, <1>5, SteppedTo
  <1>7. Here(p)' = Id(p) /\ Mine(p)' = Tried(p)
    BY <1>3, <1>6 DEF Here, Id, Mine, Read, ReadAs, KeepsBatch
  <1>8. HasRow(Here(p))'
    BY <1>2, <1>3, <1>7 DEF HasRow
  <1>9. HandInv(p)'
    BY <1>3, <1>6, <1>7, <1>8 DEF HandInv, InHand
  <1>10. CallInv(p)'
    BY <1>1, <1>2, <1>6, <1>9, CallInvGoesOn DEF RowsGo, AtItem
  <1>11. QED
    BY <1>2, <1>6, <1>10 DEF Goes

LEMMA TryTravelGoes ==
    ASSUME Inv, NEW p \in Calls, TryTravel(p)
    PROVE  Goes(p)
  <1> DEFINE c == Tried(p).actor
             to == Tried(p).to
             version == Tried(p).version
  <1>1. TypeOK /\ RowsInv /\ NothingForgotten /\ CallInv(p)
    BY DEF Inv
  <1>2. call[p].pc = "step" /\ Due(p) # {} /\ UNCHANGED <<item, world>>
    BY DEF TryTravel, Trying, At
  <1>3. /\ Id(p) \in Steps /\ HasRow(Id(p)) /\ Id(p)[1] = call[p].item
        /\ Id(p)[1] \in Items /\ Id(p)[2] \in 1..MaxSteps
        /\ Tried(p) \in StepRow /\ Tried(p).status = "queued" /\ Tried(p) = ReadAs(p, Id(p))
        /\ Follows(Tried(p), Of(Id(p)))
    BY <1>1, <1>2, NextDue
  <1>4. WorldTyped'
    BY <1>1, <1>2, WorldRests
  <1>5. ASSUME Fresh(Id(p), version), SaveStep(Id(p), "completed"),
               Marking(p, Id(p)[2], version + 1, "completed")
        PROVE  Goes(p)
    <2>1. Of(Id(p)).status = "queued"
      BY <1>3, <1>5 DEF Follows, Fresh, Of
    <2>2. RowsGo
      BY <1>1, <1>2, <1>3, <1>5, <2>1, RowsSaved
    <2>3. version \in Nat /\ version + 1 \in Nat /\ Id(p)[2] \in 0..MaxSteps /\ "completed" \in ItemStatus
      BY <1>3, InterventionsAssumption DEF StepRow, ItemStatus
    <2> HIDE DEF version
    <2>4. /\ call' \in [Calls -> Call] /\ KeepsBatch(p) /\ Others(p)
          /\ call'[p].pc = "mark" /\ call'[p].slot = Id(p)[2] /\ call'[p].version = version + 1
          /\ call'[p].mark = "completed" /\ call'[p].directed = call[p].directed
      BY <1>1, <1>5, <2>3, Marked
    <2>5. HandInv(p)'
      BY <1>3, <1>5, <2>3, <2>4, MarksWhatIsSaved
    <2>6. CallInv(p)'
      BY <1>1, <1>2, <2>2, <2>4, <2>5, CallInvGoesOn DEF RowsGo, AtItem
    <2>7. QED
      BY <1>4, <2>2, <2>4, <2>6 DEF Goes
  <1>6. ASSUME Ends(p), UNCHANGED row
        PROVE  Goes(p)
    <2>1. RowsGo
      BY <1>1, <1>2, <1>6, RowsRest, WorldRests DEF rows
    <2>2. QED
      BY <1>4, <1>6, <2>1, EndedGoes DEF Goes
  <1>7. ASSUME ToStep(p, "start"), UNCHANGED row
        PROVE  Goes(p)
    BY <1>2, <1>7, ToStepGoes DEF rows
  <1>8. ASSUME ToMark(p, "failed"), UNCHANGED row
        PROVE  Goes(p)
    BY <1>1, <1>2, <1>4, <1>8, ToMarkGoes, WorldRests DEF rows
  <1>9. QED
    BY <1>5, <1>6, <1>7, <1>8 DEF TryTravel, Trying

LEMMA TookEffect ==
    ASSUME TypeOK, NEW s \in Steps, HasRow(s), Took(s)
    PROVE  /\ applied' \in [Steps -> Nat] /\ applied'[s] = applied[s] + 1
           /\ \A t \in Steps : t # s => applied'[t] = applied[t]
           /\ \A t \in Steps : ~HasRow(t) => applied'[t] = applied[t]
  <1>1. applied' = [applied EXCEPT ![s] = @ + 1] /\ applied \in [Steps -> Nat]
    BY DEF Took, TypeOK
  <1>2. applied'[s] = applied[s] + 1 /\ \A t \in Steps : t # s => applied'[t] = applied[t]
    BY <1>1
  <1>3. QED
    BY <1>1, <1>2

LEMMA AddActivityType ==
    ASSUME TypeOK, NEW c \in Actors, NEW to \in Places \cup {Nowhere},
           NEW by \in Steps \cup {Elsewhere}, AddActivity(c, to, by)
    PROVE  /\ active' \in [Actors -> SUBSET Activity]
           /\ active'[c] = active[c] \cup {[to |-> to, by |-> by]}
           /\ \A d \in Actors : d # c => active'[d] = active[d]
  <1>1. [to |-> to, by |-> by] \in Activity
    BY DEF Activity
  <1>2. active' = [active EXCEPT ![c] = @ \cup {[to |-> to, by |-> by]}]
        /\ active \in [Actors -> SUBSET Activity]
    BY DEF AddActivity, TypeOK
  <1>3. QED
    BY <1>1, <1>2

LEMMA StartTravelGoes ==
    ASSUME Inv, NEW p \in Calls, StartTravel(p)
    PROVE  Goes(p)
  <1>1. TypeOK /\ RowsInv /\ NothingForgotten /\ CallInv(p)
    BY DEF Inv
  <1>2. call[p].pc = "start" /\ UNCHANGED <<rows, place, called>>
    BY DEF StartTravel, At
  <1>3. /\ Here(p) \in Steps /\ HasRow(Here(p)) /\ Mine(p) \in StepRow /\ Mine(p).status = "queued"
    BY <1>1, <1>2, StepInHand DEF InHand
  <1>4. /\ applied' \in [Steps -> Nat] /\ \A t \in Steps : ~HasRow(t) => applied'[t] = applied[t]
    BY <1>1, <1>3, TookEffect DEF StartTravel
  <1>5. active' \in [Actors -> SUBSET Activity]
    BY <1>1, <1>3, AddActivityType DEF StartTravel, StepRow
  <1>6. WorldTyped' /\ WorldOnRows
    BY <1>1, <1>2, <1>4, <1>5 DEF WorldTyped, WorldOnRows, TypeOK
  <1>7. RowsGo /\ row' = row
    BY <1>1, <1>2, <1>6, RowsRest DEF rows
  <1>8. /\ call' \in [Calls -> Call] /\ KeepsBatch(p) /\ Others(p)
        /\ call'[p].pc = "started" /\ call'[p].slot = call[p].slot
        /\ call'[p].directed = call[p].directed
    BY <1>1, WentTo DEF StartTravel, Pcs
  <1>9. Here(p)' = Here(p) /\ Mine(p)' = Mine(p)
    BY <1>8 DEF Here, Mine, Read, KeepsBatch
  <1>10. HandInv(p)'
    BY <1>3, <1>7, <1>8, <1>9 DEF HandInv, InHand, HasRow
  <1>11. CallInv(p)'
    BY <1>1, <1>2, <1>7, <1>8, <1>10, CallInvGoesOn DEF RowsGo, AtItem
  <1>12. QED
    BY <1>6, <1>7, <1>8, <1>11 DEF Goes

LEMMA SaveTravelGoes ==
    ASSUME Inv, NEW p \in Calls, SaveTravel(p)
    PROVE  Goes(p)
  <1> DEFINE version == Mine(p).version
  <1>1. TypeOK /\ RowsInv /\ NothingForgotten /\ CallInv(p)
    BY DEF Inv
  <1>2. call[p].pc = "started" /\ UNCHANGED <<item, world>>
    BY DEF SaveTravel, At
  <1>3. /\ Here(p) \in Steps /\ HasRow(Here(p)) /\ Here(p)[1] = call[p].item
        /\ Here(p)[2] = call[p].slot
        /\ Mine(p) \in StepRow /\ Mine(p).status = "queued" /\ Mine(p) = ReadAs(p, Here(p))
        /\ Follows(Mine(p), Of(Here(p)))
    BY <1>1, <1>2, StepInHand DEF InHand
  <1>4. WorldTyped'
    BY <1>1, <1>2, WorldRests
  <1>5. ASSUME Fresh(Here(p), version), SaveStep(Here(p), "completed"),
               Marking(p, call[p].slot, version + 1, "completed")
        PROVE  Goes(p)
    <2>1. Of(Here(p)).status = "queued"
      BY <1>3, <1>5 DEF Follows, Fresh, Of
    <2>2. RowsGo
      BY <1>1, <1>2, <1>3, <1>5, <2>1, RowsSaved
    <2>3. version \in Nat /\ version + 1 \in Nat /\ call[p].slot \in 0..MaxSteps
          /\ "completed" \in ItemStatus
      BY <1>1, <1>3, CallTypes DEF StepRow, ItemStatus
    <2> HIDE DEF version
    <2>4. /\ call' \in [Calls -> Call] /\ KeepsBatch(p) /\ Others(p)
          /\ call'[p].pc = "mark" /\ call'[p].slot = call[p].slot /\ call'[p].version = version + 1
          /\ call'[p].mark = "completed" /\ call'[p].directed = call[p].directed
      BY <1>1, <1>5, <2>3, Marked
    <2>5. HandInv(p)'
      BY <1>3, <1>5, <2>3, <2>4, MarksWhatIsSaved
    <2>6. CallInv(p)'
      BY <1>1, <1>2, <2>2, <2>4, <2>5, CallInvGoesOn DEF RowsGo, AtItem
    <2>7. QED
      BY <1>4, <2>2, <2>4, <2>6 DEF Goes
  <1>6. ASSUME Ends(p), UNCHANGED row
        PROVE  Goes(p)
    <2>1. RowsGo
      BY <1>1, <1>2, <1>6, RowsRest, WorldRests DEF rows
    <2>2. QED
      BY <1>4, <1>6, <2>1, EndedGoes DEF Goes
  <1>7. QED
    BY <1>5, <1>6 DEF SaveTravel

LEMMA FileAttemptGoes ==
    ASSUME Inv, NEW p \in Calls, FileAttempt(p)
    PROVE  Goes(p)
  <1>1. TypeOK /\ RowsInv /\ NothingForgotten /\ CallInv(p)
    BY DEF Inv
  <1>2. call[p].pc = "step" /\ Due(p) # {} /\ UNCHANGED <<rows, world>>
    BY DEF FileAttempt, Trying, At
  <1>3. WorldTyped' /\ WorldOnRows
    BY <1>1, <1>2, WorldRests
  <1>4. ASSUME ToMark(p, "failed")
        PROVE  Goes(p)
    BY <1>2, <1>3, <1>4, ToMarkGoes
  <1> DEFINE s == Id(p)
             version == Tried(p).version
             c == [call[p] EXCEPT !.pc = "mark", !.slot = s[2], !.version = version,
                                  !.mark = "completed", !.directed = @ \cup {s}]
  <1>5. ASSUME call' = [call EXCEPT ![p].pc = "mark", ![p].slot = Id(p)[2],
                                    ![p].version = Tried(p).version, ![p].mark = "completed",
                                    ![p].directed = @ \cup {Id(p)}]
        PROVE  Goes(p)
    <2>1. /\ s \in Steps /\ HasRow(s) /\ s[2] \in 1..MaxSteps /\ s[1] \in call[p].batch
          /\ Tried(p) \in StepRow
      BY <1>1, <1>2, NextDue
    <2>2. RowsGo /\ row' = row
      BY <1>1, <1>2, <1>3, RowsRest DEF rows
    <2>3. call \in [Calls -> Call] /\ call[p] \in Call
      BY <1>1, CallTypes
    <2>4. version \in Nat /\ s[2] \in 0..MaxSteps
      BY <2>1, InterventionsAssumption DEF StepRow
    <2>5. call' = [call EXCEPT ![p] = c]
      BY <1>5, <2>3
    <2> HIDE DEF s, version
    <2>6. c \in Call
      BY <2>1, <2>3, <2>4 DEF Call, Pcs, ItemStatus
    <2>7. /\ c.pc = "mark" /\ c.slot = s[2] /\ c.version = version /\ c.mark = "completed"
          /\ c.todo = call[p].todo /\ c.batch = call[p].batch /\ c.rows = call[p].rows
          /\ c.busy = call[p].busy /\ c.item = call[p].item /\ c.request = call[p].request
          /\ c.directed = call[p].directed \cup {s}
      BY <2>3 DEF Call
    <2> HIDE DEF c
    <2>8. call' \in [Calls -> Call] /\ call'[p] = c /\ Others(p)
      BY <1>1, <2>5, <2>6, Becomes DEF Others
    <2>9. KeepsBatch(p)
      BY <2>7, <2>8 DEF KeepsBatch
    <2>10. HandInv(p)'
      BY <1>2, <2>2, <2>7, <2>8, <2>9, MarksWhatIsDue DEF s, version
    <2>11. \A t \in call'[p].directed : t \in call[p].directed \/ t = s
      BY <2>7, <2>8
    <2>12. CallInv(p)'
      BY <1>1, <1>2, <2>1, <2>2, <2>7, <2>8, <2>9, <2>10, <2>11, CallInvGoesOn DEF RowsGo, AtItem
    <2>13. QED
      BY <1>3, <2>2, <2>8, <2>12 DEF Goes
  <1>6. QED
    BY <1>4, <1>5 DEF FileAttempt

LEMMA OverrideGoes ==
    ASSUME Inv, NEW p \in Calls, Override(p)
    PROVE  Goes(p)
  <1>1. TypeOK /\ CallInv(p) /\ call[p].pc = "step" /\ Due(p) # {} /\ UNCHANGED <<rows, active, place, called>>
    BY DEF Inv, Override, Trying, At
  <1>2. ASSUME Took(Id(p)), ToMark(p, "completed")
        PROVE  Goes(p)
    <2>1. Id(p) \in Steps /\ HasRow(Id(p))
      BY <1>1, NextDue
    <2>2. /\ applied' \in [Steps -> Nat] /\ \A t \in Steps : ~HasRow(t) => applied'[t] = applied[t]
      BY <1>1, <1>2, <2>1, TookEffect
    <2>3. WorldTyped' /\ WorldOnRows
      BY <1>1, <2>2 DEF WorldTyped, WorldOnRows, TypeOK
    <2>4. QED
      BY <1>1, <1>2, <2>3, ToMarkGoes
  <1>3. ASSUME ToMark(p, "failed"), UNCHANGED applied
        PROVE  Goes(p)
    <2>1. WorldTyped' /\ WorldOnRows
      BY <1>1, <1>3, WorldRests DEF world
    <2>2. QED
      BY <1>1, <1>3, <2>1, ToMarkGoes
  <1>4. QED
    BY <1>2, <1>3 DEF Override

LEMMA HookGoes ==
    ASSUME Inv, NEW p \in Calls, Hook(p)
    PROVE  Goes(p)
  <1>1. TypeOK /\ CallInv(p) /\ call[p].pc = "step" /\ Due(p) # {} /\ UNCHANGED <<rows, active, place>>
    BY DEF Inv, Hook, Trying, At
  <1>2. ASSUME NEW mark \in {"completed", "failed"}, ToMark(p, mark), UNCHANGED <<called, applied>>
        PROVE  Goes(p)
    <2>1. WorldTyped' /\ WorldOnRows
      BY <1>1, <1>2, WorldRests DEF world
    <2>2. QED
      BY <1>1, <1>2, <2>1, ToMarkGoes
  <1>3. ASSUME ToMark(p, "completed"), AddRow(Id(p))
        PROVE  Goes(p)
    <2>1. Id(p) \in Steps /\ HasRow(Id(p)) /\ Took(Id(p)) /\ called' = called \cup {Id(p)}
      BY <1>1, <1>3, NextDue DEF AddRow
    <2>2. /\ applied' \in [Steps -> Nat] /\ \A t \in Steps : ~HasRow(t) => applied'[t] = applied[t]
      BY <1>1, <2>1, TookEffect
    <2>3. WorldTyped' /\ WorldOnRows
      BY <1>1, <2>1, <2>2 DEF WorldTyped, WorldOnRows, TypeOK
    <2>4. QED
      BY <1>1, <1>3, <2>3, ToMarkGoes
  <1>4. QED
    BY <1>2, <1>3 DEF Hook

LEMMA LookUpConditionGoes ==
    ASSUME Inv, NEW p \in Calls, LookUpCondition(p)
    PROVE  Goes(p)
  <1>1. TypeOK /\ call[p].pc = "step" /\ Due(p) # {} /\ UNCHANGED <<rows, world>>
    BY DEF Inv, LookUpCondition, Trying, At
  <1>2. WorldTyped' /\ WorldOnRows
    BY <1>1, WorldRests
  <1>3. ASSUME ToMark(p, "completed")
        PROVE  Goes(p)
    BY <1>1, <1>2, <1>3, ToMarkGoes
  <1>4. ASSUME ToStep(p, "create")
        PROVE  Goes(p)
    BY <1>1, <1>4, ToStepGoes
  <1>5. QED
    BY <1>3, <1>4 DEF LookUpCondition

LEMMA CreateConditionGoes ==
    ASSUME Inv, NEW p \in Calls, CreateCondition(p)
    PROVE  Goes(p)
  <1>1. TypeOK /\ RowsInv /\ NothingForgotten /\ CallInv(p) /\ call[p].pc = "create"
        /\ UNCHANGED <<rows, active, place>> /\ Took(Here(p)) /\ called' = called \cup {Here(p)}
    BY DEF Inv, CreateCondition, At, AddRow
  <1>2. /\ Here(p) \in Steps /\ HasRow(Here(p)) /\ Mine(p) \in StepRow /\ Mine(p).status = "queued"
        /\ Follows(Mine(p), Of(Here(p)))
    BY <1>1, StepInHand DEF InHand
  <1>3. /\ applied' \in [Steps -> Nat] /\ \A t \in Steps : ~HasRow(t) => applied'[t] = applied[t]
    BY <1>1, <1>2, TookEffect
  <1>4. WorldTyped' /\ WorldOnRows
    BY <1>1, <1>2, <1>3 DEF WorldTyped, WorldOnRows, TypeOK
  <1>5. RowsGo /\ row' = row
    BY <1>1, <1>4, RowsRest DEF rows
  <1>6. Mine(p).version \in Nat /\ call[p].slot \in 0..MaxSteps /\ "completed" \in ItemStatus
    BY <1>1, <1>2, CallTypes DEF StepRow, ItemStatus
  <1>7. /\ call' \in [Calls -> Call] /\ KeepsBatch(p) /\ Others(p)
        /\ call'[p].pc = "mark" /\ call'[p].slot = call[p].slot /\ call'[p].version = Mine(p).version
        /\ call'[p].mark = "completed" /\ call'[p].directed = call[p].directed
    BY <1>1, <1>6, Marked DEF CreateCondition
  <1>8. Here(p)' = Here(p) /\ Mine(p)' = Mine(p)
    BY <1>7 DEF Here, Mine, Read, KeepsBatch
  <1>9. HasRow(Here(p))' /\ Of(Here(p))' = Of(Here(p))
    BY <1>2, <1>5, <1>8 DEF HasRow, Of
  <1>10. HandInv(p)'
    BY <1>2, <1>7, <1>8, <1>9 DEF HandInv, InHand, Follows
  <1>11. CallInv(p)'
    BY <1>1, <1>5, <1>7, <1>10, CallInvGoesOn DEF RowsGo, AtItem
  <1>12. QED
    BY <1>4, <1>5, <1>7, <1>11 DEF Goes

LEMMA MarkGoes ==
    ASSUME Inv, NEW p \in Calls, Mark(p)
    PROVE  Goes(p)
  <1>1. TypeOK /\ RowsInv /\ NothingForgotten /\ CallInv(p) /\ call[p].pc = "mark"
        /\ UNCHANGED <<item, world>>
    BY DEF Inv, Mark, At
  <1>2. WorldTyped' /\ WorldOnRows
    BY <1>1, WorldRests
  <1>3. ASSUME Fresh(Here(p), call[p].version), SaveStep(Here(p), call[p].mark),
               call' = [call EXCEPT ![p].pc = "step", ![p].version = 0, ![p].mark = "queued"]
        PROVE  Goes(p)
    <2> DEFINE c == [call[p] EXCEPT !.pc = "step", !.version = 0, !.mark = "queued"]
    <2>1. Here(p) \in Steps /\ HasRow(Here(p))
      BY <1>1, StepInHand DEF InHand
    <2>2. /\ call[p].mark \in {"completed", "failed"}
          /\ \/ Of(Here(p)).status = "queued"
             \/ Of(Here(p)).status = "completed" /\ call[p].mark = "completed"
      <3>1. call[p].version = Of(Here(p)).version
        BY <1>3 DEF Fresh, Of
      <3>2. QED
        BY <1>1, <3>1 DEF CallInv, HandInv
    <2>3. RowsGo
      BY <1>1, <1>3, <2>1, <2>2, RowsSaved
    <2>4. call \in [Calls -> Call] /\ call[p] \in Call
      BY <1>1, CallTypes
    <2>5. call' = [call EXCEPT ![p] = c]
      BY <1>3, <2>4
    <2>6. c \in Call
      BY <2>4 DEF Call, Pcs, ItemStatus
    <2>7. /\ c.pc = "step" /\ c.directed = call[p].directed
          /\ c.todo = call[p].todo /\ c.batch = call[p].batch /\ c.rows = call[p].rows
          /\ c.busy = call[p].busy /\ c.item = call[p].item /\ c.request = call[p].request
      BY <2>4 DEF Call
    <2> HIDE DEF c
    <2>8. call' \in [Calls -> Call] /\ call'[p] = c /\ Others(p)
      BY <1>1, <2>5, <2>6, Becomes DEF Others
    <2>9. KeepsBatch(p)
      BY <2>7, <2>8 DEF KeepsBatch
    <2>10. HandInv(p)'
      BY <2>7, <2>8 DEF HandInv, InHand
    <2>11. CallInv(p)'
      BY <1>1, <2>3, <2>7, <2>8, <2>9, <2>10, CallInvGoesOn DEF RowsGo, AtItem
    <2>12. QED
      BY <1>2, <2>3, <2>8, <2>11 DEF Goes
  <1>4. ASSUME Ends(p), UNCHANGED row
        PROVE  Goes(p)
    <2>1. RowsGo
      BY <1>1, <1>2, <1>4, RowsRest DEF rows
    <2>2. QED
      BY <1>2, <1>4, <2>1, EndedGoes DEF Goes
  <1>5. QED
    BY <1>3, <1>4 DEF Mark

LEMMA OutcomeVerdict ==
    ASSUME TypeOK, NEW i \in Items
    PROVE  Verdict(i, Outcome(i))
  <1> DEFINE states == {row[i][k].status : k \in DOMAIN row[i]}
  <1>1. \A k \in DOMAIN row[i] : row[i][k].status \in states
    OBVIOUS
  <1>2. Outcome(i) = IF "queued" \in states THEN "executing"
                     ELSE IF states \subseteq {"completed"} THEN "completed"
                     ELSE IF "completed" \in states THEN "partially_completed" ELSE "failed"
    BY DEF Outcome
  <1> HIDE DEF states
  <1>3. QED
    BY <1>1, <1>2 DEF Verdict

LEMMA FinishReadGoes ==
    ASSUME Inv, NEW p \in Calls, FinishRead(p)
    PROVE  Goes(p)
  <1> DEFINE mark == Outcome(call[p].item)
             c == [call[p] EXCEPT !.pc = "finish", !.mark = mark]
  <1>1. TypeOK /\ RowsInv /\ NothingForgotten /\ CallInv(p) /\ call[p].pc = "step"
        /\ UNCHANGED <<rows, world>>
    BY DEF Inv, FinishRead, At
  <1>2. WorldTyped' /\ RowsGo /\ row' = row
    BY <1>1, WorldRests, RowsRest DEF rows
  <1>3. call[p].item \in Items
    BY <1>1, CallTypes DEF CallInv, BatchInv, AtItem
  <1>4. Verdict(call[p].item, mark)
    BY <1>1, <1>3, OutcomeVerdict
  <1>5. mark \in ItemStatus
    BY <1>4 DEF Verdict, ItemStatus
  <1>6. call \in [Calls -> Call] /\ call[p] \in Call
    BY <1>1, CallTypes
  <1>7. call' = [call EXCEPT ![p] = c]
    BY <1>6 DEF FinishRead
  <1> HIDE DEF mark
  <1>8. c \in Call
    BY <1>5, <1>6 DEF Call, Pcs
  <1>9. /\ c.pc = "finish" /\ c.mark = mark /\ c.directed = call[p].directed
        /\ c.todo = call[p].todo /\ c.batch = call[p].batch /\ c.rows = call[p].rows
        /\ c.busy = call[p].busy /\ c.item = call[p].item /\ c.request = call[p].request
    BY <1>6 DEF Call
  <1> HIDE DEF c
  <1>10. call' \in [Calls -> Call] /\ call'[p] = c /\ Others(p)
    BY <1>1, <1>7, <1>8, Becomes DEF Others
  <1>11. KeepsBatch(p)
    BY <1>9, <1>10 DEF KeepsBatch
  <1>12. HandInv(p)'
    BY <1>2, <1>4, <1>9, <1>10 DEF HandInv, InHand, Verdict
  <1>13. CallInv(p)'
    BY <1>1, <1>2, <1>9, <1>10, <1>11, <1>12, CallInvGoesOn DEF RowsGo, AtItem
  <1>14. QED
    BY <1>2, <1>10, <1>13 DEF Goes

LEMMA CompletePhaseGoes ==
    ASSUME Inv, NEW p \in Calls, NEW ends \in BOOLEAN, CompletePhase(p, ends)
    PROVE  Goes(p)
  <1>1. TypeOK /\ RowsInv /\ NothingForgotten /\ CallInv(p) /\ UNCHANGED <<rows, called>> /\ Ends(p)
        /\ call[p].directed \subseteq Steps
    BY CallTypes DEF Inv, CompletePhase
  <1>2. /\ applied' \in [Steps -> Nat]
        /\ \A t \in Steps : ~HasRow(t) => applied'[t] = applied[t]
    BY <1>1 DEF CompletePhase, TypeOK, CallInv, BatchInv
  <1>3. active' \in [Actors -> SUBSET Activity]
    BY <1>1 DEF CompletePhase, TypeOK
  <1>4. place' \in [Actors -> Places]
    <2> SUFFICES ASSUME NEW c \in Actors, \E a \in active[c] : <<place[c], a.to>> \in Roads
                 PROVE  (CHOOSE a \in active[c] : <<place[c], a.to>> \in Roads).to \in Places
      BY <1>1 DEF CompletePhase, TypeOK
    <2> DEFINE a == CHOOSE a \in active[c] : <<place[c], a.to>> \in Roads
    <2>1. a \in active[c] /\ <<place[c], a.to>> \in Roads
      OBVIOUS
    <2> HIDE DEF a
    <2>2. a.to \in Places
      BY <2>1, InterventionsAssumption
    <2>3. QED
      BY <2>2 DEF a
  <1>5. WorldTyped' /\ WorldOnRows
    BY <1>1, <1>2, <1>3, <1>4 DEF WorldTyped, WorldOnRows, TypeOK
  <1>6. RowsGo
    BY <1>1, <1>5, RowsRest
  <1>7. QED
    BY <1>1, <1>5, <1>6, EndedGoes DEF Goes

LEMMA EndsWithoutEffect ==
    ASSUME Inv, NEW p \in Calls, Ends(p), UNCHANGED <<rows, world>>
    PROVE  Goes(p)
  <1>1. WorldTyped' /\ RowsGo
    BY WorldRests, RowsRest DEF Inv
  <1>2. QED
    BY <1>1, EndedGoes DEF Goes

LEMMA BeginGoes ==
    ASSUME Inv, NEW p \in Calls, NEW request \in {"next", "other"}, Begin(p, request)
    PROVE  Goes(p)
  <1> DEFINE c == [call[p] EXCEPT !.pc = "claim", !.request = request]
  <1>1. TypeOK /\ RowsInv /\ NothingForgotten /\ CallInv(p) /\ call[p].pc = "idle"
        /\ UNCHANGED <<rows, world>>
    BY DEF Inv, Begin, At
  <1>2. WorldTyped' /\ RowsGo
    BY <1>1, WorldRests, RowsRest
  <1>3. call \in [Calls -> Call] /\ call[p] \in Call
    BY <1>1, CallTypes
  <1>4. call' = [call EXCEPT ![p] = c]
    BY <1>3 DEF Begin
  <1>5. c \in Call
    BY <1>3 DEF Call, Pcs
  <1>6. c.pc = "claim" /\ c.directed = call[p].directed /\ c.todo = call[p].todo
        /\ c.batch = call[p].batch
    BY <1>3 DEF Call
  <1> HIDE DEF c
  <1>7. call' \in [Calls -> Call] /\ call'[p] = c /\ Others(p)
    BY <1>1, <1>4, <1>5, Becomes DEF Others
  <1>8. CallInv(p)'
    BY <1>1, <1>6, <1>7 DEF CallInv, BatchInv, HandInv, Reading, AtItem, InHand
  <1>9. QED
    BY <1>2, <1>7, <1>8 DEF Goes

LEMMA CallStepGoes ==
    ASSUME Inv, NEW p \in Calls, CallStep(p)
    PROVE  Goes(p)
  <1>1. NoPhase(p) => Goes(p)
    BY EndsWithoutEffect DEF NoPhase
  <1>2. QED
    BY <1>1, ClaimGoes, ReadActivesGoes, TryTravelGoes, StartTravelGoes, SaveTravelGoes,
       FileAttemptGoes, OverrideGoes, HookGoes, LookUpConditionGoes, CreateConditionGoes,
       MarkGoes, FinishReadGoes, FinishWriteGoes, CompletePhaseGoes DEF CallStep

-----------------------------------------------------------------------------
\* Steps of clients.
GoesBeside == RowsGo /\ WorldTyped' /\ UNCHANGED call

LEMMA ClientGoes ==
    ASSUME Inv
    PROVE  /\ \A i \in Items : Submit(i) \/ Edit(i) \/ Cancel(i) => GoesBeside
           /\ \A c \in Actors : StartElsewhere(c) => GoesBeside
  <1>1. TypeOK /\ RowsInv /\ NothingForgotten
    BY DEF Inv
  <1>2. ASSUME NEW i \in Items, Submit(i) PROVE GoesBeside
    BY <1>1, <1>2, RowsSubmitted, WorldRests DEF GoesBeside, Submit
  <1>3. ASSUME NEW i \in Items, Edit(i) PROVE GoesBeside
    BY <1>1, <1>3, RowsEdited, WorldRests DEF GoesBeside, Edit, Command
  <1>4. ASSUME NEW i \in Items, Cancel(i) PROVE GoesBeside
    BY <1>1, <1>4, RowsCancelled, WorldRests DEF GoesBeside, Cancel, Command
  <1>5. ASSUME NEW c \in Actors, StartElsewhere(c) PROVE GoesBeside
    <2>1. active' \in [Actors -> SUBSET Activity]
      BY <1>1, <1>5, AddActivityType DEF StartElsewhere
    <2>2. WorldTyped' /\ WorldOnRows
      BY <1>1, <1>5, <2>1 DEF StartElsewhere, WorldTyped, WorldOnRows, TypeOK
    <2>3. QED
      BY <1>1, <1>5, <2>2, RowsRest DEF GoesBeside, StartElsewhere, Command
  <1>6. QED
    BY <1>2, <1>3, <1>4, <1>5

LEMMA BoundsKept ==
    ASSUME TypeOK, Next
    PROVE  overlapped' \in BOOLEAN /\ disturbances' \in 0..MaxDisturbances
  <1>1. \/ UNCHANGED bounds
        \/ Disturbance
        \/ UNCHANGED disturbances /\ \E p \in Calls : overlapped' = (overlapped \/ InProgress # {})
    BY DEF Next, Submit, Edit, Cancel, StartElsewhere, Command, CallStep, Fault, Begin, Claim,
       ReadActives, TryTravel, StartTravel, SaveTravel, FileAttempt, Override, Hook,
       LookUpCondition, CreateCondition, Mark, FinishRead, FinishWrite, CompletePhase, NoPhase
  <1>2. CASE UNCHANGED bounds
    BY <1>2 DEF TypeOK, bounds
  <1>3. CASE Disturbance
    BY <1>3, InterventionsAssumption DEF TypeOK, Disturbance
  <1>4. CASE UNCHANGED disturbances /\ \E p \in Calls : overlapped' = (overlapped \/ InProgress # {})
    <2>1. overlapped' \in BOOLEAN
      BY <1>4, Zenon
    <2>2. QED
      BY <1>4, <2>1 DEF TypeOK
  <1>5. QED
    BY <1>1, <1>2, <1>3, <1>4

\* Whatever happens, and however many requests are under way at once.
LEMMA StepInv ==
    ASSUME Inv, [Next]_vars
    PROVE  Inv' /\ AllSteady
  <1>1. CASE UNCHANGED vars
    <2>1. item' = item /\ row' = row /\ call' = call
      BY <1>1 DEF vars, rows
    <2>2. TypeOK'
      BY <1>1, <2>1 DEF Inv, TypeOK, vars, rows, world, bounds
    <2>3. RowsGo
      BY <1>1, RowsRest, WorldRests DEF vars, Inv
    <2>4. \A p \in Calls : CallInv(p)'
      BY <2>1, <2>3, CallInvKept DEF Inv, RowsGo
    <2>5. QED
      BY <2>2, <2>3, <2>4 DEF Inv, RowsGo
  <1>2. CASE Next
    <2>1. \/ GoesBeside
          \/ \E p \in Calls : Goes(p)
      <3>1. \A p \in Calls : Fault(p) => Goes(p)
        BY EndsWithoutEffect DEF Fault
      <3>2. QED
        BY <1>2, <3>1, ClientGoes, CallStepGoes, BeginGoes DEF Next
    <2>2. RowsGo /\ WorldTyped'
      BY <2>1 DEF GoesBeside, Goes
    <2>3. call' \in [Calls -> Call]
      BY <2>1 DEF GoesBeside, Goes, Inv, TypeOK
    <2>4. TypeOK'
      BY <1>2, <2>2, <2>3, BoundsKept DEF Inv, TypeOK, RowsGo, RowsTyped, WorldTyped
    <2>5. \A p \in Calls : CallInv(p)'
      BY <2>1, <2>2, CallInvKept DEF GoesBeside, Goes, Others, Inv, RowsGo
    <2>6. QED
      BY <2>2, <2>4, <2>5 DEF Inv, RowsGo
  <1>3. QED
    BY <1>1, <1>2

LEMMA InitInv == Init => Inv
  <1> SUFFICES ASSUME Init PROVE Inv
    OBVIOUS
  <1>1. <<>> \in Seq(StepRow) /\ Len(<<>>) = 0
    BY EmptySeq
  <1>2. TypeOK
    <2>1. item \in [Items -> ItemStatus] /\ row \in [Items -> Seq(StepRow)]
      BY <1>1 DEF Init, ItemStatus
    <2>2. \A i \in Items : Len(row[i]) <= MaxSteps
      BY <1>1, InterventionsAssumption DEF Init
    <2>3. call \in [Calls -> Call]
      BY IdleType DEF Init
    <2>4. /\ active \in [Actors -> SUBSET Activity] /\ place \in [Actors -> Places]
          /\ called \subseteq Steps /\ applied \in [Steps -> Nat]
          /\ overlapped \in BOOLEAN /\ disturbances \in 0..MaxDisturbances
      <3>1. active \in [Actors -> SUBSET Activity] /\ place \in [Actors -> Places]
        BY InterventionsAssumption DEF Init
      <3>2. called \subseteq Steps /\ applied \in [Steps -> Nat]
        BY DEF Init
      <3>3. overlapped \in BOOLEAN
        BY Zenon DEF Init
      <3>4. disturbances \in 0..MaxDisturbances
        BY InterventionsAssumption DEF Init
      <3>5. QED
        BY <3>1, <3>2, <3>3, <3>4
    <2>5. QED
      BY <2>1, <2>2, <2>3, <2>4 DEF TypeOK
  <1>3. RowsInv /\ NothingForgotten
    BY DEF Init, RowsInv, NothingForgotten
  <1>4. \A p \in Calls : CallInv(p)
    BY DEF Init, Idle, CallInv, BatchInv, HandInv, Reading, AtItem, InHand
  <1>5. QED
    BY <1>2, <1>3, <1>4 DEF Inv

LEMMA Invariance == Spec => []Inv
  <1>1. Inv /\ [Next]_vars => Inv'
    BY StepInv
  <1>2. QED
    BY <1>1, InitInv, PTL DEF Spec

\* Every variable keeps its type: the rows, the requests and what they hold in
\* memory (application/interventions.py, claim_for_boundary to _finish_intervention).
THEOREM InterventionsTypeCorrect == Spec => []TypeOK
  BY Invariance, PTL DEF Inv

-----------------------------------------------------------------------------
(* What is cancelled is over                                               *)

\* A call writes the items of its batch, and takes what is open into it.
Untouched(p, i) == i \notin call'[p].batch /\ item'[i] = item[i] /\ row'[i] = row[i]

LEMMA KeepsToItsBatch ==
    ASSUME Inv, NEW p \in Calls, NEW i \in Items, i \notin call[p].batch, i \notin Open,
           CallStep(p) \/ Fault(p) \/ \E request \in {"next", "other"} : Begin(p, request)
    PROVE  Untouched(p, i)
  <1>1. TypeOK /\ CallInv(p) /\ call \in [Calls -> Call] /\ call[p] \in Call
    BY CallTypes DEF Inv
  <1>2. ASSUME NEW slot, NEW version, NEW mark, Marking(p, slot, version, mark)
        PROVE  call'[p].batch = call[p].batch
    BY <1>1, <1>2 DEF Marking, Call
  <1>3. ASSUME NEW pc, ToStep(p, pc) \/ Goto(p, pc)
        PROVE  call'[p].batch = call[p].batch
    BY <1>1, <1>3 DEF ToStep, Goto, Call
  <1>4. Ends(p) => call'[p].batch = {}
    BY <1>1, Ended
  <1>5. ASSUME NEW s \in Steps, s[1] \in call[p].batch, NEW status, SaveStep(s, status)
        PROVE  row'[i] = row[i]
    BY <1>1, <1>5 DEF SaveStep, TypeOK
  <1>6. call[p].pc = "step" /\ Due(p) # {} => Id(p) \in Steps /\ Id(p)[1] \in call[p].batch
    BY <1>1, NextDue
  <1>7. call[p].pc \in InHand => Here(p) \in Steps /\ Here(p)[1] \in call[p].batch
    BY <1>1, StepInHand
  <1>8. ASSUME Claim(p) PROVE Untouched(p, i)
    <2>1. call'[p].batch = Open /\ item[i] # "queued" /\ row' = row
      BY <1>1, <1>8 DEF Claim, Call, Open
    <2>2. QED
      BY <1>8, <2>1 DEF Claim, Untouched
  <1>9. ASSUME NEW c \in Call, c.batch = call[p].batch, call' = [call EXCEPT ![p] = Onward(c)]
        PROVE  call'[p].batch = call[p].batch
    BY <1>1, <1>9, WentOnward
  <1>10. ASSUME ReadActives(p) PROVE Untouched(p, i)
    <2> DEFINE busy == {c \in Actors : active[c] # {}}
               c == [call[p] EXCEPT !.busy = busy]
    <2>1. call' = [call EXCEPT ![p] = Onward(c)]
      BY <1>1, <1>10 DEF ReadActives
    <2>2. busy \subseteq Actors
      OBVIOUS
    <2> HIDE DEF busy
    <2>3. c \in Call /\ c.batch = call[p].batch
      BY <1>1, <2>2 DEF Call
    <2> HIDE DEF c
    <2>4. QED
      BY <1>9, <1>10, <2>1, <2>3 DEF ReadActives, Untouched, rows
  <1>11. ASSUME FinishWrite(p) PROVE Untouched(p, i)
    <2>1. call' = [call EXCEPT ![p] = Onward(call[p])] /\ row' = row
      BY <1>1, <1>11 DEF FinishWrite
    <2>2. call[p].item \in call[p].batch /\ item' = [item EXCEPT ![call[p].item] = call[p].mark]
      BY <1>1, <1>11 DEF FinishWrite, Written, At, CallInv, BatchInv, AtItem
    <2>3. item'[i] = item[i]
      BY <1>1, <2>2 DEF TypeOK
    <2>4. QED
      BY <1>1, <1>9, <2>1, <2>3 DEF Untouched
  <1>12. ASSUME TryTravel(p) PROVE Untouched(p, i)
    BY <1>2, <1>3, <1>4, <1>5, <1>6, <1>12 DEF TryTravel, Trying, At, ToMark, Untouched
  <1>13. ASSUME StartTravel(p) PROVE Untouched(p, i)
    BY <1>3, <1>13 DEF StartTravel, Untouched, rows
  <1>14. ASSUME SaveTravel(p) PROVE Untouched(p, i)
    BY <1>2, <1>4, <1>5, <1>7, <1>14 DEF SaveTravel, At, InHand, Untouched
  <1>15. ASSUME FileAttempt(p) PROVE Untouched(p, i)
    <2>1. call'[p].batch = call[p].batch
      BY <1>1, <1>2, <1>15 DEF FileAttempt, ToMark, Call
    <2>2. QED
      BY <1>15, <2>1 DEF FileAttempt, Untouched, rows
  <1>16. ASSUME Override(p) \/ Hook(p) \/ LookUpCondition(p) \/ CreateCondition(p)
         PROVE  Untouched(p, i)
    BY <1>2, <1>3, <1>16 DEF Override, Hook, LookUpCondition, CreateCondition, ToMark, Untouched, rows
  <1>17. ASSUME Mark(p) PROVE Untouched(p, i)
    <2>1. Ends(p) \/ call'[p].batch = call[p].batch
      BY <1>1, <1>17 DEF Mark, Call
    <2>2. row'[i] = row[i] /\ item' = item
      BY <1>5, <1>7, <1>17 DEF Mark, At, InHand
    <2>3. QED
      BY <1>4, <2>1, <2>2 DEF Untouched
  <1>18. ASSUME FinishRead(p) \/ \E request \in {"next", "other"} : Begin(p, request)
         PROVE  Untouched(p, i)
    <2>1. call'[p].batch = call[p].batch
      BY <1>1, <1>18 DEF FinishRead, Begin, Call
    <2>2. QED
      BY <1>18, <2>1 DEF FinishRead, Begin, Untouched, rows
  <1>19. ASSUME (\E ends \in BOOLEAN : CompletePhase(p, ends)) \/ NoPhase(p) \/ Fault(p)
         PROVE  Untouched(p, i)
    BY <1>4, <1>19 DEF CompletePhase, NoPhase, Fault, Untouched, rows
  <1>20. QED
    BY <1>8, <1>10, <1>11, <1>12, <1>13, <1>14, <1>15, <1>16, <1>17, <1>18, <1>19 DEF CallStep

LEMMA CancelledStays ==
    ASSUME Inv, [Next]_vars, NEW i \in Items, item[i] = "cancelled", ~HeldByCall(i)
    PROVE  item'[i] = "cancelled" /\ row'[i] = row[i] /\ ~HeldByCall(i)'
  <1>1. i \notin Open /\ \A q \in Calls : i \notin call[q].batch
    BY DEF Open, HeldByCall
  <1>2. CASE UNCHANGED vars
    BY <1>2 DEF vars, rows, HeldByCall
  <1>3. ASSUME NEW p \in Calls,
               CallStep(p) \/ Fault(p) \/ \E request \in {"next", "other"} : Begin(p, request)
        PROVE  item'[i] = "cancelled" /\ row'[i] = row[i] /\ ~HeldByCall(i)'
    <2>1. Untouched(p, i)
      BY <1>1, <1>3, KeepsToItsBatch
    <2>2. Goes(p)
      BY <1>3, CallStepGoes, BeginGoes, EndsWithoutEffect DEF Fault
    <2>3. QED
      BY <1>1, <2>1, <2>2 DEF Untouched, Goes, Others, HeldByCall
  <1>4. ASSUME NEW j \in Items, Submit(j) \/ Edit(j) \/ Cancel(j)
        PROVE  item'[i] = "cancelled" /\ row'[i] = row[i] /\ ~HeldByCall(i)'
    <2>1. j # i /\ call' = call
      BY <1>4 DEF Submit, AddIntervention, Edit, Cancel, Command
    <2>2. item'[i] = item[i] /\ row'[i] = row[i]
      BY <1>4, <2>1 DEF Submit, AddIntervention, AddSteps, Edit, Cancel, Written, Inv, TypeOK
    <2>3. QED
      BY <1>1, <2>1, <2>2 DEF HeldByCall
  <1>5. ASSUME NEW c \in Actors, StartElsewhere(c)
        PROVE  item'[i] = "cancelled" /\ row'[i] = row[i] /\ ~HeldByCall(i)'
    BY <1>5 DEF StartElsewhere, Command, rows, HeldByCall
  <1>6. QED
    BY <1>2, <1>3, <1>4, <1>5 DEF Next

\* An item that is cancelled while no call holds it has no further effect, however
\* many requests run beside each other: no call takes it up again and nothing
\* moves it or its steps (interventions.py, cancel and list_open_for_world).
THEOREM CancelledIsOverHolds == Spec => CancelledIsOver
  <1>1. Inv /\ [Next]_vars =>
           [\A i \in Items : item[i] = "cancelled" /\ ~HeldByCall(i) =>
               item'[i] = "cancelled" /\ row'[i] = row[i] /\ ~HeldByCall(i)']_vars
    BY CancelledStays
  <1>2. QED
    BY <1>1, Invariance, PTL DEF Spec, CancelledIsOver

-----------------------------------------------------------------------------
(* Requests one after the other: what stays as it is                       *)

\* A step keeps its kind, and with it whether it is repeatable.
Stands(s) == HasRow(s)' /\ SameStep(Of(s), Of(s)') /\ (Repeats(s)' <=> Repeats(s))

LEMMA SameStepsStand ==
    ASSUME TypeOK, NEW i \in Items, DOMAIN row'[i] = DOMAIN row[i],
           \A k \in DOMAIN row[i] : SameStep(row[i][k], row'[i][k])
    PROVE  \A s \in Steps : s[1] = i /\ HasRow(s) => Stands(s)
  <1> SUFFICES ASSUME NEW s \in Steps, s[1] = i, HasRow(s) PROVE Stands(s)
    OBVIOUS
  <1> DEFINE k == s[2]
  <1>1. k \in DOMAIN row[i] /\ DOMAIN row[i] = 1..Len(row[i]) /\ Len(row[i]) \in Nat
    BY RowFacts DEF HasRow
  <1>2. 1..(k - 1) \subseteq DOMAIN row[i]
    BY <1>1
  <1>3. Before(row'[i], k) = Before(row[i], k)
    BY <1>1, <1>2 DEF Before, SameStep
  <1>4. HasRow(s)' /\ SameStep(Of(s), Of(s)')
    BY <1>1 DEF HasRow, Of
  <1>5. row'[i][k].kind = row[i][k].kind
    BY <1>1 DEF SameStep
  <1>6. Repeats(s)' <=> Repeats(s)
    BY <1>3, <1>5 DEF Repeats, Repeatable
  <1>7. QED
    BY <1>4, <1>6 DEF Stands

LEMMA RestingStands ==
    ASSUME TypeOK, UNCHANGED row, NEW s \in Steps
    PROVE  /\ HasRow(s)' <=> HasRow(s)
           /\ HasRow(s) => Stands(s) /\ Of(s)' = Of(s)
  BY DEF HasRow, Of, Stands, SameStep, Repeats, Repeatable, Before

LEMMA SavedStands ==
    ASSUME TypeOK, NEW s \in Steps, HasRow(s), NEW status \in StepStatus, SaveStep(s, status),
           NEW t \in Steps
    PROVE  /\ HasRow(t)' <=> HasRow(t)
           /\ HasRow(t) => Stands(t)
           /\ HasRow(t) /\ t # s => Of(t)' = Of(t)
           /\ Of(s)'.status = status /\ Of(s)'.version = Of(s).version + 1
  <1>1. /\ \A i \in Items : DOMAIN row'[i] = DOMAIN row[i]
        /\ Of(s)' = Stepped(Of(s), status)
        /\ \A i \in Items : \A k \in DOMAIN row[i] :
              <<i, k>> # s => row'[i][k] = row[i][k]
    BY SaveStepIs
  <1>2. /\ t[1] \in Items /\ t = <<t[1], t[2]>> /\ s[1] \in Items /\ s = <<s[1], s[2]>>
        /\ s[2] \in DOMAIN row[s[1]]
    BY DEF Steps, HasRow
  <1>3. Of(s) \in StepRow
    BY <1>2, RowFacts DEF Of
  <1>4. /\ Of(s)'.status = status /\ Of(s)'.version = Of(s).version + 1 /\ SameStep(Of(s), Of(s)')
    BY <1>1, <1>3, SteppedType
  <1>5. \A k \in DOMAIN row[t[1]] : SameStep(row[t[1]][k], row'[t[1]][k])
    <2> SUFFICES ASSUME NEW k \in DOMAIN row[t[1]]
                 PROVE  SameStep(row[t[1]][k], row'[t[1]][k])
      OBVIOUS
    <2>1. CASE <<t[1], k>> = s
      <3>1. t[1] = s[1] /\ k = s[2]
        BY <1>2, <2>1
      <3>2. QED
        BY <1>4, <3>1 DEF Of
    <2>2. CASE <<t[1], k>> # s
      BY <1>1, <1>2, <2>2 DEF SameStep
    <2>3. QED
      BY <2>1, <2>2
  <1>6. HasRow(t)' <=> HasRow(t)
    BY <1>1, <1>2 DEF HasRow
  <1>7. HasRow(t) => Stands(t)
    BY <1>1, <1>2, <1>5, SameStepsStand
  <1>8. HasRow(t) /\ t # s => Of(t)' = Of(t)
    BY <1>1, <1>2 DEF HasRow, Of
  <1>9. QED
    BY <1>4, <1>6, <1>7, <1>8

\* Nothing has happened to a step since.
Uncounted(s) == applied'[s] = applied[s] /\ (s \in called' <=> s \in called)

MoreActive == \A c \in Actors : active[c] \subseteq active'[c]

LEMMA UntakenKept ==
    ASSUME TypeOK, NEW s \in Steps, HasRow(s), Stands(s), Untaken(s), applied'[s] = applied[s],
           disturbances' \in Nat, disturbances <= disturbances',
           \/ MoreActive
           \/ Of(s).kind = "travel" /\ ~Repeats(s) => applied[s] = 0
    PROVE  Untaken(s)'
  <1>1. Of(s)'.kind = Of(s).kind /\ Of(s)'.actor = Of(s).actor /\ Of(s)'.to = Of(s).to
    BY DEF Stands, SameStep
  <1>2. Of(s).actor \in Actors /\ applied[s] \in Nat /\ disturbances \in Nat
    <2>1. s[1] \in Items /\ s[2] \in DOMAIN row[s[1]]
      BY DEF Steps, HasRow
    <2>2. Of(s) \in StepRow
      BY <2>1, RowFacts DEF Of
    <2>3. QED
      BY <2>2, InterventionsAssumption DEF StepRow, TypeOK
  <1>3. Repeats(s)' => applied'[s] <= disturbances'
    BY <1>2 DEF Untaken, Stands
  <1>4. Of(s)'.kind = "attempt" => applied'[s] = 0
    BY <1>1 DEF Untaken
  <1>5. ASSUME Of(s)'.kind = "travel", ~Repeats(s)'
        PROVE  applied'[s] = 0 \/ SameActivity(Of(s).actor, Of(s).to)'
    <2>1. applied[s] = 0 \/ SameActivity(Of(s).actor, Of(s).to)
      BY <1>1, <1>5 DEF Untaken, Stands
    <2>2. CASE applied[s] = 0
      BY <2>2
    <2>3. CASE MoreActive /\ SameActivity(Of(s).actor, Of(s).to)
      BY <1>1, <1>2, <2>3 DEF MoreActive, SameActivity
    <2>4. QED
      BY <1>1, <1>5, <2>1, <2>2, <2>3 DEF Stands
  <1>6. QED
    BY <1>3, <1>4, <1>5 DEF Untaken

LEMMA TallyKept ==
    ASSUME TypeOK, NEW s \in Steps, HasRow(s), Stands(s), Tally(s), Uncounted(s),
           disturbances' \in Nat, disturbances <= disturbances',
           Of(s)'.status = "failed" /\ ~Repeats(s) => Of(s).status = "failed" \/ applied[s] = 0
    PROVE  Tally(s)'
  <1>1. Of(s)'.kind = Of(s).kind
    BY DEF Stands, SameStep
  <1>2. applied[s] \in Nat /\ disturbances \in Nat
    BY InterventionsAssumption DEF TypeOK
  <1>3. applied'[s] <= 1 + (IF Repeats(s)' THEN disturbances' ELSE 0)
    BY <1>2 DEF Tally, Stands, Uncounted
  <1>4. Of(s)'.kind \in {"hook", "condition"} => applied'[s] = IF s \in called' THEN 1 ELSE 0
    BY <1>1 DEF Tally, Uncounted
  <1>5. Of(s)'.status = "failed" /\ ~Repeats(s)' => applied'[s] = 0
    BY DEF Tally, Stands, Uncounted
  <1>6. QED
    BY <1>3, <1>4, <1>5 DEF Tally

\* A step that is not in hand, before or after.
LEMMA Bystander ==
    ASSUME TypeOK, NEW p \in Calls, NEW s \in Steps, Facts(p, s), ~Hand(p, s), ~Hand(p, s)',
           HasRow(s)' <=> HasRow(s),
           HasRow(s) => Stands(s) /\ Of(s)' = Of(s),
           applied'[s] = applied[s], disturbances' = disturbances, MoreActive,
           Ahead(p, s)' => Ahead(p, s) /\ ReadAs(p, s)' = ReadAs(p, s),
           Ahead(p, s) /\ ~Ahead(p, s)' /\ Of(s).status = "queued" => Repeats(s),
           s \in call'[p].directed => s \in call[p].directed /\ HasRow(s)
    PROVE  Facts(p, s)'
  <1>1. disturbances' \in Nat /\ disturbances <= disturbances'
    BY InterventionsAssumption DEF TypeOK
  <1>2. HasRow(s) /\ Untaken(s) => Untaken(s)'
    BY <1>1, UntakenKept
  <1>3. AheadFacts(p, s)'
    BY <1>2 DEF Facts, AheadFacts, Ahead
  <1>4. LeftFacts(p, s)'
    <2> SUFFICES ASSUME HasRow(s), Of(s).status = "queued", ~Ahead(p, s)'
                 PROVE  Untaken(s)' /\ (Of(s).kind = "travel" /\ ~Repeats(s) => applied[s] = 0)
      BY DEF LeftFacts, Stands
    <2>1. CASE Ahead(p, s)
      <3>1. Untaken(s) /\ Repeats(s)
        BY <2>1 DEF Facts, AheadFacts
      <3>2. QED
        BY <1>2, <3>1
    <2>2. CASE ~Ahead(p, s)
      BY <1>2, <2>2 DEF Facts, LeftFacts
    <2>3. QED
      BY <2>1, <2>2
  <1>5. DirectedFacts(p, s)'
    BY DEF Facts, DirectedFacts
  <1>6. HandFacts(p, s)'
    BY DEF HandFacts
  <1>7. QED
    BY <1>3, <1>4, <1>5, <1>6 DEF Facts

-----------------------------------------------------------------------------
(* Requests one after the other: the steps of a call                       *)

AloneInv(p) ==
    /\ \A s \in Steps : HasRow(s) => Tally(s)
    /\ PastClaim(p) => \A s \in Steps : Facts(p, s)
    /\ ~PastClaim(p) => \A s \in Steps : HasRow(s) /\ Of(s).status = "queued" => Untaken(s)

\* What a step does not touch.
Beside(t) ==
    /\ HasRow(t)' <=> HasRow(t)
    /\ HasRow(t) => Stands(t) /\ Of(t)' = Of(t)
    /\ Uncounted(t)

LEMMA BesideTally ==
    ASSUME TypeOK, NEW t \in Steps, HasRow(t) => Tally(t), Beside(t), disturbances' = disturbances
    PROVE  HasRow(t)' => Tally(t)'
  <1>1. disturbances' \in Nat /\ disturbances <= disturbances'
    BY InterventionsAssumption DEF TypeOK
  <1>2. HasRow(t)' => HasRow(t) /\ Tally(t) /\ Stands(t) /\ Of(t)' = Of(t) /\ Uncounted(t)
    BY DEF Beside
  <1>3. ASSUME HasRow(t)' PROVE Tally(t)'
    <2>1. Of(t)'.status = "failed" /\ ~Repeats(t) => Of(t).status = "failed" \/ applied[t] = 0
      BY <1>2, <1>3
    <2>2. QED
      BY <1>1, <1>2, <1>3, <2>1, TallyKept
  <1>4. QED
    BY <1>3

\* A step that is ahead and not due although it is queued is a later leg.
LEMMA SkippedRepeats ==
    ASSUME Inv, NEW p \in Calls, call[p].pc = "step", NEW t \in Steps, HasRow(t),
           t[1] = call[p].item, t[2] > call[p].slot, t[2] \notin Due(p),
           Of(t).status = "queued", Facts(p, t)
    PROVE  Repeats(t)
  <1> DEFINE i == call[p].item
             k == t[2]
  <1>1. TypeOK /\ CallInv(p) /\ i \in Items /\ i \in call[p].batch
    BY CallTypes DEF Inv, CallInv, BatchInv, AtItem
  <1>2. DOMAIN call[p].rows[i] = DOMAIN row[i]
        /\ \A j \in DOMAIN row[i] : SameStep(call[p].rows[i][j], row[i][j])
    BY <1>1 DEF CallInv, BatchInv, Reading, Follows
  <1>3. k \in DOMAIN row[i] /\ DOMAIN row[i] = 1..Len(row[i]) /\ Len(row[i]) \in Nat
    BY <1>1, RowFacts DEF HasRow
  <1>4. Ahead(p, t)
    BY DEF Ahead, AtItem
  <1>5. ReadAs(p, t) = Of(t) /\ Read(p)[k].status = "queued"
    BY <1>4 DEF Facts, AheadFacts, ReadAs, Read
  <1>6. Before(Read(p), k) # {}
    BY <1>2, <1>3, <1>5 DEF Due, Read
  <1>7. 1..(k - 1) \subseteq DOMAIN row[i]
    BY <1>3
  <1>8. Before(Read(p), k) = Before(row[i], k)
    BY <1>2, <1>3, <1>7 DEF Before, SameStep, Read
  <1>9. QED
    BY <1>6, <1>8 DEF Repeats, Repeatable

LEMMA IntoHand ==
    ASSUME Inv, NEW p \in Calls, AloneInv(p), call[p].pc = "step", Due(p) # {},
           NEW s \in Steps, s = Id(p), KeepsBatch(p),
           call'[p].pc \in InHand, call'[p].slot = s[2],
           HasRow(s)' <=> HasRow(s), \A t \in Steps : t # s => Beside(t),
           disturbances' = disturbances, MoreActive,
           \A t \in call'[p].directed : t \in call[p].directed \/ t = s,
           HasRow(s) => Tally(s)',
           s \in call'[p].directed => Of(s)'.kind = "attempt" /\ applied'[s] = 0
                                      /\ call'[p].pc = "mark" /\ call'[p].mark = "completed",
           HandFacts(p, s)'
    PROVE  AloneInv(p)'
  <1>1. TypeOK /\ CallInv(p)
    BY DEF Inv
  <1>2. /\ HasRow(s) /\ s[1] = call[p].item /\ s[2] = Min(Due(p)) /\ s[2] > call[p].slot
        /\ s[2] \in 1..MaxSteps /\ s = <<s[1], s[2]>>
        /\ \A k \in Due(p) : s[2] <= k
    BY <1>1, NextDue DEF Steps
  <1>3. call[p].item \notin call[p].todo /\ call[p].slot \in Int
    BY <1>1, CallTypes, InterventionsAssumption DEF CallInv, BatchInv, AtItem
  <1>4. PastClaim(p) /\ PastClaim(p)'
    BY DEF PastClaim, InHand
  <1>5. \A t \in Steps : Facts(p, t)
    BY <1>4 DEF AloneInv
  <1>6. ASSUME NEW t \in Steps
        PROVE  /\ Hand(p, t)' <=> t = s
               /\ ~Hand(p, t)
               /\ Ahead(p, t)' => Ahead(p, t) /\ ReadAs(p, t)' = ReadAs(p, t) /\ t # s
               /\ Ahead(p, t) /\ ~Ahead(p, t)' /\ t # s /\ Of(t).status = "queued" => Repeats(t)
    <2>1. t = <<t[1], t[2]>> /\ t[2] \in Int
      BY InterventionsAssumption DEF Steps
    <2>2. Here(p)' = s
      BY <1>2 DEF Here, KeepsBatch
    <2>3. (Hand(p, t)' <=> t = s) /\ ~Hand(p, t)
      BY <2>2 DEF Hand, InHand
    <2>4. HasRow(t)' <=> HasRow(t)
      BY DEF Beside
    <2>5. Ahead(p, t) <=> HasRow(t) /\ (t[1] \in call[p].todo \/ (t[1] = call[p].item /\ t[2] > call[p].slot))
      BY DEF Ahead, AtItem
    <2>6. Ahead(p, t)' <=> HasRow(t) /\ (t[1] \in call[p].todo \/ (t[1] = call[p].item /\ t[2] > s[2]))
      BY <2>4 DEF Ahead, AtItem, InHand, KeepsBatch
    <2>7. ReadAs(p, t)' = ReadAs(p, t)
      BY DEF ReadAs, KeepsBatch
    <2>8. Ahead(p, t)' => Ahead(p, t) /\ t # s
      BY <1>2, <1>3, <2>1, <2>5, <2>6
    <2>9. ASSUME Ahead(p, t), ~Ahead(p, t)', t # s, Of(t).status = "queued"
          PROVE  Repeats(t)
      <3>1. HasRow(t) /\ t[1] = call[p].item /\ t[2] > call[p].slot /\ ~(t[2] > s[2])
        BY <2>5, <2>6, <2>9
      <3>2. t[2] # s[2]
        BY <1>2, <2>1, <2>9, <3>1
      <3>3. t[2] \notin Due(p)
        BY <1>2, <2>1, <3>1, <3>2
      <3>4. QED
        BY <1>5, <2>9, <3>1, <3>3, SkippedRepeats
    <2>10. QED
      BY <2>3, <2>7, <2>8, <2>9
  <1>7. ASSUME NEW t \in Steps, t # s
        PROVE  Facts(p, t)' /\ (HasRow(t)' => Tally(t)')
    <2>1. t \in call'[p].directed => t \in call[p].directed /\ HasRow(t)
      BY <1>1, <1>7 DEF CallInv, BatchInv
    <2>2. Facts(p, t)'
      BY <1>1, <1>5, <1>6, <1>7, <2>1, Bystander DEF Beside, Uncounted
    <2>3. QED
      BY <1>1, <1>7, <2>2, BesideTally DEF AloneInv
  <1>8. Facts(p, s)'
    <2>1. ~Ahead(p, s)' /\ Hand(p, s)'
      BY <1>6
    <2>2. DirectedFacts(p, s)'
      BY <2>1 DEF DirectedFacts
    <2>3. QED
      BY <2>1, <2>2 DEF Facts, AheadFacts, LeftFacts
  <1>9. QED
    BY <1>2, <1>4, <1>7, <1>8 DEF AloneInv

LEMMA StaysInHand ==
    ASSUME Inv, NEW p \in Calls, AloneInv(p), call[p].pc \in {"start", "started", "create"},
           NEW s \in Steps, s = Here(p), KeepsBatch(p),
           call'[p].pc \in InHand, call'[p].slot = call[p].slot,
           call'[p].directed = call[p].directed,
           HasRow(s)' <=> HasRow(s), \A t \in Steps : t # s => Beside(t),
           disturbances' = disturbances, MoreActive,
           Tally(s)', HandFacts(p, s)'
    PROVE  AloneInv(p)'
  <1>1. TypeOK /\ CallInv(p) /\ PastClaim(p) /\ PastClaim(p)'
    BY DEF Inv, PastClaim, InHand
  <1>2. \A t \in Steps : Facts(p, t)
    BY <1>1 DEF AloneInv
  <1>3. HasRow(s) /\ s[1] = call[p].item /\ s[2] = call[p].slot
    BY <1>1, StepInHand DEF InHand
  <1>4. call[p].item \notin call[p].todo /\ call[p].slot \in Int
    BY <1>1, CallTypes, InterventionsAssumption DEF CallInv, BatchInv, AtItem
  <1>5. ASSUME NEW t \in Steps
        PROVE  /\ Hand(p, t)' <=> t = s
               /\ Hand(p, t) <=> t = s
               /\ Ahead(p, t)' <=> Ahead(p, t)
               /\ ReadAs(p, t)' = ReadAs(p, t)
               /\ ~Ahead(p, s)
    <2>1. Here(p)' = Here(p)
      BY DEF Here, KeepsBatch
    <2>2. (Hand(p, t)' <=> t = s) /\ (Hand(p, t) <=> t = s)
      BY <2>1 DEF Hand, InHand
    <2>3. HasRow(t)' <=> HasRow(t)
      BY DEF Beside
    <2>4. Ahead(p, t)' <=> Ahead(p, t)
      BY <2>3 DEF Ahead, AtItem, InHand, KeepsBatch
    <2>5. QED
      BY <1>3, <1>4, <2>2, <2>4 DEF Ahead, ReadAs, KeepsBatch
  <1>6. ASSUME NEW t \in Steps, t # s
        PROVE  Facts(p, t)' /\ (HasRow(t)' => Tally(t)')
    <2>1. t \in call'[p].directed => t \in call[p].directed /\ HasRow(t)
      BY <1>1 DEF CallInv, BatchInv
    <2>2. Facts(p, t)'
      BY <1>1, <1>2, <1>5, <1>6, <2>1, Bystander DEF Beside, Uncounted
    <2>3. QED
      BY <1>1, <1>6, <2>2, BesideTally DEF AloneInv
  <1>7. Facts(p, s)'
    <2>1. ~Ahead(p, s)' /\ Hand(p, s)' /\ Hand(p, s)
      BY <1>5
    <2>2. s \notin call[p].directed
      BY <1>2, <2>1 DEF Facts, DirectedFacts
    <2>3. QED
      BY <2>1, <2>2 DEF Facts, AheadFacts, LeftFacts, DirectedFacts
  <1>8. QED
    BY <1>1, <1>6, <1>7 DEF AloneInv

\* The step that is due next, as the call finds it.
LEMMA DueFacts ==
    ASSUME Inv, NEW p \in Calls, AloneInv(p), call[p].pc = "step", Due(p) # {},
           NEW s \in Steps, s = Id(p)
    PROVE  /\ HasRow(s) /\ Tally(s) /\ Untaken(s) /\ Ahead(p, s)
           /\ Of(s) = Tried(p) \/ Of(s).status = "cancelled"
           /\ SameStep(Tried(p), Of(s)) /\ Tried(p) = ReadAs(p, s) /\ Tried(p).status = "queued"
           /\ Of(s) \in StepRow /\ Tried(p) \in StepRow /\ s \notin call[p].directed
  <1>1. TypeOK /\ CallInv(p)
    BY DEF Inv
  <1>2. /\ HasRow(s) /\ s[1] = call[p].item /\ s[2] > call[p].slot /\ s[1] \in Items
        /\ Tried(p) \in StepRow /\ Tried(p).status = "queued" /\ Tried(p) = ReadAs(p, s)
        /\ Follows(Tried(p), Of(s))
    BY <1>1, NextDue
  <1>3. Ahead(p, s)
    BY <1>2 DEF Ahead, AtItem
  <1>4. Facts(p, s) /\ Tally(s)
    BY <1>2 DEF AloneInv, PastClaim
  <1>5. Untaken(s) /\ (Of(s) = Tried(p) \/ Of(s).status = "cancelled") /\ s \notin call[p].directed
    BY <1>2, <1>3, <1>4 DEF Facts, AheadFacts, DirectedFacts
  <1>6. Of(s) \in StepRow
    BY <1>1, <1>2, RowFacts DEF Of, HasRow
  <1>7. QED
    BY <1>2, <1>3, <1>4, <1>5, <1>6 DEF Follows

LEMMA RestsBeside ==
    ASSUME TypeOK, UNCHANGED row, NEW t \in Steps, Uncounted(t)
    PROVE  Beside(t)
  BY RestingStands DEF Beside

LEMMA UntakenAtRest ==
    ASSUME TypeOK, UNCHANGED row, NEW s \in Steps, HasRow(s), Untaken(s), applied'[s] = applied[s],
           disturbances' = disturbances, MoreActive
    PROVE  Untaken(s)'
  <1>1. Stands(s)
    BY RestingStands
  <1>2. disturbances' \in Nat /\ disturbances <= disturbances'
    BY InterventionsAssumption DEF TypeOK
  <1>3. QED
    BY <1>1, <1>2, UntakenKept

\* The step that is due is marked, and its row is not written yet.
LEMMA MarkAlone ==
    ASSUME Inv, NEW p \in Calls, AloneInv(p), call[p].pc = "step", Due(p) # {},
           NEW s \in Steps, s = Id(p), KeepsBatch(p),
           call'[p].pc = "mark", call'[p].slot = s[2], call'[p].version = Tried(p).version,
           call'[p].mark \in {"completed", "failed"},
           UNCHANGED <<row, disturbances>>, MoreActive,
           \A t \in Steps : t # s => Uncounted(t),
           \A t \in call'[p].directed : t \in call[p].directed \/ t = s,
           s \in call'[p].directed => Tried(p).kind = "attempt" /\ call'[p].mark = "completed",
           Tally(s) => Tally(s)',
           Tried(p).kind = "travel" => call'[p].mark = "failed",
           call'[p].mark = "failed" => applied'[s] = applied[s] /\ (~Repeats(s) => applied[s] = 0),
           Tried(p).kind = "attempt" => applied'[s] = applied[s]
    PROVE  AloneInv(p)'
  <1>1. TypeOK
    BY DEF Inv
  <1>2. /\ HasRow(s) /\ Tally(s) /\ Untaken(s) /\ Ahead(p, s)
        /\ Of(s) = Tried(p) \/ Of(s).status = "cancelled"
        /\ SameStep(Tried(p), Of(s)) /\ Tried(p).status = "queued"
        /\ s \notin call[p].directed
    BY DueFacts
  <1>3. (HasRow(s)' <=> HasRow(s)) /\ Stands(s) /\ Of(s)' = Of(s)
    BY <1>1, <1>2, RestingStands
  <1>4. \A t \in Steps : t # s => Beside(t)
    BY <1>1, RestsBeside
  <1>5. Tried(p).kind = "attempt" => applied[s] = 0
    BY <1>2 DEF Untaken, SameStep
  <1>6. call'[p].mark = "failed" => Untaken(s)'
    BY <1>1, <1>2, UntakenAtRest
  <1>7. HandFacts(p, s)'
    <2>1. /\ Of(s)'.status \in {"queued", "completed", "cancelled"}
          /\ Of(s)'.status = "queued" => call'[p].version = Of(s)'.version
          /\ Of(s)'.status = "completed" => call'[p].mark = "completed"
      BY <1>2, <1>3
    <2>2. Of(s)'.status = "queued" /\ Of(s)'.kind = "travel" => call'[p].mark = "failed"
      BY <1>2, <1>3 DEF SameStep
    <2>3. call'[p].mark = "failed" => Untaken(s)' /\ (~Repeats(s)' => applied'[s] = 0)
      BY <1>3, <1>6 DEF Stands
    <2>4. Of(s)'.kind = "attempt" => applied'[s] = 0
      BY <1>2, <1>3, <1>5 DEF SameStep
    <2>5. QED
      BY <2>1, <2>2, <2>3, <2>4 DEF HandFacts
  <1>8. s \in call'[p].directed => Of(s)'.kind = "attempt" /\ applied'[s] = 0
                                   /\ call'[p].pc = "mark" /\ call'[p].mark = "completed"
    BY <1>2, <1>3, <1>5 DEF SameStep
  <1>9. call'[p].pc \in InHand
    BY DEF InHand
  <1>10. QED
    BY <1>2, <1>3, <1>4, <1>7, <1>8, <1>9, IntoHand

\* A step saved as completed, which is to be marked so once more.
LEMMA SavedHandFacts ==
    ASSUME TypeOK, NEW p \in Calls, NEW s \in Steps, HasRow(s), Tally(s),
           SaveStep(s, "completed"), Uncounted(s), UNCHANGED disturbances,
           call'[p].pc = "mark", call'[p].mark = "completed", Of(s).kind = "travel"
    PROVE  Tally(s)' /\ HandFacts(p, s)' /\ (HasRow(s)' <=> HasRow(s))
  <1>1. /\ HasRow(s)' <=> HasRow(s)
        /\ Stands(s) /\ Of(s)'.status = "completed"
    BY SavedStands DEF StepStatus
  <1>2. disturbances' \in Nat /\ disturbances <= disturbances'
    BY InterventionsAssumption DEF TypeOK
  <1>3. Tally(s)'
    BY <1>1, <1>2, TallyKept
  <1>4. Of(s)'.kind = "travel"
    BY <1>1 DEF Stands, SameStep
  <1>5. HandFacts(p, s)'
    BY <1>1, <1>4 DEF HandFacts
  <1>6. QED
    BY <1>1, <1>3, <1>5

LEMMA SavedBeside ==
    ASSUME TypeOK, NEW s \in Steps, HasRow(s), NEW status \in StepStatus, SaveStep(s, status),
           \A t \in Steps : Uncounted(t)
    PROVE  \A t \in Steps : t # s => Beside(t)
  BY SavedStands DEF Beside

\* A call that ends leaves what is queued to the next.
LEMMA EndsAlone ==
    ASSUME Inv, NEW p \in Calls, AloneInv(p), Ends(p), UNCHANGED row,
           disturbances' \in Nat, disturbances <= disturbances',
           \A t \in Steps : Uncounted(t), MoreActive,
           \A s \in Steps : HasRow(s) /\ Of(s).status = "queued" /\ Hand(p, s) =>
               Untaken(s) \/ Untaken(s)'
    PROVE  AloneInv(p)'
  <1>1. TypeOK /\ call'[p].pc = "idle"
    BY Ended DEF Inv
  <1>2. ASSUME NEW s \in Steps, HasRow(s)'
        PROVE  Tally(s)' /\ (Of(s)'.status = "queued" => Untaken(s)')
    <2>1. HasRow(s) /\ Stands(s) /\ Of(s)' = Of(s)
      BY <1>1, <1>2, RestingStands
    <2>2. Tally(s) /\ Uncounted(s)
      BY <2>1 DEF AloneInv
    <2>3. Tally(s)'
      BY <1>1, <2>1, <2>2, TallyKept
    <2>4. ASSUME Of(s).status = "queued"
          PROVE  Untaken(s) \/ Untaken(s)'
      <3>1. CASE ~PastClaim(p)
        BY <2>1, <2>4, <3>1 DEF AloneInv
      <3>2. CASE PastClaim(p) /\ Hand(p, s)
        BY <2>1, <2>4, <3>2
      <3>3. CASE PastClaim(p) /\ ~Hand(p, s)
        BY <2>1, <2>4, <3>3 DEF AloneInv, Facts, AheadFacts, LeftFacts
      <3>4. QED
        BY <3>1, <3>2, <3>3
    <2>5. Untaken(s) => Untaken(s)'
      BY <1>1, <2>1, <2>2, UntakenKept DEF Uncounted
    <2>6. QED
      BY <2>1, <2>3, <2>4, <2>5
  <1>3. ~PastClaim(p)'
    BY <1>1 DEF PastClaim
  <1>4. QED
    BY <1>2, <1>3 DEF AloneInv

LEMMA ToMarkIs ==
    ASSUME Inv, NEW p \in Calls, call[p].pc = "step", Due(p) # {},
           NEW mark \in {"completed", "failed"}, ToMark(p, mark)
    PROVE  /\ KeepsBatch(p) /\ call'[p].pc = "mark" /\ call'[p].slot = Id(p)[2]
           /\ call'[p].version = Tried(p).version /\ call'[p].mark = mark
           /\ call'[p].directed = call[p].directed
  <1>1. /\ TypeOK /\ Id(p)[2] = Min(Due(p)) /\ Id(p)[2] \in 1..MaxSteps /\ Tried(p) \in StepRow
    BY NextDue DEF Inv
  <1>2. Id(p)[2] \in 0..MaxSteps /\ Tried(p).version \in Nat /\ mark \in ItemStatus
    BY <1>1, InterventionsAssumption DEF StepRow, ItemStatus
  <1>3. Marking(p, Id(p)[2], Tried(p).version, mark)
    BY <1>1 DEF ToMark
  <1>4. QED
    BY <1>1, <1>2, <1>3, Marked

LEMMA ToStepIs ==
    ASSUME Inv, NEW p \in Calls, call[p].pc = "step", Due(p) # {},
           NEW pc \in {"start", "create"}, ToStep(p, pc)
    PROVE  /\ KeepsBatch(p) /\ call'[p].pc = pc /\ call'[p].slot = Id(p)[2]
           /\ call'[p].directed = call[p].directed
  <1>1. /\ TypeOK /\ Id(p)[2] = Min(Due(p)) /\ Id(p)[2] \in 1..MaxSteps
    BY NextDue DEF Inv
  <1>2. Min(Due(p)) \in 0..MaxSteps /\ pc \in Pcs
    BY <1>1, InterventionsAssumption DEF Pcs
  <1>3. QED
    BY <1>1, <1>2, SteppedTo

LEMMA AllRest ==
    ASSUME TypeOK, UNCHANGED world
    PROVE  MoreActive /\ \A t : Uncounted(t)
  BY DEF MoreActive, Uncounted, world

LEMMA RestTally ==
    ASSUME TypeOK, NEW s \in Steps, HasRow(s), Tally(s), UNCHANGED <<row, disturbances>>, Uncounted(s)
    PROVE  Tally(s)'
  BY RestsBeside, BesideTally, RestingStands

LEMMA TryTravelAlone ==
    ASSUME Inv, NEW p \in Calls, AloneInv(p), TryTravel(p)
    PROVE  AloneInv(p)'
  <1> DEFINE c == Tried(p).actor
             to == Tried(p).to
             version == Tried(p).version
  <1>1. TypeOK /\ call[p].pc = "step" /\ Due(p) # {} /\ Tried(p).kind = "travel"
        /\ UNCHANGED <<item, world, disturbances>>
    BY DEF Inv, TryTravel, Trying, At, bounds, Tried
  <1>2. MoreActive /\ \A t : Uncounted(t)
    BY <1>1, AllRest
  <1>3. PICK s \in Steps : s = Id(p)
    BY <1>1, NextDue DEF Inv
  <1>4. /\ HasRow(s) /\ Tally(s) /\ Untaken(s)
        /\ Of(s) = Tried(p) \/ Of(s).status = "cancelled"
        /\ SameStep(Tried(p), Of(s)) /\ Tried(p) \in StepRow /\ Tried(p).status = "queued"
    BY <1>1, <1>3, DueFacts
  <1>5. Of(s).kind = "travel" /\ Of(s).actor = c /\ Of(s).to = to
    BY <1>1, <1>4 DEF SameStep
  <1>6. ASSUME Fresh(Id(p), version), SaveStep(Id(p), "completed"),
               Marking(p, Id(p)[2], version + 1, "completed")
        PROVE  AloneInv(p)'
    <2>1. s[2] \in 0..MaxSteps /\ version + 1 \in Nat /\ "completed" \in ItemStatus
      BY <1>1, <1>3, <1>4, NextDue, InterventionsAssumption DEF Inv, StepRow, ItemStatus
    <2> HIDE DEF version
    <2>2. /\ KeepsBatch(p) /\ call'[p].pc = "mark" /\ call'[p].slot = s[2]
          /\ call'[p].mark = "completed" /\ call'[p].directed = call[p].directed
      BY <1>1, <1>3, <1>6, <2>1, Marked
    <2>3. Tally(s)' /\ HandFacts(p, s)' /\ (HasRow(s)' <=> HasRow(s))
      BY <1>1, <1>2, <1>3, <1>4, <1>5, <1>6, <2>2, SavedHandFacts
    <2>4. \A t \in Steps : t # s => Beside(t)
      BY <1>1, <1>2, <1>3, <1>4, <1>6, SavedBeside DEF StepStatus
    <2>5. s \notin call[p].directed
      BY <1>1, <1>3, DueFacts
    <2>6. QED
      BY <1>1, <1>2, <1>3, <2>2, <2>3, <2>4, <2>5, IntoHand DEF InHand
  <1>7. ASSUME Ends(p), UNCHANGED row
        PROVE  AloneInv(p)'
    <2>1. disturbances' \in Nat /\ disturbances <= disturbances'
      BY <1>1, InterventionsAssumption DEF TypeOK
    <2>2. \A t \in Steps : ~Hand(p, t)
      BY <1>1 DEF Hand, InHand
    <2>3. QED
      BY <1>2, <1>7, <2>1, <2>2, EndsAlone
  <1>8. ASSUME ~SameActivity(c, to), ToStep(p, "start"), UNCHANGED row
        PROVE  AloneInv(p)'
    <2>1. /\ KeepsBatch(p) /\ call'[p].pc = "start" /\ call'[p].slot = s[2]
          /\ call'[p].directed = call[p].directed
      BY <1>1, <1>3, <1>8, ToStepIs
    <2>2. ~Repeats(s) => applied[s] = 0
      BY <1>4, <1>5, <1>8 DEF Untaken
    <2>3. Untaken(s)' /\ Tally(s)'
      BY <1>1, <1>2, <1>4, <1>8, UntakenAtRest, RestTally DEF Uncounted
    <2>4. (HasRow(s)' <=> HasRow(s)) /\ Stands(s) /\ Of(s)' = Of(s)
      BY <1>1, <1>4, <1>8, RestingStands
    <2>5. ReadAs(p, s)' = ReadAs(p, s) /\ Tried(p) = ReadAs(p, s)
      BY <1>1, <1>3, <2>1, DueFacts DEF ReadAs, KeepsBatch
    <2>6. HandFacts(p, s)'
      BY <1>2, <1>4, <1>5, <2>1, <2>2, <2>3, <2>4, <2>5 DEF HandFacts, Stands, Uncounted
    <2>7. \A t \in Steps : t # s => Beside(t)
      BY <1>1, <1>2, <1>8, RestsBeside
    <2>8. s \notin call[p].directed
      BY <1>1, <1>3, DueFacts
    <2>9. QED
      BY <1>1, <1>2, <1>3, <2>1, <2>3, <2>4, <2>6, <2>7, <2>8, IntoHand DEF InHand
  <1>9. ASSUME ~SameActivity(c, to), ToMark(p, "failed"), UNCHANGED row
        PROVE  AloneInv(p)'
    <2>1. /\ KeepsBatch(p) /\ call'[p].pc = "mark" /\ call'[p].slot = s[2]
          /\ call'[p].version = Tried(p).version /\ call'[p].mark = "failed"
          /\ call'[p].directed = call[p].directed
      BY <1>1, <1>3, <1>9, ToMarkIs
    <2>2. ~Repeats(s) => applied[s] = 0
      BY <1>4, <1>5, <1>9 DEF Untaken
    <2>3. Tally(s)'
      BY <1>1, <1>2, <1>4, <1>9, RestTally
    <2>4. s \notin call[p].directed
      BY <1>1, <1>3, DueFacts
    <2>5. applied'[s] = applied[s]
      BY <1>2 DEF Uncounted
    <2>6. QED
      BY <1>1, <1>2, <1>3, <1>9, <2>1, <2>2, <2>3, <2>4, <2>5, MarkAlone
  <1>10. QED
    BY <1>6, <1>7, <1>8, <1>9 DEF TryTravel

LEMMA StartTravelAlone ==
    ASSUME Inv, NEW p \in Calls, AloneInv(p), StartTravel(p)
    PROVE  AloneInv(p)'
  <1>1. TypeOK /\ CallInv(p) /\ call[p].pc = "start" /\ PastClaim(p)
        /\ UNCHANGED <<row, called, disturbances>>
    BY DEF Inv, StartTravel, At, rows, bounds, PastClaim
  <1>2. PICK s \in Steps : s = Here(p)
    BY <1>1, StepInHand DEF InHand
  <1>3. HasRow(s) /\ Mine(p) = ReadAs(p, s) /\ Mine(p) \in StepRow /\ Mine(p).status = "queued"
        /\ SameStep(Mine(p), Of(s))
    BY <1>1, <1>2, StepInHand DEF InHand, Follows
  <1>4. Hand(p, s)
    BY <1>1, <1>2 DEF Hand, InHand
  <1>5. /\ Of(s) = ReadAs(p, s) \/ Of(s).status = "cancelled"
        /\ Of(s).kind = "travel" /\ Untaken(s) /\ (~Repeats(s) => applied[s] = 0) /\ Tally(s)
    BY <1>1, <1>3, <1>4 DEF AloneInv, Facts, HandFacts
  <1>6. /\ KeepsBatch(p) /\ call'[p].pc = "started" /\ call'[p].slot = call[p].slot
        /\ call'[p].directed = call[p].directed
    BY <1>1, WentTo DEF StartTravel, Pcs
  <1>7. applied'[s] = applied[s] + 1 /\ \A t \in Steps : t # s => applied'[t] = applied[t]
    BY <1>1, <1>2, <1>3, TookEffect DEF StartTravel
  <1>8. /\ active'[Mine(p).actor] = active[Mine(p).actor] \cup {[to |-> Mine(p).to, by |-> Here(p)]}
        /\ \A d \in Actors : d # Mine(p).actor => active'[d] = active[d]
    BY <1>1, <1>2, <1>3, AddActivityType DEF StartTravel, StepRow
  <1>9. MoreActive /\ SameActivity(Of(s).actor, Of(s).to)'
    <2>1. MoreActive
      BY <1>8 DEF MoreActive
    <2>2. Of(s)' = Of(s) /\ Of(s).actor = Mine(p).actor /\ Of(s).to = Mine(p).to
      BY <1>1, <1>3, RestingStands DEF SameStep
    <2>3. [to |-> Mine(p).to, by |-> Here(p)] \in active'[Mine(p).actor]
      BY <1>8
    <2>4. QED
      BY <2>1, <2>2, <2>3 DEF SameActivity
  <1>10. (HasRow(s)' <=> HasRow(s)) /\ Stands(s) /\ Of(s)' = Of(s)
    BY <1>1, <1>3, RestingStands
  <1>11. \A t \in Steps : t # s => Beside(t)
    BY <1>1, <1>7, RestsBeside DEF Uncounted
  <1>12. applied[s] \in Nat /\ disturbances \in Nat
    BY <1>1, InterventionsAssumption DEF TypeOK
  <1>13. Tally(s)'
    <2>1. applied'[s] <= 1 + (IF Repeats(s)' THEN disturbances' ELSE 0)
      BY <1>1, <1>5, <1>7, <1>10, <1>12 DEF Untaken, Stands
    <2>2. Of(s)'.kind = "travel" /\ Of(s)'.status # "failed"
      BY <1>3, <1>5, <1>10
    <2>3. QED
      BY <2>1, <2>2 DEF Tally
  <1>14. ReadAs(p, s)' = ReadAs(p, s)
    BY <1>6 DEF ReadAs, KeepsBatch
  <1>15. HandFacts(p, s)'
    BY <1>5, <1>6, <1>9, <1>10, <1>14 DEF HandFacts
  <1>16. QED
    BY <1>1, <1>2, <1>6, <1>9, <1>10, <1>11, <1>13, <1>15, StaysInHand DEF InHand

LEMMA SaveTravelAlone ==
    ASSUME Inv, NEW p \in Calls, AloneInv(p), SaveTravel(p)
    PROVE  AloneInv(p)'
  <1> DEFINE version == Mine(p).version
  <1>1. TypeOK /\ CallInv(p) /\ call[p].pc = "started" /\ PastClaim(p)
        /\ UNCHANGED <<item, world, disturbances>>
    BY DEF Inv, SaveTravel, At, bounds, PastClaim
  <1>2. MoreActive /\ \A t : Uncounted(t)
    BY <1>1, AllRest
  <1>3. PICK s \in Steps : s = Here(p)
    BY <1>1, StepInHand DEF InHand
  <1>4. HasRow(s) /\ Mine(p) = ReadAs(p, s) /\ Mine(p) \in StepRow /\ Follows(Mine(p), Of(s))
        /\ Mine(p).status = "queued"
    BY <1>1, <1>3, StepInHand DEF InHand
  <1>5. Hand(p, s)
    BY <1>1, <1>3 DEF Hand, InHand
  <1>6. /\ Of(s) = ReadAs(p, s) \/ Of(s).status = "cancelled"
        /\ Of(s).kind = "travel" /\ (~Repeats(s) => SameActivity(Of(s).actor, Of(s).to)) /\ Tally(s)
    BY <1>1, <1>4, <1>5 DEF AloneInv, Facts, HandFacts
  <1>7. ASSUME SaveStep(Here(p), "completed"), Marking(p, call[p].slot, version + 1, "completed")
        PROVE  AloneInv(p)'
    <2>1. call[p].slot \in 0..MaxSteps /\ version + 1 \in Nat /\ "completed" \in ItemStatus
      BY <1>1, <1>4, CallTypes DEF StepRow, ItemStatus
    <2> HIDE DEF version
    <2>2. /\ KeepsBatch(p) /\ call'[p].pc = "mark" /\ call'[p].slot = call[p].slot
          /\ call'[p].mark = "completed" /\ call'[p].directed = call[p].directed
      BY <1>1, <1>7, <2>1, Marked
    <2>3. Tally(s)' /\ HandFacts(p, s)' /\ (HasRow(s)' <=> HasRow(s))
      BY <1>1, <1>2, <1>3, <1>4, <1>6, <1>7, <2>2, SavedHandFacts
    <2>4. \A t \in Steps : t # s => Beside(t)
      BY <1>1, <1>2, <1>3, <1>4, <1>7, SavedBeside DEF StepStatus
    <2>5. QED
      BY <1>1, <1>2, <1>3, <2>2, <2>3, <2>4, StaysInHand DEF InHand
  <1>8. ASSUME ~Fresh(Here(p), version), Ends(p), UNCHANGED row
        PROVE  AloneInv(p)'
    <2>1. disturbances' \in Nat /\ disturbances <= disturbances'
      BY <1>1, InterventionsAssumption DEF TypeOK
    <2>2. Of(s).status # "queued"
      BY <1>3, <1>4, <1>6, <1>8 DEF Fresh, Of
    <2>3. \A t \in Steps : Hand(p, t) => t = s
      BY <1>3 DEF Hand
    <2>4. QED
      BY <1>2, <1>8, <2>1, <2>2, <2>3, EndsAlone
  <1>9. QED
    BY <1>7, <1>8 DEF SaveTravel

LEMMA FileAttemptAlone ==
    ASSUME Inv, NEW p \in Calls, AloneInv(p), FileAttempt(p)
    PROVE  AloneInv(p)'
  <1>1. TypeOK /\ call[p].pc = "step" /\ Due(p) # {} /\ Tried(p).kind = "attempt"
        /\ UNCHANGED <<row, world, disturbances>>
    BY DEF Inv, FileAttempt, Trying, At, bounds, rows, Tried
  <1>2. MoreActive /\ \A t : Uncounted(t)
    BY <1>1, AllRest
  <1>3. PICK s \in Steps : s = Id(p)
    BY <1>1, NextDue DEF Inv
  <1>4. /\ HasRow(s) /\ Tally(s) /\ Untaken(s) /\ Of(s).kind = "attempt" /\ s \notin call[p].directed
        /\ applied'[s] = applied[s]
    BY <1>1, <1>2, <1>3, DueFacts DEF SameStep, Uncounted
  <1>5. Tally(s)' /\ applied[s] = 0
    BY <1>1, <1>2, <1>4, RestTally DEF Untaken
  <1>6. ASSUME ToMark(p, "failed") PROVE AloneInv(p)'
    <2>1. /\ KeepsBatch(p) /\ call'[p].pc = "mark" /\ call'[p].slot = s[2]
          /\ call'[p].version = Tried(p).version /\ call'[p].mark = "failed"
          /\ call'[p].directed = call[p].directed
      BY <1>1, <1>3, <1>6, ToMarkIs
    <2>2. QED
      BY <1>1, <1>2, <1>3, <1>4, <1>5, <2>1, MarkAlone
  <1>7. ASSUME call' = [call EXCEPT ![p].pc = "mark", ![p].slot = Id(p)[2],
                                    ![p].version = Tried(p).version, ![p].mark = "completed",
                                    ![p].directed = @ \cup {Id(p)}]
        PROVE  AloneInv(p)'
    <2>1. call \in [Calls -> Call] /\ call[p] \in Call
      BY <1>1, CallTypes
    <2>2. /\ call'[p].pc = "mark" /\ call'[p].slot = s[2] /\ call'[p].version = Tried(p).version
          /\ call'[p].mark = "completed" /\ call'[p].directed = call[p].directed \cup {s}
      BY <1>3, <1>7, <2>1 DEF Call
    <2>3. KeepsBatch(p)
      BY <1>7, <2>1 DEF Call, KeepsBatch
    <2>4. \A t \in call'[p].directed : t \in call[p].directed \/ t = s
      BY <2>2
    <2>5. QED
      BY <1>1, <1>2, <1>3, <1>4, <1>5, <2>2, <2>3, <2>4, MarkAlone
  <1>8. QED
    BY <1>6, <1>7 DEF FileAttempt

LEMMA OverrideAlone ==
    ASSUME Inv, NEW p \in Calls, AloneInv(p), Override(p)
    PROVE  AloneInv(p)'
  <1>1. TypeOK /\ call[p].pc = "step" /\ Due(p) # {} /\ Tried(p).kind = "override"
        /\ UNCHANGED <<row, active, called, disturbances>> /\ MoreActive
    BY DEF Inv, Override, Trying, At, bounds, rows, Tried, MoreActive
  <1>2. PICK s \in Steps : s = Id(p)
    BY <1>1, NextDue DEF Inv
  <1>3. /\ HasRow(s) /\ Tally(s) /\ Untaken(s) /\ Of(s).kind = "override" /\ s \notin call[p].directed
    BY <1>1, <1>2, DueFacts DEF SameStep
  <1>4. Repeats(s)
    BY <1>3 DEF Repeats, Repeatable, Of
  <1>5. ASSUME NEW mark \in {"completed", "failed"}, ToMark(p, mark)
        PROVE  /\ KeepsBatch(p) /\ call'[p].pc = "mark" /\ call'[p].slot = s[2]
               /\ call'[p].version = Tried(p).version /\ call'[p].mark = mark
               /\ call'[p].directed = call[p].directed
    BY <1>1, <1>2, <1>5, ToMarkIs
  <1>6. ASSUME ToMark(p, "failed"), UNCHANGED applied PROVE AloneInv(p)'
    <2>1. \A t : Uncounted(t)
      BY <1>1, <1>6 DEF Uncounted
    <2>2. Tally(s)'
      BY <1>1, <1>3, <2>1, RestTally
    <2>3. QED
      BY <1>1, <1>2, <1>3, <1>4, <1>5, <1>6, <2>1, <2>2, MarkAlone
  <1>7. ASSUME ToMark(p, "completed"), Took(s) PROVE AloneInv(p)'
    <2>1. applied'[s] = applied[s] + 1 /\ \A t \in Steps : t # s => applied'[t] = applied[t]
      BY <1>1, <1>3, <1>7, TookEffect
    <2>2. \A t \in Steps : t # s => Uncounted(t)
      BY <1>1, <2>1 DEF Uncounted
    <2>3. (HasRow(s)' <=> HasRow(s)) /\ Stands(s) /\ Of(s)' = Of(s)
      BY <1>1, <1>3, RestingStands
    <2>4. applied[s] <= disturbances /\ applied[s] \in Nat /\ disturbances \in Nat
      BY <1>1, <1>3, <1>4, InterventionsAssumption DEF Untaken, TypeOK
    <2>5. Tally(s)'
      BY <1>1, <1>3, <1>4, <2>1, <2>3, <2>4 DEF Tally, Stands
    <2>6. QED
      BY <1>1, <1>2, <1>3, <1>5, <1>7, <2>2, <2>5, MarkAlone
  <1>8. QED
    BY <1>2, <1>6, <1>7 DEF Override

\* What a title or a label stands for has happened once, the rest not at all.
LEMMA CountedByCalled ==
    ASSUME TypeOK, NEW s \in Steps, HasRow(s), Tally(s), Of(s).kind \in {"hook", "condition"},
           Of(s).status # "failed", UNCHANGED <<row, disturbances>>,
           Took(s), called' = called \cup {s}, s \notin called
    PROVE  Tally(s)' /\ \A t \in Steps : t # s => Uncounted(t)
  <1>1. applied'[s] = applied[s] + 1 /\ \A t \in Steps : t # s => applied'[t] = applied[t]
    BY TookEffect
  <1>2. (HasRow(s)' <=> HasRow(s)) /\ Stands(s) /\ Of(s)' = Of(s)
    BY RestingStands
  <1>3. applied[s] = 0
    BY DEF Tally
  <1>4. applied'[s] = 1 /\ s \in called' /\ disturbances \in Nat
    BY <1>1, <1>3, InterventionsAssumption DEF TypeOK
  <1>5. \A t \in Steps : t # s => Uncounted(t)
    BY <1>1 DEF Uncounted
  <1>6. applied'[s] <= 1 + (IF Repeats(s)' THEN disturbances' ELSE 0)
    BY <1>4
  <1>7. QED
    BY <1>2, <1>4, <1>5, <1>6 DEF Tally

LEMMA HookAlone ==
    ASSUME Inv, NEW p \in Calls, AloneInv(p), Hook(p)
    PROVE  AloneInv(p)'
  <1>1. TypeOK /\ call[p].pc = "step" /\ Due(p) # {} /\ Tried(p).kind = "hook"
        /\ UNCHANGED <<row, active, disturbances>> /\ MoreActive
    BY DEF Inv, Hook, Trying, At, bounds, rows, Tried, MoreActive
  <1>2. PICK s \in Steps : s = Id(p)
    BY <1>1, NextDue DEF Inv
  <1>3. /\ HasRow(s) /\ Tally(s) /\ Untaken(s) /\ Of(s).kind = "hook" /\ s \notin call[p].directed
        /\ Of(s).status \in {"queued", "cancelled"}
    BY <1>1, <1>2, DueFacts DEF SameStep
  <1>4. s \in called => Exists("hook")
    BY <1>3 DEF Exists, Listed, Of
  <1>5. ASSUME NEW mark \in {"completed", "failed"}, ToMark(p, mark)
        PROVE  /\ KeepsBatch(p) /\ call'[p].pc = "mark" /\ call'[p].slot = s[2]
               /\ call'[p].version = Tried(p).version /\ call'[p].mark = mark
               /\ call'[p].directed = call[p].directed
    BY <1>1, <1>2, <1>5, ToMarkIs
  <1>6. ASSUME NEW mark \in {"completed", "failed"}, ToMark(p, mark), UNCHANGED <<called, applied>>,
               mark = "failed" => ~Exists("hook")
        PROVE  AloneInv(p)'
    <2>1. \A t : Uncounted(t)
      BY <1>6 DEF Uncounted
    <2>2. Tally(s)'
      BY <1>1, <1>3, <2>1, RestTally
    <2>3. mark = "failed" => applied[s] = 0
      BY <1>3, <1>4, <1>6 DEF Tally
    <2>4. QED
      BY <1>1, <1>2, <1>3, <1>5, <1>6, <2>1, <2>2, <2>3, MarkAlone
  <1>7. ASSUME ~Exists("hook"), ToMark(p, "completed"), AddRow(s)
        PROVE  AloneInv(p)'
    <2>1. Tally(s)' /\ \A t \in Steps : t # s => Uncounted(t)
      BY <1>1, <1>3, <1>4, <1>7, CountedByCalled DEF AddRow
    <2>2. QED
      BY <1>1, <1>2, <1>3, <1>5, <1>7, <2>1, MarkAlone
  <1>8. QED
    BY <1>2, <1>6, <1>7 DEF Hook

LEMMA LookUpConditionAlone ==
    ASSUME Inv, NEW p \in Calls, AloneInv(p), LookUpCondition(p)
    PROVE  AloneInv(p)'
  <1>1. TypeOK /\ call[p].pc = "step" /\ Due(p) # {} /\ Tried(p).kind = "condition"
        /\ UNCHANGED <<row, world, disturbances>>
    BY DEF Inv, LookUpCondition, Trying, At, bounds, rows, Tried
  <1>2. MoreActive /\ \A t : Uncounted(t)
    BY <1>1, AllRest
  <1>3. PICK s \in Steps : s = Id(p)
    BY <1>1, NextDue DEF Inv
  <1>4. /\ HasRow(s) /\ Tally(s) /\ Of(s).kind = "condition" /\ s \notin call[p].directed
        /\ Of(s) = Tried(p) \/ Of(s).status = "cancelled"
        /\ Tried(p) = ReadAs(p, s)
    BY <1>1, <1>3, DueFacts DEF SameStep
  <1>5. Tally(s)'
    BY <1>1, <1>2, <1>4, RestTally
  <1>6. ASSUME ToMark(p, "completed") PROVE AloneInv(p)'
    <2>1. /\ KeepsBatch(p) /\ call'[p].pc = "mark" /\ call'[p].slot = s[2]
          /\ call'[p].version = Tried(p).version /\ call'[p].mark = "completed"
          /\ call'[p].directed = call[p].directed
      BY <1>1, <1>3, <1>6, ToMarkIs
    <2>2. QED
      BY <1>1, <1>2, <1>3, <1>4, <1>5, <2>1, MarkAlone
  <1>7. ASSUME ~Exists("condition"), ToStep(p, "create") PROVE AloneInv(p)'
    <2>1. /\ KeepsBatch(p) /\ call'[p].pc = "create" /\ call'[p].slot = s[2]
          /\ call'[p].directed = call[p].directed
      BY <1>1, <1>3, <1>7, ToStepIs
    <2>2. (HasRow(s)' <=> HasRow(s)) /\ Stands(s) /\ Of(s)' = Of(s)
      BY <1>1, <1>4, RestingStands
    <2>3. ReadAs(p, s)' = ReadAs(p, s)
      BY <2>1 DEF ReadAs, KeepsBatch
    <2>4. ~Exists("condition")'
      BY <1>1, <1>7 DEF Exists, Listed, world
    <2>5. HandFacts(p, s)'
      BY <1>4, <2>1, <2>2, <2>3, <2>4 DEF HandFacts
    <2>6. \A t \in Steps : t # s => Beside(t)
      BY <1>1, <1>2, RestsBeside
    <2>7. QED
      BY <1>1, <1>2, <1>3, <1>4, <1>5, <2>1, <2>2, <2>5, <2>6, IntoHand DEF InHand
  <1>8. QED
    BY <1>6, <1>7 DEF LookUpCondition

LEMMA CreateConditionAlone ==
    ASSUME Inv, NEW p \in Calls, AloneInv(p), CreateCondition(p)
    PROVE  AloneInv(p)'
  <1>1. TypeOK /\ CallInv(p) /\ call[p].pc = "create" /\ PastClaim(p)
        /\ UNCHANGED <<row, active, disturbances>> /\ MoreActive
    BY DEF Inv, CreateCondition, At, rows, bounds, PastClaim, MoreActive
  <1>2. PICK s \in Steps : s = Here(p)
    BY <1>1, StepInHand DEF InHand
  <1>3. HasRow(s) /\ Mine(p) = ReadAs(p, s) /\ Mine(p) \in StepRow /\ Mine(p).status = "queued"
    BY <1>1, <1>2, StepInHand DEF InHand
  <1>4. Hand(p, s)
    BY <1>1, <1>2 DEF Hand, InHand
  <1>5. /\ Of(s) = ReadAs(p, s) \/ Of(s).status = "cancelled"
        /\ Of(s).kind = "condition" /\ ~Exists("condition") /\ Tally(s)
    BY <1>1, <1>3, <1>4 DEF AloneInv, Facts, HandFacts
  <1>6. s \notin called
    BY <1>5 DEF Exists, Listed, Of
  <1>7. Tally(s)' /\ \A t \in Steps : t # s => Uncounted(t)
    BY <1>1, <1>2, <1>3, <1>5, <1>6, CountedByCalled DEF CreateCondition, AddRow
  <1>8. Mine(p).version \in Nat /\ call[p].slot \in 0..MaxSteps /\ "completed" \in ItemStatus
    BY <1>1, <1>3, CallTypes DEF StepRow, ItemStatus
  <1>9. /\ KeepsBatch(p) /\ call'[p].pc = "mark" /\ call'[p].slot = call[p].slot
        /\ call'[p].version = Mine(p).version /\ call'[p].mark = "completed"
        /\ call'[p].directed = call[p].directed
    BY <1>1, <1>8, Marked DEF CreateCondition
  <1>10. (HasRow(s)' <=> HasRow(s)) /\ Stands(s) /\ Of(s)' = Of(s)
    BY <1>1, <1>3, RestingStands
  <1>11. HandFacts(p, s)'
    BY <1>3, <1>5, <1>9, <1>10 DEF HandFacts
  <1>12. \A t \in Steps : t # s => Beside(t)
    BY <1>1, <1>7, RestsBeside
  <1>13. QED
    BY <1>1, <1>2, <1>7, <1>9, <1>10, <1>11, <1>12, StaysInHand DEF InHand

LEMMA MarkStepAlone ==
    ASSUME Inv, NEW p \in Calls, AloneInv(p), Mark(p)
    PROVE  AloneInv(p)'
  <1>1. TypeOK /\ CallInv(p) /\ call[p].pc = "mark" /\ PastClaim(p)
        /\ UNCHANGED <<item, world, disturbances>>
    BY DEF Inv, Mark, At, bounds, PastClaim
  <1>2. MoreActive /\ \A t : Uncounted(t)
    BY <1>1, AllRest
  <1>3. PICK s \in Steps : s = Here(p)
    BY <1>1, StepInHand DEF InHand
  <1>4. HasRow(s) /\ s[1] = call[p].item /\ s[2] = call[p].slot
    BY <1>1, <1>3, StepInHand DEF InHand
  <1>5. \A t \in Steps : Facts(p, t) /\ (Hand(p, t) <=> t = s)
    BY <1>1, <1>3 DEF AloneInv, Hand, InHand
  <1>6. Tally(s)
    BY <1>4 DEF AloneInv
  <1>7. ASSUME Fresh(Here(p), call[p].version), SaveStep(Here(p), call[p].mark),
               call' = [call EXCEPT ![p].pc = "step", ![p].version = 0, ![p].mark = "queued"]
        PROVE  AloneInv(p)'
    <2>1. call \in [Calls -> Call] /\ call[p] \in Call
      BY <1>1, CallTypes
    <2>2. call'[p].pc = "step" /\ call'[p].slot = call[p].slot /\ call'[p].directed = call[p].directed
      BY <1>7, <2>1 DEF Call
    <2>3. KeepsBatch(p)
      BY <1>7, <2>1 DEF Call, KeepsBatch
    <2>4. call[p].mark \in {"completed", "failed"} /\ call[p].mark \in StepStatus
      BY <1>1 DEF CallInv, HandInv, StepStatus
    <2>5. SaveStep(s, call[p].mark)
      BY <1>3, <1>7
    <2>6. \A t \in Steps : t # s => Beside(t)
      BY <1>1, <1>2, <1>4, <2>4, <2>5, SavedBeside
    <2>7. (HasRow(s)' <=> HasRow(s)) /\ Stands(s) /\ Of(s)'.status = call[p].mark
      BY <1>1, <1>4, <2>4, <2>5, SavedStands
    <2>8. ASSUME NEW t \in Steps
          PROVE  /\ ~Hand(p, t)' /\ (Ahead(p, t)' <=> Ahead(p, t)) /\ ReadAs(p, t)' = ReadAs(p, t)
      <3>1. HasRow(t)' <=> HasRow(t)
        BY <2>6, <2>7 DEF Beside
      <3>2. QED
        BY <1>1, <2>2, <2>3, <3>1 DEF Hand, InHand, Ahead, AtItem, ReadAs, KeepsBatch
    <2>9. call[p].item \notin call[p].todo /\ call[p].slot \in Int
      BY <1>1, CallTypes, InterventionsAssumption DEF CallInv, BatchInv, AtItem
    <2>10. ~Ahead(p, s) /\ Hand(p, s)
      BY <1>4, <1>5, <2>9 DEF Ahead
    <2>11. ASSUME NEW t \in Steps, t # s
           PROVE  Facts(p, t)' /\ (HasRow(t)' => Tally(t)')
      <3>1. t \in call'[p].directed => t \in call[p].directed /\ HasRow(t)
        BY <1>1, <2>2 DEF CallInv, BatchInv
      <3>2. Facts(p, t)'
        BY <1>1, <1>2, <1>5, <2>6, <2>8, <2>11, <3>1, Bystander DEF Beside, Uncounted
      <3>3. QED
        BY <1>1, <2>6, <2>11, <3>2, BesideTally DEF AloneInv
    <2>12. Facts(p, s)'
      <3>1. /\ Facts(p, s) /\ applied'[s] = applied[s] /\ Of(s)'.kind = Of(s).kind
        BY <1>2, <1>5, <2>7 DEF Uncounted, Stands, SameStep
      <3>2. DirectedFacts(p, s)'
        BY <2>2, <2>7, <2>8, <2>10, <3>1 DEF Facts, DirectedFacts
      <3>3. LeftFacts(p, s)'
        BY <2>4, <2>7 DEF LeftFacts
      <3>4. QED
        BY <2>8, <2>10, <3>2, <3>3 DEF Facts, AheadFacts, HandFacts
    <2>13. Tally(s)'
      <3>1. call[p].mark = "failed" /\ ~Repeats(s) => applied[s] = 0
        BY <1>1, <1>5, <2>10 DEF Facts, HandFacts
      <3>2. disturbances' \in Nat /\ disturbances <= disturbances'
        BY <1>1, InterventionsAssumption DEF TypeOK
      <3>3. QED
        BY <1>1, <1>2, <1>4, <1>6, <2>7, <3>1, <3>2, TallyKept
    <2>14. PastClaim(p)'
      BY <2>2 DEF PastClaim
    <2>15. QED
      BY <2>11, <2>12, <2>13, <2>14 DEF AloneInv
  <1>8. ASSUME ~Fresh(Here(p), call[p].version), Ends(p), UNCHANGED row
        PROVE  AloneInv(p)'
    <2>1. disturbances' \in Nat /\ disturbances <= disturbances'
      BY <1>1, InterventionsAssumption DEF TypeOK
    <2>2. Of(s).version # call[p].version
      BY <1>3, <1>8 DEF Fresh, Of
    <2>3. Of(s).status # "queued"
      BY <1>1, <1>5, <2>2 DEF Facts, HandFacts
    <2>4. QED
      BY <1>2, <1>5, <1>8, <2>1, <2>3, EndsAlone
  <1>9. QED
    BY <1>7, <1>8 DEF Mark

\* No step is tried, and those that are passed over can be tried later.
LEMMA NoneInHand ==
    ASSUME Inv, NEW p \in Calls, AloneInv(p), PastClaim(p), PastClaim(p)',
           call[p].pc \notin InHand, call'[p].pc \notin InHand,
           UNCHANGED <<row, world, disturbances>>, call'[p].directed = call[p].directed,
           \A t \in Steps : Ahead(p, t)' => Ahead(p, t) /\ ReadAs(p, t)' = ReadAs(p, t),
           \A t \in Steps : Ahead(p, t) /\ ~Ahead(p, t)' /\ Of(t).status = "queued" => Repeats(t)
    PROVE  AloneInv(p)'
  <1>1. TypeOK /\ CallInv(p) /\ MoreActive /\ \A t : Uncounted(t)
    BY AllRest DEF Inv
  <1>2. ASSUME NEW t \in Steps
        PROVE  Facts(p, t)' /\ (HasRow(t)' => Tally(t)')
    <2>1. Beside(t)
      BY <1>1, RestsBeside
    <2>2. t \in call'[p].directed => t \in call[p].directed /\ HasRow(t)
      BY <1>1 DEF CallInv, BatchInv
    <2>3. ~Hand(p, t) /\ ~Hand(p, t)'
      BY DEF Hand
    <2>4. Facts(p, t)'
      BY <1>1, <2>1, <2>2, <2>3, Bystander DEF Beside, Uncounted, AloneInv
    <2>5. QED
      BY <1>1, <2>1, <2>4, BesideTally DEF AloneInv
  <1>3. QED
    BY <1>2 DEF AloneInv

LEMMA FinishReadAlone ==
    ASSUME Inv, NEW p \in Calls, AloneInv(p), FinishRead(p)
    PROVE  AloneInv(p)'
  <1>1. TypeOK /\ call[p].pc = "step" /\ Due(p) = {} /\ UNCHANGED <<row, world, disturbances>>
        /\ PastClaim(p)
    BY DEF Inv, FinishRead, At, rows, bounds, PastClaim
  <1>2. call \in [Calls -> Call] /\ call[p] \in Call
    BY <1>1, CallTypes
  <1>3. call'[p].pc = "finish" /\ call'[p].directed = call[p].directed /\ PastClaim(p)'
    BY <1>2 DEF FinishRead, Call, PastClaim
  <1>4. KeepsBatch(p)
    BY <1>2 DEF FinishRead, Call, KeepsBatch
  <1>5. ASSUME NEW t \in Steps
        PROVE  /\ Ahead(p, t)' => Ahead(p, t) /\ ReadAs(p, t)' = ReadAs(p, t)
               /\ Ahead(p, t) /\ ~Ahead(p, t)' /\ Of(t).status = "queued" => Repeats(t)
    <2>1. HasRow(t)' <=> HasRow(t)
      BY <1>1 DEF HasRow
    <2>2. Ahead(p, t)' <=> HasRow(t) /\ t[1] \in call[p].todo
      BY <1>3, <1>4, <2>1 DEF Ahead, KeepsBatch
    <2>3. ReadAs(p, t)' = ReadAs(p, t)
      BY <1>4 DEF ReadAs, KeepsBatch
    <2>4. ASSUME Ahead(p, t), ~Ahead(p, t)', Of(t).status = "queued"
          PROVE  Repeats(t)
      BY <1>1, <2>2, <2>4, SkippedRepeats DEF Ahead, AloneInv
    <2>5. QED
      BY <2>2, <2>3, <2>4 DEF Ahead
  <1>6. call[p].pc \notin InHand /\ call'[p].pc \notin InHand
    BY <1>1, <1>3 DEF InHand
  <1>7. QED
    BY <1>1, <1>3, <1>5, <1>6, NoneInHand

LEMMA OnwardAlone ==
    ASSUME Inv, NEW p \in Calls, AloneInv(p), call[p].pc \in {"read", "finish"}, NEW c \in Call,
           c.todo = call[p].todo, c.rows = call[p].rows, c.directed = call[p].directed,
           call' = [call EXCEPT ![p] = Onward(c)], UNCHANGED <<row, world, disturbances>>
    PROVE  AloneInv(p)'
  <1>1. TypeOK
    BY DEF Inv
  <1>2. /\ call'[p].directed = c.directed
        /\ c.todo = {} => call'[p].pc = "phase" /\ call'[p].todo = {}
        /\ c.todo # {} =>
              /\ call'[p].pc = "step" /\ call'[p].item \in c.todo
              /\ call'[p].todo = c.todo \ {call'[p].item}
              /\ call'[p].slot = 0 /\ call'[p].rows = c.rows
    BY <1>1, WentOnward
  <1>3. ASSUME NEW t \in Steps
        PROVE  /\ Ahead(p, t)' => Ahead(p, t) /\ ReadAs(p, t)' = ReadAs(p, t)
               /\ Ahead(p, t) => Ahead(p, t)'
    <2>1. HasRow(t)' <=> HasRow(t)
      BY DEF HasRow
    <2>2. Ahead(p, t) <=> HasRow(t) /\ t[1] \in call[p].todo
      BY DEF Ahead, AtItem
    <2>3. t[2] > 0
      BY InterventionsAssumption DEF Steps
    <2>4. CASE c.todo = {}
      BY <1>2, <2>1, <2>2, <2>4 DEF Ahead, AtItem
    <2>5. CASE c.todo # {}
      <3>1. Ahead(p, t)' <=> HasRow(t) /\ t[1] \in call[p].todo
        BY <1>2, <2>1, <2>3, <2>5 DEF Ahead, AtItem
      <3>2. ReadAs(p, t)' = ReadAs(p, t)
        BY <1>2, <2>5 DEF ReadAs
      <3>3. QED
        BY <2>2, <3>1, <3>2
    <2>6. QED
      BY <2>4, <2>5
  <1>4. /\ call[p].pc \notin InHand /\ call'[p].pc \notin InHand /\ PastClaim(p) /\ PastClaim(p)'
    BY <1>2 DEF InHand, PastClaim
  <1>5. QED
    BY <1>2, <1>3, <1>4, NoneInHand

LEMMA ReadActivesAlone ==
    ASSUME Inv, NEW p \in Calls, AloneInv(p), ReadActives(p)
    PROVE  AloneInv(p)'
  <1> DEFINE busy == {c \in Actors : active[c] # {}}
             c == [call[p] EXCEPT !.busy = busy]
  <1>1. call \in [Calls -> Call] /\ call[p] \in Call /\ call[p].pc = "read"
        /\ UNCHANGED <<row, world, disturbances>>
    BY CallTypes DEF Inv, ReadActives, At, rows, bounds
  <1>2. call' = [call EXCEPT ![p] = Onward(c)]
    BY <1>1 DEF ReadActives
  <1>3. busy \subseteq Actors
    OBVIOUS
  <1> HIDE DEF busy
  <1>4. c \in Call /\ c.todo = call[p].todo /\ c.rows = call[p].rows /\ c.directed = call[p].directed
    BY <1>1, <1>3 DEF Call
  <1> HIDE DEF c
  <1>5. QED
    BY <1>1, <1>2, <1>4, OnwardAlone

LEMMA FinishWriteAlone ==
    ASSUME Inv, NEW p \in Calls, AloneInv(p), FinishWrite(p)
    PROVE  AloneInv(p)'
  <1>1. call \in [Calls -> Call] /\ call[p] \in Call /\ call[p].pc = "finish"
        /\ UNCHANGED <<row, world, disturbances>>
    BY CallTypes DEF Inv, FinishWrite, At, bounds
  <1>2. call' = [call EXCEPT ![p] = Onward(call[p])]
    BY <1>1 DEF FinishWrite
  <1>3. QED
    BY <1>1, <1>2, OnwardAlone

LEMMA ClaimAlone ==
    ASSUME Inv, NEW p \in Calls, AloneInv(p), Claim(p)
    PROVE  AloneInv(p)'
  <1>1. TypeOK /\ NothingForgotten /\ CallInv(p) /\ call[p].pc = "claim"
        /\ UNCHANGED <<row, world, disturbances>>
    BY DEF Inv, Claim, At, bounds
  <1>2. MoreActive /\ \A t : Uncounted(t)
    BY <1>1, AllRest
  <1>3. call \in [Calls -> Call] /\ call[p] \in Call /\ call[p].directed = {}
    BY <1>1, CallTypes DEF CallInv, BatchInv
  <1>4. /\ call'[p].pc = "read" /\ call'[p].todo = Open /\ call'[p].directed = {}
        /\ \A i \in Open : call'[p].rows[i] = row[i]
    BY <1>3 DEF Claim, Call, Open
  <1>5. ASSUME NEW s \in Steps, HasRow(s), Of(s).status = "queued"
        PROVE  Untaken(s) /\ Untaken(s)' /\ s[1] \in Open
    <2>1. Untaken(s)
      BY <1>1, <1>5 DEF AloneInv, PastClaim
    <2>2. Untaken(s)'
      BY <1>1, <1>2, <1>5, <2>1, UntakenAtRest DEF Uncounted
    <2>3. s[1] \in Items /\ s[2] \in DOMAIN row[s[1]]
      BY <1>5 DEF Steps, HasRow
    <2>4. item[s[1]] \in {"queued", "executing"}
      BY <1>1, <1>5, <2>3 DEF NothingForgotten, Of
    <2>5. QED
      BY <2>1, <2>2, <2>3, <2>4 DEF Open
  <1>6. ASSUME NEW s \in Steps
        PROVE  Facts(p, s)' /\ (HasRow(s)' => Tally(s)')
    <2>1. (HasRow(s)' <=> HasRow(s)) /\ Of(s)' = Of(s) /\ Beside(s)
      BY <1>1, <1>2, RestsBeside DEF HasRow, Of
    <2>2. Ahead(p, s)' <=> HasRow(s) /\ s[1] \in Open
      BY <1>4, <2>1 DEF Ahead, AtItem
    <2>3. ~Hand(p, s)' /\ s \notin call'[p].directed
      BY <1>4 DEF Hand, InHand
    <2>4. Ahead(p, s)' => ReadAs(p, s)' = Of(s)
      BY <1>4, <2>2 DEF ReadAs, Of
    <2>5. AheadFacts(p, s)'
      BY <1>5, <2>1, <2>2, <2>4 DEF AheadFacts
    <2>6. LeftFacts(p, s)'
      BY <1>5, <2>1, <2>2 DEF LeftFacts
    <2>7. HasRow(s)' => Tally(s)'
      BY <1>1, <2>1, BesideTally DEF AloneInv
    <2>8. QED
      BY <2>3, <2>5, <2>6, <2>7 DEF Facts, DirectedFacts, HandFacts
  <1>7. PastClaim(p)'
    BY <1>4 DEF PastClaim
  <1>8. QED
    BY <1>6, <1>7 DEF AloneInv

LEMMA OneMore == \A n \in Nat : 1 <= 1 + n /\ 1 <= 1 + 0
  OBVIOUS

LEMMA CompletePhaseAlone ==
    ASSUME Inv, NEW p \in Calls, AloneInv(p), NEW ends \in BOOLEAN, CompletePhase(p, ends)
    PROVE  AloneInv(p)'
  <1>1. TypeOK /\ CallInv(p) /\ call[p].pc = "phase" /\ PastClaim(p)
        /\ UNCHANGED <<row, called, disturbances>>
        /\ applied' = [s \in Steps |-> IF s \in call[p].directed THEN applied[s] + 1 ELSE applied[s]]
    BY DEF Inv, CompletePhase, At, rows, bounds, PastClaim
  <1>2. ~PastClaim(p)'
    BY <1>1, Ended DEF CompletePhase, PastClaim
  <1>3. disturbances' \in Nat /\ disturbances <= disturbances'
    BY <1>1, InterventionsAssumption DEF TypeOK
  <1>4. ASSUME NEW s \in Steps, HasRow(s)'
        PROVE  Tally(s)' /\ (Of(s)'.status = "queued" => Untaken(s)')
    <2>1. HasRow(s) /\ Stands(s) /\ Of(s)' = Of(s)
      BY <1>1, <1>4, RestingStands
    <2>2. Tally(s) /\ Facts(p, s)
      BY <1>1, <2>1 DEF AloneInv
    <2>3. ~Ahead(p, s) /\ ~Hand(p, s)
      BY <1>1 DEF Ahead, Hand, AtItem, InHand, CallInv, BatchInv
    <2>4. CASE s \in call[p].directed
      <3>1. Of(s).kind = "attempt" /\ applied[s] = 0 /\ Of(s).status \in {"completed", "cancelled"}
        BY <2>2, <2>3, <2>4 DEF Facts, DirectedFacts
      <3>2. applied'[s] = 1
        BY <1>1, <2>4, <3>1
      <3>3. applied'[s] <= 1 + (IF Repeats(s)' THEN disturbances' ELSE 0)
        <4>1. 1 <= 1 + disturbances' /\ 1 <= 1 + 0
          BY <1>3, OneMore, Zenon
        <4>2. QED
          BY <3>2, <4>1
      <3>4. QED
        BY <2>1, <3>1, <3>3 DEF Tally
    <2>5. CASE s \notin call[p].directed
      <3>1. Uncounted(s)
        BY <1>1, <2>5 DEF Uncounted
      <3>2. Tally(s)'
        BY <1>1, <1>3, <2>1, <2>2, <3>1, TallyKept
      <3>3. ASSUME Of(s).status = "queued" PROVE Untaken(s)'
        <4>1. Untaken(s) /\ (Of(s).kind = "travel" /\ ~Repeats(s) => applied[s] = 0)
          BY <2>1, <2>2, <2>3, <3>3 DEF Facts, LeftFacts
        <4>2. QED
          BY <1>1, <1>3, <2>1, <3>1, <4>1, UntakenKept DEF Uncounted
      <3>4. QED
        BY <2>1, <3>2, <3>3
    <2>6. QED
      BY <2>4, <2>5
  <1>5. QED
    BY <1>2, <1>4 DEF AloneInv

LEMMA NoPhaseAlone ==
    ASSUME Inv, NEW p \in Calls, AloneInv(p), NoPhase(p)
    PROVE  AloneInv(p)'
  <1>1. TypeOK /\ call[p].pc = "phase" /\ UNCHANGED <<row, world, disturbances>>
    BY DEF Inv, NoPhase, At, rows, bounds
  <1>2. MoreActive /\ \A t : Uncounted(t)
    BY <1>1, AllRest
  <1>3. disturbances' \in Nat /\ disturbances <= disturbances'
    BY <1>1, InterventionsAssumption DEF TypeOK
  <1>4. \A t \in Steps : ~Hand(p, t)
    BY <1>1 DEF Hand, InHand
  <1>5. QED
    BY <1>1, <1>2, <1>3, <1>4, EndsAlone DEF NoPhase

\* A call that dies with a step in hand may have it done once more.
LEMMA FaultAlone ==
    ASSUME Inv, NEW p \in Calls, AloneInv(p), Fault(p)
    PROVE  AloneInv(p)'
  <1>1. TypeOK /\ UNCHANGED <<row, world>> /\ disturbances' = disturbances + 1 /\ Ends(p)
    BY DEF Inv, Fault, Disturbance, rows
  <1>2. MoreActive /\ \A t : Uncounted(t)
    BY <1>1, AllRest
  <1>3. disturbances \in Nat /\ disturbances' \in Nat /\ disturbances <= disturbances'
    BY <1>1, InterventionsAssumption DEF TypeOK
  <1>4. ASSUME NEW s \in Steps, HasRow(s), Of(s).status = "queued", Hand(p, s)
        PROVE  Untaken(s) \/ Untaken(s)'
    <2>1. call[p].pc \in InHand /\ PastClaim(p)
      BY <1>4 DEF Hand, InHand, PastClaim
    <2>2. HandFacts(p, s) /\ Tally(s)
      BY <1>4, <2>1 DEF AloneInv, Facts
    <2>3. CASE call[p].pc = "start" \/ (call[p].pc = "mark" /\ Of(s).kind = "travel")
      BY <1>4, <2>2, <2>3 DEF HandFacts
    <2>4. CASE call[p].pc \in {"started", "create"} \/ (call[p].pc = "mark" /\ Of(s).kind # "travel")
      <3>1. Stands(s) /\ Of(s)' = Of(s) /\ applied'[s] = applied[s]
        BY <1>1, <1>2, <1>4, RestingStands DEF Uncounted
      <3>2. Of(s).kind = "attempt" => applied[s] = 0
        BY <1>4, <2>2, <2>4 DEF HandFacts
      <3>3. Of(s).kind = "travel" /\ ~Repeats(s) => SameActivity(Of(s).actor, Of(s).to)
        BY <1>4, <2>2, <2>4 DEF HandFacts
      <3>4. applied[s] \in Nat
        BY <1>1 DEF TypeOK
      <3>5. Repeats(s)' => applied'[s] <= disturbances'
        BY <1>1, <1>3, <2>2, <3>1, <3>4 DEF Tally, Stands
      <3>6. active' = active
        BY <1>1 DEF world
      <3>7. Of(s)'.kind = "travel" /\ ~Repeats(s)' => SameActivity(Of(s).actor, Of(s).to)'
        BY <3>1, <3>3, <3>6 DEF Stands, SameActivity
      <3>8. QED
        BY <3>1, <3>2, <3>5, <3>7 DEF Untaken
    <2>5. QED
      BY <2>1, <2>3, <2>4 DEF InHand
  <1>5. QED
    BY <1>1, <1>2, <1>3, <1>4, EndsAlone

LEMMA BeginAlone ==
    ASSUME Inv, NEW p \in Calls, AloneInv(p), NEW request \in {"next", "other"}, Begin(p, request)
    PROVE  AloneInv(p)'
  <1>1. TypeOK /\ call[p].pc = "idle" /\ UNCHANGED <<row, world, disturbances>>
    BY DEF Inv, Begin, At, rows
  <1>2. MoreActive /\ \A t : Uncounted(t)
    BY <1>1, AllRest
  <1>3. call'[p].pc = "claim"
    BY <1>1, CallTypes DEF Begin, Call
  <1>4. ~PastClaim(p) /\ ~PastClaim(p)'
    BY <1>1, <1>3 DEF PastClaim
  <1>5. ASSUME NEW s \in Steps, HasRow(s)'
        PROVE  Tally(s)' /\ (Of(s)'.status = "queued" => Untaken(s)')
    <2>1. HasRow(s) /\ Of(s)' = Of(s)
      BY <1>1, <1>5, RestingStands
    <2>2. Tally(s)'
      BY <1>1, <1>2, <2>1, RestTally DEF AloneInv
    <2>3. Of(s).status = "queued" => Untaken(s)'
      BY <1>1, <1>2, <1>4, <2>1, UntakenAtRest DEF AloneInv, Uncounted
    <2>4. QED
      BY <2>1, <2>2, <2>3
  <1>6. QED
    BY <1>4, <1>5 DEF AloneInv

LEMMA CallStepAlone ==
    ASSUME Inv, NEW p \in Calls, AloneInv(p),
           CallStep(p) \/ Fault(p) \/ \E request \in {"next", "other"} : Begin(p, request)
    PROVE  AloneInv(p)'
  BY ClaimAlone, ReadActivesAlone, TryTravelAlone, StartTravelAlone, SaveTravelAlone,
     FileAttemptAlone, OverrideAlone, HookAlone, LookUpConditionAlone, CreateConditionAlone,
     MarkStepAlone, FinishReadAlone, FinishWriteAlone, CompletePhaseAlone, NoPhaseAlone,
     FaultAlone, BeginAlone DEF CallStep

-----------------------------------------------------------------------------
(* Requests one after the other: what clients do beside them               *)

\* Steps are added where there were none, and cancelled.
Drifts ==
    /\ UNCHANGED <<call, called, applied, overlapped>>
    /\ MoreActive /\ disturbances' \in Nat /\ disturbances <= disturbances'
    /\ \A s \in Steps : HasRow(s) => Stands(s) /\ (Of(s)' = Of(s) \/ Of(s)'.status = "cancelled")

LEMMA RowsDrift ==
    ASSUME TypeOK, NEW i \in Items, \A j \in Items : j # i => row'[j] = row[j],
           \/ row[i] = <<>>
           \/ /\ DOMAIN row'[i] = DOMAIN row[i]
              /\ \A k \in DOMAIN row[i] :
                    row'[i][k] = row[i][k] \/ row'[i][k] = Stepped(row[i][k], "cancelled")
    PROVE  \A s \in Steps : HasRow(s) => Stands(s) /\ (Of(s)' = Of(s) \/ Of(s)'.status = "cancelled")
  <1> SUFFICES ASSUME NEW s \in Steps, HasRow(s)
               PROVE  Stands(s) /\ (Of(s)' = Of(s) \/ Of(s)'.status = "cancelled")
    OBVIOUS
  <1>1. s[1] \in Items /\ s[2] \in DOMAIN row[s[1]]
    BY DEF Steps, HasRow
  <1>2. CASE s[1] # i
    <2>1. row'[s[1]] = row[s[1]]
      BY <1>1, <1>2
    <2>2. \A k \in DOMAIN row[s[1]] : SameStep(row[s[1]][k], row'[s[1]][k])
      BY <2>1 DEF SameStep
    <2>3. Stands(s)
      BY <1>1, <2>1, <2>2, SameStepsStand
    <2>4. QED
      BY <2>1, <2>3 DEF Of
  <1>3. CASE s[1] = i
    <2>1. DOMAIN row'[i] = DOMAIN row[i]
          /\ \A k \in DOMAIN row[i] :
                row'[i][k] = row[i][k] \/ row'[i][k] = Stepped(row[i][k], "cancelled")
      BY <1>1, <1>3
    <2>2. ASSUME NEW k \in DOMAIN row[i]
          PROVE  /\ SameStep(row[i][k], row'[i][k])
                 /\ row'[i][k] = row[i][k] \/ row'[i][k].status = "cancelled"
      <3>1. row[i][k] \in StepRow /\ "cancelled" \in StepStatus
        BY RowFacts DEF StepStatus
      <3>2. SameStep(row[i][k], Stepped(row[i][k], "cancelled"))
            /\ Stepped(row[i][k], "cancelled").status = "cancelled"
        BY <3>1, SteppedType
      <3>3. SameStep(row[i][k], row[i][k])
        BY DEF SameStep
      <3>4. QED
        BY <2>1, <3>2, <3>3
    <2>3. Stands(s)
      BY <1>1, <1>3, <2>1, <2>2, SameStepsStand
    <2>4. QED
      BY <1>1, <1>3, <2>2, <2>3 DEF Of
  <1>4. QED
    BY <1>2, <1>3

LEMMA ClientDrifts ==
    ASSUME Inv,
           \/ \E i \in Items : Submit(i) \/ Edit(i) \/ Cancel(i)
           \/ \E c \in Actors : StartElsewhere(c)
           \/ UNCHANGED vars
    PROVE  Drifts
  <1>1. TypeOK
    BY DEF Inv
  <1>2. disturbances \in Nat
    BY <1>1, InterventionsAssumption DEF TypeOK
  <1>3. UNCHANGED disturbances \/ Disturbance
        => disturbances' \in Nat /\ disturbances <= disturbances'
    BY <1>2 DEF Disturbance
  <1>4. ASSUME NEW i \in Items, Submit(i) \/ Edit(i) \/ Cancel(i)
        PROVE  Drifts
    <2>1. UNCHANGED <<call, called, applied, active, overlapped>>
          /\ (UNCHANGED disturbances \/ Disturbance)
      BY <1>4 DEF Submit, Edit, Cancel, Command, Disturbance, world, bounds
    <2>2. \A j \in Items : j # i => row'[j] = row[j]
      BY <1>1, <1>4 DEF Submit, Edit, Cancel, AddSteps, TypeOK
    <2>3. \/ row[i] = <<>>
          \/ /\ DOMAIN row'[i] = DOMAIN row[i]
             /\ \A k \in DOMAIN row[i] :
                   row'[i][k] = row[i][k] \/ row'[i][k] = Stepped(row[i][k], "cancelled")
      <3>1. CASE Submit(i)
        BY <3>1 DEF Submit, AddIntervention, Inv, RowsInv
      <3>2. CASE Edit(i)
        BY <1>1, <3>2 DEF Edit, TypeOK
      <3>3. CASE Cancel(i)
        BY <1>1, <3>3 DEF Cancel, TypeOK
      <3>4. QED
        BY <1>4, <3>1, <3>2, <3>3
    <2>4. \A s \in Steps : HasRow(s) => Stands(s) /\ (Of(s)' = Of(s) \/ Of(s)'.status = "cancelled")
      BY <1>1, <2>2, <2>3, RowsDrift
    <2>5. QED
      BY <1>3, <2>1, <2>4 DEF Drifts, MoreActive
  <1>5. ASSUME NEW c \in Actors, StartElsewhere(c)
        PROVE  Drifts
    <2>1. UNCHANGED <<call, called, applied, row, overlapped>> /\ Disturbance
      BY <1>5 DEF StartElsewhere, Command, Disturbance, rows
    <2>2. MoreActive
      BY <1>1, <1>5 DEF StartElsewhere, AddActivity, MoreActive, TypeOK
    <2>3. QED
      BY <1>1, <1>3, <2>1, <2>2, RestingStands DEF Drifts
  <1>6. ASSUME UNCHANGED vars
        PROVE  Drifts
    <2>1. UNCHANGED <<call, called, applied, row, active, overlapped, disturbances>>
      BY <1>6 DEF vars, rows, world, bounds
    <2>2. QED
      BY <1>1, <1>3, <2>1, RestingStands DEF Drifts, MoreActive
  <1>7. QED
    BY <1>4, <1>5, <1>6

\* A step that a client has just filed has had no effect.
LEMMA FiledUntaken ==
    ASSUME Inv, Drifts, NEW s \in Steps, ~HasRow(s), HasRow(s)'
    PROVE  applied'[s] = 0 /\ Tally(s)' /\ Untaken(s)'
  <1>1. applied'[s] = 0 /\ s \notin called'
    BY DEF Inv, RowsInv, Drifts
  <1>2. 0 <= 1 + disturbances' /\ 0 <= disturbances' /\ 0 <= 1 + 0
    <2>1. \A n \in Nat : 0 <= 1 + n /\ 0 <= n /\ 0 <= 1 + 0
      OBVIOUS
    <2>2. disturbances' \in Nat
      BY DEF Drifts
    <2>3. QED
      BY <2>1, <2>2, Zenon
  <1>3. Tally(s)'
    BY <1>1, <1>2, Zenon DEF Tally
  <1>4. Untaken(s)'
    BY <1>1, <1>2, Zenon DEF Untaken
  <1>5. QED
    BY <1>1, <1>3, <1>4

LEMMA DriftTally ==
    ASSUME Inv, Drifts, \A s \in Steps : HasRow(s) => Tally(s)
    PROVE  \A s \in Steps : HasRow(s)' => Tally(s)'
  <1> SUFFICES ASSUME NEW s \in Steps, HasRow(s)' PROVE Tally(s)'
    OBVIOUS
  <1>1. CASE ~HasRow(s)
    BY <1>1, FiledUntaken
  <1>2. CASE HasRow(s)
    <2>1. Stands(s) /\ (Of(s)' = Of(s) \/ Of(s)'.status = "cancelled") /\ Tally(s)
          /\ Uncounted(s) /\ disturbances' \in Nat /\ disturbances <= disturbances'
      BY <1>2 DEF Drifts, Uncounted
    <2>2. Of(s)'.status = "failed" => Of(s).status = "failed"
      BY <2>1
    <2>3. QED
      BY <1>2, <2>1, <2>2, TallyKept DEF Inv
  <1>3. QED
    BY <1>1, <1>2

LEMMA DriftUntaken ==
    ASSUME Inv, Drifts, NEW s \in Steps, HasRow(s), Untaken(s)
    PROVE  Untaken(s)'
  BY UntakenKept DEF Inv, Drifts

LEMMA DriftQueued ==
    ASSUME Inv, Drifts, \A s \in Steps : HasRow(s) /\ Of(s).status = "queued" => Untaken(s)
    PROVE  \A s \in Steps : HasRow(s)' /\ Of(s)'.status = "queued" => Untaken(s)'
  <1> SUFFICES ASSUME NEW s \in Steps, HasRow(s)', Of(s)'.status = "queued" PROVE Untaken(s)'
    OBVIOUS
  <1>1. CASE ~HasRow(s)
    BY <1>1, FiledUntaken
  <1>2. CASE HasRow(s)
    <2>1. Of(s)' = Of(s)
      BY <1>2 DEF Drifts
    <2>2. QED
      BY <1>2, <2>1, DriftUntaken
  <1>3. QED
    BY <1>1, <1>2

\* The steps of a batch are not filed anew, and what a call knows of them holds.
LEMMA DriftFacts ==
    ASSUME Inv, Inv', AllSteady, Drifts, NEW p \in Calls, NEW s \in Steps, Facts(p, s)
    PROVE  Facts(p, s)'
  <1>1. TypeOK /\ CallInv(p) /\ RowsInv /\ call' = call /\ called' = called /\ applied' = applied
        /\ MoreActive /\ disturbances' \in Nat /\ disturbances <= disturbances'
    BY DEF Inv, Drifts
  <1>2. s[1] \in call[p].batch => (HasRow(s)' <=> HasRow(s))
    BY <1>1, CallTypes DEF CallInv, BatchInv, AllSteady, Steady, HasRow
  <1>3. HasRow(s) => Stands(s) /\ (Of(s)' = Of(s) \/ Of(s)'.status = "cancelled")
    BY DEF Drifts
  <1>4. Hand(p, s)' <=> Hand(p, s)
    BY <1>1 DEF Hand, Here
  <1>5. Hand(p, s) => HasRow(s)
    BY <1>1 DEF Hand, CallInv, HandInv
  <1>6. Ahead(p, s)' <=> Ahead(p, s)
    BY <1>1, <1>2 DEF Ahead, CallInv, BatchInv
  <1>7. ReadAs(p, s)' = ReadAs(p, s)
    BY <1>1 DEF ReadAs
  <1>8. HasRow(s) /\ Untaken(s) => Untaken(s)'
    BY DriftUntaken
  <1>9. AheadFacts(p, s)'
    <2>1. CASE ~Ahead(p, s)
      BY <1>6, <2>1 DEF AheadFacts
    <2>2. CASE Ahead(p, s)
      BY <1>3, <1>7, <1>8, <2>2 DEF AheadFacts, Facts, Ahead
    <2>3. QED
      BY <2>1, <2>2
  <1>10. LeftFacts(p, s)'
    <2> SUFFICES ASSUME HasRow(s)', Of(s)'.status = "queued", ~Ahead(p, s), ~Hand(p, s)
                 PROVE  Untaken(s)' /\ (Of(s)'.kind = "travel" /\ ~Repeats(s)' => applied'[s] = 0)
      BY <1>4, <1>6 DEF LeftFacts
    <2>1. CASE ~HasRow(s)
      BY <2>1, FiledUntaken
    <2>2. CASE HasRow(s)
      <3>1. Of(s)' = Of(s) /\ Stands(s)
        BY <1>3, <2>2
      <3>2. Untaken(s) /\ (Of(s).kind = "travel" /\ ~Repeats(s) => applied[s] = 0)
        BY <2>2, <3>1 DEF Facts, LeftFacts
      <3>3. QED
        BY <1>1, <1>8, <2>2, <3>1, <3>2 DEF Stands
    <2>3. QED
      BY <2>1, <2>2
  <1>11. DirectedFacts(p, s)'
    <2> SUFFICES ASSUME s \in call[p].directed
                 PROVE  /\ Of(s)'.kind = "attempt" /\ applied'[s] = 0 /\ ~Ahead(p, s)'
                        /\ Of(s)'.status \in {"completed", "cancelled"} \/ Hand(p, s)'
                        /\ Hand(p, s)' => call'[p].pc = "mark" /\ call'[p].mark = "completed"
      BY <1>1 DEF DirectedFacts
    <2>1. HasRow(s)
      BY <1>1 DEF CallInv, BatchInv
    <2>2. Of(s)'.kind = Of(s).kind
      BY <1>3, <2>1 DEF Stands, SameStep
    <2>3. /\ Of(s).kind = "attempt" /\ applied[s] = 0 /\ ~Ahead(p, s)
          /\ Of(s).status \in {"completed", "cancelled"} \/ Hand(p, s)
          /\ Hand(p, s) => call[p].pc = "mark" /\ call[p].mark = "completed"
      BY DEF Facts, DirectedFacts
    <2>4. QED
      BY <1>1, <1>3, <1>4, <1>6, <2>1, <2>2, <2>3
  <1>12. HandFacts(p, s)'
    <2> SUFFICES ASSUME Hand(p, s) PROVE HandFacts(p, s)'
      BY <1>4 DEF HandFacts
    <2>1. /\ HasRow(s) /\ Stands(s) /\ (Of(s)' = Of(s) \/ Of(s)'.status = "cancelled")
          /\ Of(s)'.kind = Of(s).kind /\ Of(s)'.actor = Of(s).actor /\ Of(s)'.to = Of(s).to
          /\ (Repeats(s)' <=> Repeats(s))
      BY <1>3, <1>5 DEF Stands, SameStep
    <2>2. HandFacts(p, s)
      BY DEF Facts
    <2>3. call'[p].pc # "mark" => Of(s)' = ReadAs(p, s)' \/ Of(s)'.status = "cancelled"
      BY <1>1, <1>7, <2>1, <2>2 DEF HandFacts
    <2>4. call'[p].pc = "start" =>
             Of(s)'.kind = "travel" /\ Untaken(s)' /\ (~Repeats(s)' => applied'[s] = 0)
      BY <1>1, <1>8, <2>1, <2>2 DEF HandFacts
    <2>5. call'[p].pc = "started" =>
             Of(s)'.kind = "travel" /\ (~Repeats(s)' => SameActivity(Of(s).actor, Of(s).to)')
      <3>1. Of(s).actor \in Actors
        BY <1>1, <2>1, RowFacts DEF Of, HasRow, StepRow, Steps
      <3>2. SameActivity(Of(s).actor, Of(s).to) => SameActivity(Of(s).actor, Of(s).to)'
        BY <1>1, <2>1, <3>1 DEF SameActivity, MoreActive
      <3>3. QED
        BY <1>1, <2>1, <2>2, <3>2 DEF HandFacts
    <2>6. Exists("condition")' => Exists("condition")
      <3>1. \A t \in called : t \in Steps /\ HasRow(t)
        BY <1>1 DEF TypeOK, RowsInv
      <3>2. \A t \in called : Of(t)'.kind = Of(t).kind
        BY <3>1 DEF Drifts, Stands, SameStep
      <3>3. QED
        BY <1>1, <3>2 DEF Exists, Listed, Of
    <2>7. call'[p].pc = "create" => Of(s)'.kind = "condition" /\ ~Exists("condition")'
      BY <1>1, <2>1, <2>2, <2>6 DEF HandFacts
    <2>8. ASSUME call'[p].pc = "mark"
          PROVE  /\ Of(s)'.status \in {"queued", "completed", "cancelled"}
                 /\ Of(s)'.status = "queued" => call'[p].version = Of(s)'.version
                 /\ Of(s)'.status = "completed" => call'[p].mark = "completed"
                 /\ Of(s)'.status = "queued" /\ Of(s)'.kind = "travel" => call'[p].mark = "failed"
                 /\ call'[p].mark = "failed" => Untaken(s)' /\ (~Repeats(s)' => applied'[s] = 0)
                 /\ Of(s)'.kind = "attempt" => applied'[s] = 0
      BY <1>1, <1>8, <2>1, <2>2, <2>8 DEF HandFacts
    <2>9. QED
      BY <2>3, <2>4, <2>5, <2>7, <2>8 DEF HandFacts
  <1>13. QED
    BY <1>9, <1>10, <1>11, <1>12 DEF Facts

-----------------------------------------------------------------------------
(* Requests one after the other                                            *)

LEMMA ClientSerial ==
    ASSUME Inv, Inv', AllSteady, Drifts, SerialInv
    PROVE  SerialInv'
  <1> SUFFICES ASSUME ~overlapped' PROVE SerialInv'
    BY DEF SerialInv
  <1>1. ~overlapped /\ call' = call
    BY DEF Drifts
  <1>2. \A p, q \in InProgress' : p = q
    BY <1>1 DEF SerialInv, InProgress, At
  <1>3. \A s \in Steps : HasRow(s)' => Tally(s)'
    BY <1>1, DriftTally DEF SerialInv
  <1>4. \A p \in Calls : PastClaim(p)' <=> PastClaim(p)
    BY <1>1 DEF PastClaim
  <1>5. (\A p \in Calls : ~PastClaim(p)') =>
           \A s \in Steps : HasRow(s)' /\ Of(s)'.status = "queued" => Untaken(s)'
    BY <1>1, <1>4, DriftQueued DEF SerialInv
  <1>6. \A p \in Calls : PastClaim(p)' => \A s \in Steps : Facts(p, s)'
    BY <1>1, <1>4, DriftFacts DEF SerialInv
  <1>7. QED
    BY <1>2, <1>3, <1>5, <1>6 DEF SerialInv

LEMMA CallSerial ==
    ASSUME Inv, SerialInv, NEW p \in Calls,
           CallStep(p) \/ Fault(p) \/ \E request \in {"next", "other"} : Begin(p, request)
    PROVE  SerialInv'
  <1> SUFFICES ASSUME ~overlapped' PROVE SerialInv'
    BY DEF SerialInv
  <1>1. /\ ~overlapped
        /\ \A q \in Calls : q # p => ~PastClaim(q) /\ call[q].pc = "idle"
    <2>1. CASE \E request \in {"next", "other"} : Begin(p, request)
      <3>1. overlapped' = (overlapped \/ InProgress # {})
        BY <2>1 DEF Begin
      <3>2. ~overlapped /\ InProgress = {}
        BY <3>1, Zenon
      <3>3. QED
        BY <3>2 DEF InProgress, At, PastClaim
    <2>2. CASE CallStep(p) \/ Fault(p)
      <3>1. p \in InProgress
        BY <2>2 DEF Fault, InProgress, CallStep, At, Claim, ReadActives, TryTravel, Trying, StartTravel,
           SaveTravel, FileAttempt, Override, Hook, LookUpCondition, CreateCondition, Mark,
           FinishRead, FinishWrite, CompletePhase, NoPhase
      <3>2. overlapped' = overlapped
        BY <2>2 DEF Fault, Disturbance, CallStep, Claim, ReadActives, TryTravel, StartTravel, bounds,
           SaveTravel, FileAttempt, Override, Hook, LookUpCondition, CreateCondition, Mark,
           FinishRead, FinishWrite, CompletePhase, NoPhase
      <3>3. ~overlapped
        BY <3>2
      <3>4. \A q \in Calls : q # p => q \notin InProgress
        BY <3>1, <3>3 DEF SerialInv
      <3>5. QED
        BY <3>3, <3>4 DEF InProgress, At, PastClaim
    <2>3. QED
      BY <2>1, <2>2
  <1>2. AloneInv(p)
    BY <1>1 DEF SerialInv, AloneInv
  <1>3. AloneInv(p)'
    BY <1>2, CallStepAlone
  <1>4. Goes(p)
    BY CallStepGoes, BeginGoes, EndsWithoutEffect DEF Fault
  <1>5. \A q \in Calls : q # p => ~PastClaim(q)' /\ call'[q].pc = "idle"
    BY <1>1, <1>4 DEF Goes, Others, PastClaim
  <1>6. \A q, r \in InProgress' : q = r
    BY <1>5 DEF InProgress, At
  <1>7. QED
    BY <1>3, <1>5, <1>6 DEF SerialInv, AloneInv

LEMMA StepSerial ==
    ASSUME Inv, SerialInv, [Next]_vars
    PROVE  SerialInv'
  <1>1. Inv' /\ AllSteady
    BY StepInv
  <1>2. CASE \/ \E i \in Items : Submit(i) \/ Edit(i) \/ Cancel(i)
             \/ \E c \in Actors : StartElsewhere(c)
             \/ UNCHANGED vars
    BY <1>1, <1>2, ClientDrifts, ClientSerial
  <1>3. CASE \E p \in Calls :
                CallStep(p) \/ Fault(p) \/ \E request \in {"next", "other"} : Begin(p, request)
    BY <1>3, CallSerial
  <1>4. QED
    BY <1>2, <1>3 DEF Next

LEMMA InitSerial == Init => SerialInv
  <1> SUFFICES ASSUME Init PROVE SerialInv
    OBVIOUS
  <1>1. InProgress = {} /\ \A p \in Calls : ~PastClaim(p)
    BY DEF Init, Idle, InProgress, At, PastClaim
  <1>2. \A s \in Steps : ~HasRow(s)
    BY DEF Init, HasRow, Steps
  <1>3. QED
    BY <1>1, <1>2 DEF SerialInv

LEMMA SerialInvariance == Spec => [](Inv /\ SerialInv)
  <1>1. Init => Inv /\ SerialInv
    BY InitInv, InitSerial
  <1>2. Inv /\ SerialInv /\ [Next]_vars => (Inv /\ SerialInv)'
    BY StepInv, StepSerial
  <1>3. QED
    BY <1>1, <1>2, PTL DEF Spec

\* Requests one after the other apply a step once, however often calls die and
\* claim again what was left (_apply_step and apply_batch of interventions.py,
\* whose effects are committed before the step's row is saved).
THEOREM AppliedOnceHolds == Spec => []AppliedOnce
  <1>1. Inv /\ SerialInv => AppliedOnce
    <2> SUFFICES ASSUME Inv, SerialInv, ~overlapped, NEW s \in Steps
                 PROVE  applied[s] <=
                          1 + (IF s[2] \in DOMAIN row[s[1]] /\ Repeatable(s[1], s[2])
                               THEN disturbances ELSE 0)
      BY DEF AppliedOnce
    <2>1. CASE HasRow(s)
      BY <2>1 DEF SerialInv, Tally, HasRow, Repeats
    <2>2. CASE ~HasRow(s)
      <3>1. applied[s] = 0 /\ 0 <= 1 + 0
        BY <2>2 DEF Inv, RowsInv
      <3>2. QED
        BY <2>2, <3>1 DEF HasRow
    <2>3. QED
      BY <2>1, <2>2
  <1>2. QED
    BY <1>1, SerialInvariance, PTL

\* What an item reports is what became of it (domain/interventions.py:5-7): an
\* item that is settled has no queued step, whichever calls took it up and
\* wherever they died; and what requests one after the other report as failed
\* has not happened.
THEOREM ReportsHoldHolds == Spec => []ReportsHold
  <1>1. Inv /\ SerialInv => ReportsHold
    <2> SUFFICES ASSUME Inv, SerialInv PROVE FailedMeansNothing
      BY DEF ReportsHold, Inv
    <2> SUFFICES ASSUME ~overlapped, NEW i \in Items, NEW k \in DOMAIN row[i],
                        row[i][k].status = "failed", ~Repeatable(i, k)
                 PROVE  applied[<<i, k>>] = 0
      BY DEF FailedMeansNothing
    <2>1. PICK s \in Steps : s = <<i, k>>
      BY RowFacts DEF Inv
    <2>2. HasRow(s) /\ Of(s) = row[i][k] /\ ~Repeats(s)
      BY <2>1 DEF HasRow, Of, Repeats
    <2>3. Tally(s)
      BY <2>2 DEF SerialInv
    <2>4. QED
      BY <2>1, <2>2, <2>3 DEF Tally
  <1>2. QED
    BY <1>1, SerialInvariance, PTL
=============================================================================
