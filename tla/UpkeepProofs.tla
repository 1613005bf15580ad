------------------------------ MODULE UpkeepProofs ------------------------------
(***************************************************************************)
(* Theorems about the components that keep rows of their own and share     *)
(* none: what characters hold (Standing), the outbox (Outbox), the         *)
(* operators' rows (Shelf), drafts and the creation of stories             *)
(* (Authoring), conditions between phases (Conditions), perception and     *)
(* memory (Remembering), and endings and eras (Chronicle).  A section for  *)
(* each has an invariant of its rows, a lemma for each of its actions, and *)
(* its theorems about Upkeep's Spec.                                       *)
(***************************************************************************)
EXTENDS Upkeep, FiniteSetTheorems, WellFoundedInduction, TLAPS

LEMMA ComponentsBegin == Init => S!Init /\ O!Init /\ C!Init /\ R!Init /\ A!Init /\ L!Init /\ H!Init
  BY DEF Init

\* A step of them all is a step of each, or leaves its rows as they are.
LEMMA ComponentsStep ==
    ASSUME [Next]_vars
    PROVE  /\ [S!Next]_(S!vars) /\ [O!Next]_(O!vars) /\ [C!Next]_(C!vars)
           /\ [R!Next]_(R!vars) /\ [A!Next]_(A!vars) /\ [L!Next]_(L!vars)
           /\ [H!Next]_(H!vars)
  <1>1. [S!Next]_(S!vars)
    BY DEF Next, vars, standing, S!vars
  <1>2. [O!Next]_(O!vars)
    BY DEF Next, vars, outbox, O!vars
  <1>3. [C!Next]_(C!vars)
    BY DEF Next, vars, conditions, C!vars
  <1>4. [R!Next]_(R!vars)
    BY DEF Next, vars, remembering, R!vars
  <1>5. [A!Next]_(A!vars)
    BY DEF Next, vars, authoring, A!vars
  <1>6. [L!Next]_(L!vars)
    BY DEF Next, vars, shelf, L!vars
  <1>7. [H!Next]_(H!vars)
    BY DEF Next, vars, chronicle, H!vars
  <1>8. QED
    BY <1>1, <1>2, <1>3, <1>4, <1>5, <1>6, <1>7

-----------------------------------------------------------------------------
(* Standing                                                                *)

\* A verb's gate is there once it is settled, and until then one call at most
\* is about to insert it.
GateInv ==
    /\ DOMAIN s_settled = DOMAIN Verbs
    /\ \A i \in DOMAIN Verbs : s_settled[i] = 0 \/ (s_settled[i] = 1 /\ i \in s_gates)
    /\ \A c \in Calls : s_call[c] # S!Idle /\ s_call[c].intent # 0 => s_call[c].intent \notin s_gates
    /\ \A c, d \in Calls :
          s_call[c] # S!Idle /\ s_call[d] # S!Idle /\ s_call[c].intent = s_call[d].intent
            /\ s_call[c].intent # 0 => c = d

Versioned(row) == row = [value |-> row.value, version |-> row.version] /\ row.version \in Nat

RowsInv ==
    /\ DOMAIN S!FirstRows \subseteq DOMAIN s_rows
    /\ \A r \in DOMAIN s_rows : S!Kept(r) =>
          /\ Versioned(s_rows[r])
          /\ r \notin DOMAIN s_done => r \in DOMAIN S!FirstRows /\ s_rows[r].value = S!First(r)

SavesInv ==
    \A r \in DOMAIN s_done :
        /\ r \in DOMAIN s_rows /\ S!Kept(r)
        /\ \E U : s_done[r] \in Seq(U)
        /\ Len(s_done[r]) > 0

\* What a call has read of a row that is not torn is older than the row, or it
\* is the row.
Current(k, r) ==
    /\ Versioned(k.seen[r])
    /\ k.ops[r][1].does \in {"fold", "move"} /\ Len(k.ops[r]) = 1
    /\ k.req.kind = "handover" => k.seen[r].value = k.req.who
    /\ r \in S!Written(k) \ s_torn =>
          /\ k.seen[r].version <= S!Row(r).version
          /\ k.seen[r].version = S!Row(r).version => k.seen[r].value = S!Row(r).value
CallShape(k) ==
    /\ k = [pc |-> k.pc, req |-> k.req, intent |-> k.intent, ops |-> k.ops, seen |-> k.seen]
    /\ DOMAIN k.seen = DOMAIN k.ops
SeenInv ==
    /\ DOMAIN s_call = Calls
    /\ \A c \in Calls : s_call[c] = S!Idle \/
          (CallShape(s_call[c]) /\ \A r \in DOMAIN s_call[c].seen : S!Kept(r) => Current(s_call[c], r))

StandingInv == GateInv /\ RowsInv /\ SavesInv /\ SeenInv /\ S!SavesFollow

LEMMA StandingInit == S!Init => StandingInv
  <1> SUFFICES ASSUME S!Init PROVE StandingInv
    OBVIOUS
  <1>1. GateInv /\ SeenInv
    BY DEF S!Init, S!Idle, GateInv, SeenInv
  <1>2. RowsInv
    BY DEF S!Init, S!FirstRows, S!First, RowsInv, Versioned
  <1>3. SavesInv /\ S!SavesFollow
    BY DEF S!Init, SavesInv, S!SavesFollow
  <1>4. QED
    BY <1>1, <1>2, <1>3 DEF StandingInv

\* A request does one thing to a relationship or an item.
LEMMA OneOperation ==
    ASSUME NEW req, req.kind \in {"claim", "evidence", "transfer", "handover"},
           NEW r \in DOMAIN S!Operations(req), S!Kept(r)
    PROVE  /\ S!Operations(req)[r][1].does \in {"fold", "move"}
           /\ Len(S!Operations(req)[r]) = 1
           /\ req.kind = "handover" => r = S!ItemRow(req.item)
  <1>1. CASE req.kind = "claim"
    <2>1. r \in S!Heard(req) \cup S!Doubted(req)
      BY <1>1 DEF S!Operations
    <2>2. PICK l, t : r = S!BeliefRow(l, t)
      BY <2>1 DEF S!Heard, S!Doubted
    <2>3. r[1] = "belief"
      BY <2>2 DEF S!BeliefRow
    <2>4. QED
      BY <2>3 DEF S!Kept
  <1>2. CASE req.kind = "evidence"
    BY <1>2 DEF S!Operations
  <1>3. CASE req.kind \in {"transfer", "handover"}
    BY <1>3 DEF S!Operations
  <1>4. QED
    BY <1>1, <1>2, <1>3

LEMMA RowVersioned ==
    ASSUME RowsInv, NEW r, S!Kept(r)
    PROVE  Versioned(S!Row(r))
  BY DEF RowsInv, S!Row, S!NoRow, Versioned

LEMMA StandingReads ==
    ASSUME StandingInv, NEW c \in Calls, NEW req, NEW intent, S!Read(c, req, intent),
           req.kind \in {"claim", "evidence", "transfer", "handover"},
           intent # 0 => intent \in DOMAIN Verbs /\ ~S!Gated(intent)
    PROVE  StandingInv'
  <1>1. PICK v : s_call' = [s_call EXCEPT ![c] = v]
                 /\ (v = S!Idle \/ (S!Acceptable(req)
                       /\ v = [pc |-> "save", req |-> req, intent |-> intent,
                               ops |-> S!Operations(req), seen |-> S!Seen(req)]))
    BY DEF S!Read
  <1>2. UNCHANGED <<s_rows, s_gates, s_claims, s_done, s_settled, s_torn>>
    BY DEF S!Read
  <1>3. RowsInv' /\ SavesInv' /\ S!SavesFollow'
    BY <1>2 DEF StandingInv, RowsInv, SavesInv, S!SavesFollow, S!Before, S!First
  <1>4. v # S!Idle => v.intent = intent
    BY <1>1
  <1>5. GateInv'
    BY <1>1, <1>2, <1>4 DEF StandingInv, GateInv, SeenInv, S!Gated, S!Idle
  <1>6. ASSUME v # S!Idle
        PROVE  CallShape(v) /\ \A r \in DOMAIN v.seen : S!Kept(r) => Current(v, r)
    <2>1. /\ S!Acceptable(req) /\ v.req = req /\ v.ops = S!Operations(req) /\ v.seen = S!Seen(req)
          /\ CallShape(v)
      BY <1>1, <1>6 DEF CallShape, S!Seen
    <2>2. ASSUME NEW r \in DOMAIN v.seen, S!Kept(r) PROVE Current(v, r)
      <3>1. r \in DOMAIN S!Operations(req) /\ v.seen[r] = S!Row(r)
        BY <2>1, <2>2 DEF S!Seen
      <3>2. Versioned(v.seen[r])
        BY <2>2, <3>1, RowVersioned DEF StandingInv
      <3>3. req.kind = "handover" => S!Row(r).value = req.who
        BY <2>1, <2>2, <3>1, OneOperation DEF S!Acceptable
      <3>4. QED
        BY <2>1, <2>2, <3>1, <3>2, <3>3, OneOperation DEF Current, Versioned
    <2>3. QED
      BY <2>1, <2>2
  <1>7. \A k, r : Current(k, r)' <=> Current(k, r)
    BY <1>2 DEF Current, S!Row
  <1>8. SeenInv'
    BY <1>1, <1>6, <1>7 DEF StandingInv, SeenInv
  <1>9. QED
    BY <1>3, <1>5, <1>8 DEF StandingInv

\* Where calls stop, or go on with a record of the same request.
LEMMA GateStays ==
    ASSUME StandingInv, NEW c \in Calls, NEW v, s_call[c] # S!Idle, s_call' = [s_call EXCEPT ![c] = v],
           v = S!Idle \/ v.intent = s_call[c].intent, UNCHANGED <<s_gates, s_settled>>
    PROVE  GateInv'
  BY DEF StandingInv, GateInv, SeenInv, S!Idle

LEMMA StandingAbandons ==
    ASSUME StandingInv, NEW c \in Calls, S!Abandon(c)
    PROVE  StandingInv'
  <1>1. /\ s_call[c] # S!Idle /\ s_call' = [s_call EXCEPT ![c] = S!Idle]
        /\ UNCHANGED <<s_rows, s_gates, s_claims, s_done, s_settled, s_torn>>
    BY DEF S!Abandon
  <1>2. RowsInv' /\ SavesInv' /\ S!SavesFollow'
    BY <1>1 DEF StandingInv, RowsInv, SavesInv, S!SavesFollow, S!Before, S!First
  <1>3. \A k, r : Current(k, r)' <=> Current(k, r)
    BY <1>1 DEF Current, S!Row
  <1>4. SeenInv'
    BY <1>1, <1>3 DEF StandingInv, SeenInv
  <1>5. GateInv'
    BY <1>1, GateStays
  <1>6. QED
    BY <1>2, <1>4, <1>5 DEF StandingInv

\* What a call goes on with when nothing that it compares has changed.
LEMMA ComparedIsCurrent ==
    ASSUME StandingInv, NEW k, CallShape(k), \A r \in DOMAIN k.seen : S!Kept(r) => Current(k, r),
           ~S!Stale(k), NEW v, v = S!Compared(k)
    PROVE  /\ CallShape(v) /\ v.intent = k.intent
           /\ \A r \in DOMAIN v.seen : S!Kept(r) => Current(v, r)
  <1>1. PICK seen : seen = S!Reread(k)
    OBVIOUS
  <1>2. /\ DOMAIN seen = DOMAIN k.seen
        /\ \A r \in DOMAIN seen : seen[r] = [value |-> k.seen[r].value, version |-> S!Row(r).version]
    BY <1>1 DEF S!Reread
  <1>3. v = [pc |-> "write", req |-> k.req, intent |-> k.intent, ops |-> k.ops, seen |-> seen]
    BY <1>1 DEF CallShape, S!Compared
  <1>4. v.req = k.req /\ v.intent = k.intent /\ v.ops = k.ops /\ v.seen = seen /\ CallShape(v)
    BY <1>2, <1>3 DEF CallShape
  <1>5. \A r \in DOMAIN seen : /\ v.seen[r].value = k.seen[r].value
                              /\ v.seen[r].version = S!Row(r).version
    <2>1. ASSUME NEW r \in DOMAIN seen
          PROVE  seen[r].value = k.seen[r].value /\ seen[r].version = S!Row(r).version
      <3>1. PICK value, version : value = k.seen[r].value /\ version = S!Row(r).version
        OBVIOUS
      <3>2. seen[r] = [value |-> value, version |-> version]
        BY <1>2, <2>1, <3>1
      <3>3. QED
        BY <3>1, <3>2
    <2>2. v.seen = seen
      BY <1>4
    <2>3. QED
      BY <2>1, <2>2
  <1>6. \A r : r \in S!Written(v) <=> r \in S!Written(k)
    BY <1>2, <1>4, <1>5 DEF S!Written
  <1>7. ASSUME NEW r \in DOMAIN v.seen, S!Kept(r) PROVE Current(v, r)
    <2>1. Current(k, r)
      BY <1>2, <1>4, <1>7
    <2>2. Versioned(S!Row(r))
      BY <1>7, RowVersioned DEF StandingInv
    <2>3. r \in S!Written(k) => S!Row(r).version = k.seen[r].version
      BY <2>1 DEF S!Stale, S!Guarded, Current
    <2>4. Versioned(v.seen[r]) /\ v.seen[r].version <= S!Row(r).version
      <3>1. seen[r] = [value |-> k.seen[r].value, version |-> S!Row(r).version]
        BY <1>2, <1>4, <1>7
      <3>2. Versioned(seen[r]) /\ seen[r].version <= S!Row(r).version
        BY <2>2, <3>1 DEF Versioned
      <3>3. QED
        BY <1>4, <3>2
    <2>5. r \in S!Written(v) \ s_torn => v.seen[r].value = S!Row(r).value
      BY <1>2, <1>4, <1>5, <1>6, <1>7, <2>1, <2>3 DEF Current
    <2>6. QED
      BY <1>2, <1>4, <1>5, <1>7, <2>1, <2>4, <2>5 DEF Current
  <1>8. QED
    BY <1>4, <1>7

LEMMA StandingSaves ==
    ASSUME StandingInv, NEW c \in Calls, S!Save(c)
    PROVE  StandingInv'
  <1>1. PICK k : k = s_call[c]
    OBVIOUS
  <1>2. PICK v : /\ s_call' = [s_call EXCEPT ![c] = v]
                 /\ v = IF S!Stale(k) THEN S!Idle ELSE S!Compared(k)
    BY <1>1 DEF S!Save
  <1>3. k # S!Idle /\ UNCHANGED <<s_rows, s_gates, s_claims, s_done, s_settled, s_torn>>
    BY <1>1 DEF S!Save, S!Idle
  <1>4. v = S!Idle \/ (v.intent = k.intent /\ CallShape(v)
                       /\ \A r \in DOMAIN v.seen : S!Kept(r) => Current(v, r))
    BY <1>1, <1>2, <1>3, ComparedIsCurrent DEF StandingInv, SeenInv
  <1>5. RowsInv' /\ SavesInv' /\ S!SavesFollow'
    BY <1>3 DEF StandingInv, RowsInv, SavesInv, S!SavesFollow, S!Before, S!First
  <1>6. \A d, r : Current(d, r)' <=> Current(d, r)
    BY <1>3 DEF Current, S!Row
  <1>7. SeenInv'
    BY <1>2, <1>4, <1>6 DEF StandingInv, SeenInv
  <1>8. GateInv'
    BY <1>1, <1>2, <1>3, <1>4, GateStays
  <1>9. QED
    BY <1>5, <1>7, <1>8 DEF StandingInv

LEMMA LogExtends ==
    ASSUME NEW log, \E U : log \in Seq(U), NEW e
    PROVE  /\ \E V : Append(log, e) \in Seq(V)
           /\ Len(log) \in Nat /\ Len(Append(log, e)) = Len(log) + 1
           /\ DOMAIN Append(log, e) = 1..(Len(log) + 1) /\ DOMAIN log = 1..Len(log)
           /\ \A n \in 1..Len(log) : Append(log, e)[n] = log[n]
           /\ Append(log, e)[Len(log) + 1] = e
  <1>1. PICK U : log \in Seq(U)
    OBVIOUS
  <1>2. PICK V : V = U \cup {e}
    OBVIOUS
  <1>3. log \in Seq(V) /\ e \in V
    <2>1. Len(log) \in Nat /\ log \in [1..Len(log) -> U]
      BY <1>1
    <2>2. log \in [1..Len(log) -> V]
      BY <1>2, <2>1
    <2>3. QED
      BY <1>2, <2>1, <2>2
  <1>4. Append(log, e) \in Seq(V)
    BY <1>3
  <1>5. QED
    BY <1>3, <1>4

LEMMA StandingWrites ==
    ASSUME S!StandingAssumption, StandingInv, NEW c \in Calls, S!Write(c)
    PROVE  StandingInv'
  <1>1. PICK k : k = s_call[c]
    OBVIOUS
  <1>2. /\ k.pc = "write"
        /\ s_rows' = [r \in DOMAIN s_rows \cup S!Written(k) |->
                        IF r \in S!Written(k) THEN S!Saved(k, r) ELSE s_rows[r]]
        /\ s_gates' = s_gates \cup ({k.intent} \ {0})
        /\ s_settled' = [i \in DOMAIN Verbs |-> IF i = k.intent THEN s_settled[i] + 1 ELSE s_settled[i]]
        /\ s_done' = [r \in DOMAIN s_done \cup {w \in S!Written(k) : S!Kept(w)} |->
                        IF r \in S!Written(k) THEN Append(S!Log(r), S!Entry(k, r)) ELSE s_done[r]]
        /\ s_torn' = s_torn \cup {r \in S!Written(k) : k.seen[r].version # S!Row(r).version}
        /\ s_call' = [s_call EXCEPT ![c] = S!Idle]
    BY <1>1 DEF S!Write, S!NoIntent
  <1>3. k # S!Idle /\ CallShape(k) /\ \A r \in DOMAIN k.seen : S!Kept(r) => Current(k, r)
    BY <1>1, <1>2 DEF StandingInv, SeenInv, S!Idle
  <1>4. GateInv'
    <2>1. 0 \notin DOMAIN Verbs
      BY DEF S!StandingAssumption
    <2>2. k.intent # 0 => k.intent \notin s_gates
      BY <1>1, <1>3 DEF StandingInv, GateInv
    <2>3. /\ DOMAIN s_settled' = DOMAIN Verbs
          /\ \A i \in DOMAIN Verbs : s_settled'[i] = 0 \/ (s_settled'[i] = 1 /\ i \in s_gates')
      BY <1>2, <2>1, <2>2 DEF StandingInv, GateInv
    <2>4. \A d \in Calls : s_call'[d] # S!Idle => d # c /\ s_call'[d] = s_call[d]
      BY <1>2 DEF StandingInv, SeenInv
    <2>5. \A d \in Calls : s_call'[d] # S!Idle /\ s_call'[d].intent # 0 => s_call'[d].intent \notin s_gates'
      BY <1>1, <1>2, <1>3, <2>4 DEF StandingInv, GateInv
    <2>6. QED
      BY <2>3, <2>4, <2>5 DEF StandingInv, GateInv
  \* What is written of a relationship or an item that is not torn.
  <1>5. ASSUME NEW r \in S!Written(k), S!Kept(r)
        PROVE  /\ Versioned(S!Saved(k, r)) /\ S!Saved(k, r).version > k.seen[r].version
               /\ r \notin s_torn' => /\ k.seen[r].version = S!Row(r).version
                                      /\ k.seen[r].value = S!Row(r).value
    <2>1. Current(k, r) /\ k.seen[r].version \in Nat /\ Len(k.ops[r]) = 1
      BY <1>3, <1>5 DEF S!Written, Current, Versioned
    <2>2. PICK value : value = S!Outcome(k.seen[r].value, k.ops[r])
      OBVIOUS
    <2>3. PICK more \in {1, 2} : S!Saved(k, r) = [value |-> value, version |-> k.seen[r].version + more]
      BY <2>1, <2>2 DEF S!Saved
    <2>4. Versioned(S!Saved(k, r)) /\ S!Saved(k, r).version > k.seen[r].version
      BY <2>1, <2>3 DEF Versioned
    <2>5. QED
      BY <1>2, <1>5, <2>1, <2>4 DEF Current
  <1>6. DOMAIN s_rows' = DOMAIN s_rows \cup S!Written(k)
        /\ DOMAIN s_done' = DOMAIN s_done \cup {w \in S!Written(k) : S!Kept(w)}
    BY <1>2
  <1>7. /\ \A r \in S!Written(k) : s_rows'[r] = S!Saved(k, r)
        /\ \A r \in DOMAIN s_rows \ S!Written(k) : s_rows'[r] = s_rows[r]
    BY <1>2
  <1>8. RowsInv'
    <2>1. ASSUME NEW r \in DOMAIN s_rows', S!Kept(r) PROVE Versioned(s_rows'[r])
      BY <1>5, <1>6, <1>7, <2>1 DEF StandingInv, RowsInv
    <2>2. ASSUME NEW r \in DOMAIN s_rows', S!Kept(r), r \notin DOMAIN s_done'
          PROVE  r \in DOMAIN S!FirstRows /\ s_rows'[r].value = S!First(r)
      BY <1>6, <1>7, <2>2 DEF StandingInv, RowsInv
    <2>3. QED
      BY <1>6, <2>1, <2>2 DEF StandingInv, RowsInv, S!First, Versioned
  <1>9. \A r \in DOMAIN s_done' : S!Kept(r) /\ r \in DOMAIN s_rows'
    BY <1>6 DEF StandingInv, SavesInv
  \* A log that grows, and what is first or last of it.
  <1>10. ASSUME NEW r \in S!Written(k), S!Kept(r)
         PROVE  /\ s_done'[r] = Append(S!Log(r), S!Entry(k, r))
                /\ \E U : S!Log(r) \in Seq(U)
                /\ r \in DOMAIN s_done => Len(S!Log(r)) > 0 /\ S!Log(r) = s_done[r]
                /\ r \notin DOMAIN s_done => Len(S!Log(r)) = 0
    <2>1. s_done'[r] = Append(S!Log(r), S!Entry(k, r))
      BY <1>2, <1>10
    <2>2. CASE r \in DOMAIN s_done
      BY <2>1, <2>2 DEF StandingInv, SavesInv, S!Log
    <2>3. CASE r \notin DOMAIN s_done
      <3>1. S!Log(r) = <<>> /\ <<>> \in Seq({}) /\ Len(<<>>) = 0
        BY <2>3 DEF S!Log
      <3>2. QED
        BY <2>1, <2>3, <3>1
    <2>4. QED
      BY <2>2, <2>3
  <1>11. SavesInv'
    <2>1. ASSUME NEW r \in DOMAIN s_done' PROVE (\E U : s_done'[r] \in Seq(U)) /\ Len(s_done'[r]) > 0
      <3>1. CASE r \in S!Written(k)
        <4>1. PICK log, e : log = S!Log(r) /\ e = S!Entry(k, r)
          OBVIOUS
        <4>2. s_done'[r] = Append(log, e) /\ \E U : log \in Seq(U)
          BY <1>9, <1>10, <2>1, <3>1, <4>1
        <4>3. (\E V : Append(log, e) \in Seq(V)) /\ Len(log) \in Nat /\ Len(Append(log, e)) = Len(log) + 1
          BY <4>2, LogExtends
        <4>4. QED
          BY <4>2, <4>3
      <3>2. CASE r \notin S!Written(k)
        BY <1>2, <1>6, <2>1, <3>2 DEF StandingInv, SavesInv
      <3>3. QED
        BY <3>1, <3>2
    <2>2. QED
      BY <1>9, <2>1 DEF SavesInv
  <1>12. S!SavesFollow'
    <2>1. SUFFICES ASSUME NEW r \in DOMAIN s_done', r \notin s_torn'
                   PROVE  /\ s_rows'[r].value = s_done'[r][Len(s_done'[r])].left
                          /\ \A n \in DOMAIN s_done'[r] :
                                /\ s_done'[r][n].from = S!Before(r, n)'
                                /\ s_done'[r][n].req.kind = "handover" => S!Before(r, n)' = s_done'[r][n].req.who
      BY Zenon DEF S!SavesFollow
    <2>2. r \notin s_torn /\ S!Kept(r) /\ S!First(r)' = S!First(r)
      BY <1>2, <1>9, <2>1 DEF S!First
    <2>3. CASE r \notin S!Written(k)
      <3>1. r \in DOMAIN s_done /\ s_done'[r] = s_done[r] /\ s_rows'[r] = s_rows[r]
        BY <1>2, <1>6, <1>7, <2>1, <2>3 DEF StandingInv, SavesInv
      <3>2. \A n : S!Before(r, n)' = S!Before(r, n)
        BY <2>2, <3>1 DEF S!Before
      <3>3. QED
        BY <2>2, <3>1, <3>2 DEF StandingInv, S!SavesFollow
    <2>4. CASE r \in S!Written(k)
      <3>1. PICK log, e : log = S!Log(r) /\ e = S!Entry(k, r)
        OBVIOUS
      <3>2. /\ s_done'[r] = Append(log, e) /\ \E U : log \in Seq(U)
            /\ r \in DOMAIN s_done => Len(log) > 0 /\ log = s_done[r]
            /\ r \notin DOMAIN s_done => Len(log) = 0
        BY <1>10, <2>2, <2>4, <3>1
      <3>3. e.req = k.req /\ e.from = k.seen[r].value /\ e.left = S!Saved(k, r).value
        BY <3>1 DEF S!Entry
      <3>4. s_rows'[r].value = e.left
        BY <1>7, <2>4, <3>3
      <3>5. PICK N \in Nat : /\ N = Len(log) /\ Len(s_done'[r]) = N + 1
                             /\ DOMAIN s_done'[r] = 1..(N + 1) /\ DOMAIN log = 1..N
                             /\ \A n \in 1..N : s_done'[r][n] = log[n]
                             /\ s_done'[r][N + 1] = e
        BY <3>2, LogExtends
      <3>6. k.seen[r].value = S!Row(r).value
        BY <1>5, <2>1, <2>2, <2>4
      <3>7. S!Before(r, N + 1)' = S!Row(r).value
        <4>1. CASE r \in DOMAIN s_done
          <5>1. N > 0 /\ s_done[r][N].left = s_rows[r].value /\ r \in DOMAIN s_rows
            BY <2>2, <3>2, <3>5, <4>1 DEF StandingInv, SavesInv, S!SavesFollow
          <5>2. s_done'[r][N] = s_done[r][N]
            BY <3>2, <3>5, <4>1, <5>1
          <5>3. S!Before(r, N + 1)' = s_done'[r][N].left
            BY <5>1 DEF S!Before
          <5>4. QED
            BY <5>1, <5>2, <5>3 DEF S!Row
        <4>2. CASE r \notin DOMAIN s_done
          <5>1. N = 0 /\ S!Before(r, N + 1)' = S!First(r)
            BY <2>2, <3>2, <3>5, <4>2 DEF S!Before
          <5>2. S!Row(r).value = S!First(r)
            BY <2>2, <4>2 DEF StandingInv, RowsInv, S!Row, S!NoRow, S!First
          <5>3. QED
            BY <5>1, <5>2
        <4>3. QED
          BY <4>1, <4>2
      <3>8. k.req.kind = "handover" => k.seen[r].value = k.req.who
        BY <1>3, <2>2, <2>4 DEF S!Written, Current
      <3>9. ASSUME NEW n \in 1..N
            PROVE  /\ s_done'[r][n].from = S!Before(r, n)'
                   /\ s_done'[r][n].req.kind = "handover" => S!Before(r, n)' = s_done'[r][n].req.who
        <4>1. r \in DOMAIN s_done /\ log = s_done[r] /\ s_done'[r][n] = s_done[r][n]
          BY <3>2, <3>5, <3>9
        <4>2. n # 1 => s_done'[r][n - 1] = s_done[r][n - 1]
          BY <3>5, <3>9, <4>1
        <4>3. S!Before(r, n)' = S!Before(r, n)
          BY <2>2, <4>2 DEF S!Before
        <4>4. n \in DOMAIN s_done[r]
          BY <3>5, <4>1
        <4>5. QED
          BY <2>2, <4>1, <4>3, <4>4 DEF StandingInv, S!SavesFollow
      <3>10. ASSUME NEW n \in DOMAIN s_done'[r]
             PROVE  /\ s_done'[r][n].from = S!Before(r, n)'
                    /\ s_done'[r][n].req.kind = "handover" => S!Before(r, n)' = s_done'[r][n].req.who
        <4>1. n \in 1..N \/ n = N + 1
          BY <3>5
        <4>2. CASE n = N + 1
          BY <3>3, <3>5, <3>6, <3>7, <3>8, <4>2
        <4>3. QED
          BY <3>9, <4>1, <4>2
      <3>11. QED
        BY <3>4, <3>5, <3>10
    <2>5. QED
      BY <2>3, <2>4
  <1>13. SeenInv'
    <2>1. ASSUME NEW m, NEW r, S!Kept(r), Current(m, r)
          PROVE  Current(m, r)'
      <3>1. Versioned(S!Row(r))
        BY <2>1, RowVersioned DEF StandingInv
      <3>2. CASE r \in S!Written(k) /\ r \notin s_torn'
        <4>1. S!Row(r)' = S!Saved(k, r)
          BY <1>6, <1>7, <3>2 DEF S!Row
        <4>2. r \notin s_torn /\ S!Saved(k, r).version \in Nat /\ S!Saved(k, r).version > S!Row(r).version
          BY <1>2, <1>5, <2>1, <3>2 DEF Versioned
        <4>3. m.seen[r].version \in Nat /\ S!Row(r).version \in Nat
          BY <2>1, <3>1 DEF Current, Versioned
        <4>4. r \in S!Written(m) => m.seen[r].version < S!Row(r)'.version
          BY <2>1, <4>1, <4>2, <4>3 DEF Current
        <4>5. QED
          BY <2>1, <4>1, <4>2, <4>3, <4>4 DEF Current
      <3>3. CASE r \notin S!Written(k)
        <4>1. S!Row(r)' = S!Row(r)
          BY <1>6, <1>7, <3>3 DEF S!Row
        <4>2. QED
          BY <1>2, <2>1, <4>1 DEF Current
      <3>4. CASE r \in s_torn'
        BY <2>1, <3>4 DEF Current
      <3>5. QED
        BY <3>2, <3>3, <3>4
    <2>2. \A d \in Calls : s_call'[d] = s_call[d] \/ s_call'[d] = S!Idle
      BY <1>2 DEF StandingInv, SeenInv
    <2>3. DOMAIN s_call' = Calls
      BY <1>2 DEF StandingInv, SeenInv
    <2>4. ASSUME NEW d \in Calls, s_call'[d] # S!Idle
          PROVE  CallShape(s_call'[d]) /\ \A r \in DOMAIN s_call'[d].seen : S!Kept(r) => Current(s_call[d], r)'
      BY <2>1, <2>2, <2>4 DEF StandingInv, SeenInv
    <2>5. QED
      BY <2>2, <2>3, <2>4 DEF SeenInv
  <1>14. QED
    BY <1>4, <1>8, <1>11, <1>12, <1>13 DEF StandingInv

LEMMA StandingStep ==
    ASSUME S!StandingAssumption, StandingInv, [S!Next]_(S!vars)
    PROVE  StandingInv'
  <1>1. CASE UNCHANGED S!vars
    BY <1>1 DEF S!vars, StandingInv, GateInv, RowsInv, SavesInv, SeenInv, Current, CallShape,
                S!Row, S!SavesFollow, S!Before, S!First
  <1>2. ASSUME NEW c \in Calls, S!VoiceClaim(c) \/ S!RecordEvidence(c) \/ S!TransferItem(c)
        PROVE  StandingInv'
    <2>1. PICK kind \in {"claim", "evidence", "transfer"} : S!Ask(c, kind)
      BY <1>2 DEF S!VoiceClaim, S!RecordEvidence, S!TransferItem
    <2>2. PICK req \in Wishes : req.kind = kind /\ S!Read(c, req, 0)
      BY <2>1 DEF S!Ask, S!NoIntent
    <2>3. QED
      BY <2>2, StandingReads
  <1>3. ASSUME NEW c \in Calls, S!Settle(c) PROVE StandingInv'
    <2>1. PICK i \in DOMAIN Verbs : ~S!Gated(i) /\ S!Read(c, Verbs[i], i)
      BY <1>3 DEF S!Settle
    <2>2. Verbs[i].kind \in {"claim", "handover"}
      BY DEF S!StandingAssumption
    <2>3. QED
      BY <2>1, <2>2, StandingReads
  <1>4. QED
    BY <1>1, <1>2, <1>3, StandingSaves, StandingWrites, StandingAbandons DEF S!Next

\* A verb that a scene settles is settled once, whoever repeats the phase and
\* however repetitions overlap (_settle_scene_verbs, stage1.py): for any numbers of
\* calls, requests and verbs.
THEOREM VerbsSettleOnceHolds == Spec => []VerbsSettleOnce
  <1>1. StandingInv => S!VerbsSettleOnce
    BY DEF StandingInv, GateInv, S!VerbsSettleOnce
  <1>2. StandingInv /\ [Next]_vars => StandingInv'
    BY StandingStep, ComponentsStep, UpkeepAssumption DEF UpkeepAssumption
  <1>3. Init => StandingInv
    BY StandingInit, ComponentsBegin
  <1>4. QED
    BY <1>1, <1>2, <1>3, PTL DEF Spec, VerbsSettleOnce

\* Each save of a relationship or an item is reckoned from what the one before it
\* left, and a handover takes the item from whom it was left with, unless the row was
\* overwritten between a comparison of versions and its commit (save_relationship,
\* save_item, _settle_transfer): for any rows, requests, verbs and calls.
THEOREM SavesFollowHolds == Spec => []SavesFollow
  <1>1. StandingInv => S!SavesFollow
    BY DEF StandingInv
  <1>2. StandingInv /\ [Next]_vars => StandingInv'
    BY StandingStep, ComponentsStep, UpkeepAssumption DEF UpkeepAssumption
  <1>3. Init => StandingInv
    BY StandingInit, ComponentsBegin
  <1>4. QED
    BY <1>1, <1>2, <1>3, PTL DEF Spec, SavesFollow

-----------------------------------------------------------------------------
(* The outbox                                                              *)

LEMMA SmallestOf ==
    ASSUME NEW T \in SUBSET Nat, T # {}
    PROVE  O!Min(T) \in T /\ \A y \in T : O!Min(T) <= y
  <1> DEFINE Less == {p \in Nat \X Nat : p[1] < p[2]}
  <1>1. IsWellFoundedOn(Less, Nat)
    BY NatLessThanWellFounded DEF OpToRel
  <1>2. PICK x \in T : \A y \in T : ~(<<y, x>> \in Less)
    BY <1>1, WFMin
  <1>3. ASSUME NEW y \in T PROVE x <= y
    <2>1. <<y, x>> \in Nat \X Nat /\ <<y, x>>[1] = y /\ <<y, x>>[2] = x
      OBVIOUS
    <2>2. ~(y < x)
      BY <1>2, <2>1
    <2>3. QED
      BY <2>2
  <1>4. QED
    BY <1>3 DEF O!Min

\* Steps at which a worker deals with the first message of its batch; it may still
\* handle the others.
Dealing == {"ack", "fail", "write"}
WaitsFor(f, m) == m \in f.batch /\ ~(f.pc \in Dealing /\ m = O!Min(f.batch))
Waiting(m) == {w \in Workers : WaitsFor(o_worker[w], m)}

WorkerType(f) ==
    /\ f = [pc |-> f.pc, batch |-> f.batch]
    /\ f.pc \in {"idle", "handle", "down"} \cup Dealing /\ f.batch \in SUBSET O!Numbers
    /\ f.batch = {} <=> f.pc \in {"idle", "down"}
WorkerInv ==
    /\ DOMAIN o_worker = Workers
    /\ \A w \in Workers : WorkerType(o_worker[w])

\* Each run of a handler was, or will be, by leave of a claim of its own.
Leave(m) == IF o_state[m] \in {"absent", "pending"} THEN 1 ELSE 0
ClaimInv ==
    /\ o_state = [m \in O!Numbers |-> o_state[m]]
    /\ o_handled \in [O!Numbers -> Nat] /\ o_requeued \in [O!Numbers -> Nat]
    /\ \A m \in O!Numbers : o_handled[m] + Cardinality(Waiting(m)) + Leave(m) <= 1 + o_requeued[m]

AckInv ==
    /\ \A m \in O!Numbers : o_state[m] = "acked" => o_handled[m] > 0
    /\ \A w \in Workers : o_worker[w].pc = "ack" => o_handled[O!Current(w)] > 0

StrandedInv == O!NoneStranded

LEMMA SameCardinality == ASSUME NEW T PROVE O!Cardinality(T) = Cardinality(T)
  BY DEF O!Cardinality, Cardinality

LEMMA FiniteWorkers ==
    ASSUME O!OutboxAssumption, NEW m
    PROVE  IsFiniteSet(Waiting(m)) /\ Cardinality(Waiting(m)) \in Nat
  <1>1. IsFiniteSet(Workers)
    BY DEF O!OutboxAssumption, O!IsFiniteSet, IsFiniteSet
  <1>2. Waiting(m) \in SUBSET Workers
    BY DEF Waiting
  <1>3. QED
    BY <1>1, <1>2, FS_Subset, FS_CardinalityType

LEMMA CurrentIn ==
    ASSUME WorkerInv, NEW w \in Workers, o_worker[w].pc \in {"handle"} \cup Dealing
    PROVE  O!Current(w) \in o_worker[w].batch /\ O!Current(w) \in O!Numbers
  <1>1. o_worker[w].batch \in SUBSET Nat /\ o_worker[w].batch # {} /\ o_worker[w].batch \in SUBSET O!Numbers
    BY DEF WorkerInv, WorkerType, O!Numbers, Dealing
  <1>2. O!Current(w) = O!Min(o_worker[w].batch)
    BY DEF O!Current
  <1>3. QED
    BY <1>1, <1>2, SmallestOf

\* What a worker that is claimed for is at most allowed: one message is looked at,
\* handled, or put away; the rest is as it was.
LEMMA LeaveIsKept ==
    ASSUME O!OutboxAssumption, NEW m \in O!Numbers, ClaimInv,
           NEW h \in Nat, NEW q \in Nat, NEW l \in {0, 1}, NEW T, NEW w,
           \/ T = Waiting(m) /\ h = o_handled[m] /\ l <= Leave(m) + (q - o_requeued[m])
           \/ T = Waiting(m) \cup {w} /\ h = o_handled[m] /\ l + 1 <= Leave(m) + (q - o_requeued[m])
           \/ T = Waiting(m) \ {w} /\ h = o_handled[m] /\ l <= Leave(m) + (q - o_requeued[m])
           \/ T = Waiting(m) \ {w} /\ w \in Waiting(m) /\ h = o_handled[m] + 1
              /\ l <= Leave(m) + (q - o_requeued[m])
    PROVE  h + Cardinality(T) + l <= 1 + q
  <1> DEFINE n == Cardinality(Waiting(m))
  <1>1. n \in Nat /\ IsFiniteSet(Waiting(m))
    BY FiniteWorkers
  <1>2. o_handled[m] \in Nat /\ o_requeued[m] \in Nat /\ Leave(m) \in {0, 1}
        /\ o_handled[m] + n + Leave(m) <= 1 + o_requeued[m]
    BY DEF ClaimInv, Leave
  <1>3. Cardinality(Waiting(m) \cup {w}) \in {n, n + 1}
    BY <1>1, FS_AddElement
  <1>4. Cardinality(Waiting(m) \ {w}) = IF w \in Waiting(m) THEN n - 1 ELSE n
    BY <1>1, FS_RemoveElement
  <1> HIDE DEF n
  <1>5. CASE T = Waiting(m) /\ h = o_handled[m] /\ l <= Leave(m) + (q - o_requeued[m])
    BY <1>1, <1>2, <1>5 DEF n
  <1>6. CASE T = Waiting(m) \cup {w} /\ h = o_handled[m] /\ l + 1 <= Leave(m) + (q - o_requeued[m])
    <2>1. Cardinality(T) \in {n, n + 1}
      BY <1>3, <1>6
    <2>2. QED
      BY <1>1, <1>2, <1>6, <2>1
  <1>7. CASE T = Waiting(m) \ {w} /\ h = o_handled[m] /\ l <= Leave(m) + (q - o_requeued[m])
    <2>1. Cardinality(T) \in {n - 1, n}
      BY <1>4, <1>7
    <2>2. QED
      BY <1>1, <1>2, <1>7, <2>1
  <1>8. CASE T = Waiting(m) \ {w} /\ w \in Waiting(m) /\ h = o_handled[m] + 1
             /\ l <= Leave(m) + (q - o_requeued[m])
    <2>1. Cardinality(T) = n - 1
      BY <1>4, <1>8
    <2>2. QED
      BY <1>1, <1>2, <1>8, <2>1
  <1>9. QED
    BY <1>5, <1>6, <1>7, <1>8

LEMMA OutboxInit == O!OutboxAssumption /\ O!Init => WorkerInv /\ ClaimInv /\ AckInv /\ StrandedInv
  <1> SUFFICES ASSUME O!OutboxAssumption, O!Init PROVE WorkerInv /\ ClaimInv /\ AckInv /\ StrandedInv
    OBVIOUS
  <1>1. \A w \in Workers : o_worker[w] = [pc |-> "idle", batch |-> {}]
    BY DEF O!Init, O!Resting
  <1>2. WorkerInv
    BY <1>1 DEF O!Init, WorkerInv, WorkerType
  <1>3. \A m \in O!Numbers : Waiting(m) = {} /\ Cardinality(Waiting(m)) = 0
    BY <1>1, FS_EmptySet DEF Waiting, WaitsFor
  <1>4. /\ o_state = [m \in O!Numbers |-> "absent"]
        /\ o_handled = [m \in O!Numbers |-> 0] /\ o_requeued = [m \in O!Numbers |-> 0]
    BY DEF O!Init
  <1>5. ClaimInv
    BY <1>3, <1>4 DEF ClaimInv, Leave
  <1>6. AckInv /\ StrandedInv
    BY <1>1, <1>4 DEF AckInv, StrandedInv, O!NoneStranded, O!In
  <1>7. QED
    BY <1>2, <1>5, <1>6

LEMMA WorkerMoves ==
    ASSUME WorkerInv, NEW w \in Workers, NEW f, WorkerType(f), o_worker' = [o_worker EXCEPT ![w] = f]
    PROVE  /\ WorkerInv' /\ o_worker'[w] = f
           /\ \A v \in Workers : v # w => o_worker'[v] = o_worker[v]
           /\ \A m :
                /\ WaitsFor(f, m) /\ ~WaitsFor(o_worker[w], m) => Waiting(m)' = Waiting(m) \cup {w}
                /\ (WaitsFor(f, m) <=> WaitsFor(o_worker[w], m)) => Waiting(m)' = Waiting(m)
                /\ ~WaitsFor(f, m) /\ WaitsFor(o_worker[w], m) =>
                      Waiting(m)' = Waiting(m) \ {w} /\ w \in Waiting(m)
  <1>1. o_worker'[w] = f /\ DOMAIN o_worker' = Workers
        /\ \A v \in Workers : v # w => o_worker'[v] = o_worker[v]
    BY DEF WorkerInv
  <1>2. WorkerInv'
    BY <1>1 DEF WorkerInv
  <1>3. ASSUME NEW m
        PROVE  /\ WaitsFor(f, m) /\ ~WaitsFor(o_worker[w], m) => Waiting(m)' = Waiting(m) \cup {w}
               /\ (WaitsFor(f, m) <=> WaitsFor(o_worker[w], m)) => Waiting(m)' = Waiting(m)
               /\ ~WaitsFor(f, m) /\ WaitsFor(o_worker[w], m) =>
                     Waiting(m)' = Waiting(m) \ {w} /\ w \in Waiting(m)
    <2>1. Waiting(m)' = {v \in Workers : WaitsFor(o_worker'[v], m)}
      BY DEF Waiting, WaitsFor
    <2>2. \A v \in Workers :
             WaitsFor(o_worker'[v], m) <=> IF v = w THEN WaitsFor(f, m) ELSE WaitsFor(o_worker[v], m)
      BY <1>1
    <2>3. QED
      BY <2>1, <2>2 DEF Waiting
  <1>4. QED
    BY <1>1, <1>2, <1>3

\* What is left of a batch when its first message is dealt with.
Advanced(w) ==
    LET left == o_worker[w].batch \ {O!Current(w)}
    IN [pc |-> IF left = {} THEN "idle" ELSE "handle", batch |-> left]

LEMMA AdvanceMoves ==
    ASSUME WorkerInv, NEW w \in Workers, o_worker[w].pc \in Dealing, O!Advance(w)
    PROVE  /\ WorkerInv' /\ o_worker'[w] = Advanced(w)
           /\ \A v \in Workers : v # w => o_worker'[v] = o_worker[v]
           /\ \A m : Waiting(m)' = Waiting(m)
  <1> DEFINE f == Advanced(w)
  <1>1. f.batch = o_worker[w].batch \ {O!Current(w)} /\ f.pc \in {"idle", "handle"}
        /\ (f.batch = {} <=> f.pc = "idle") /\ f = [pc |-> f.pc, batch |-> f.batch]
    BY DEF Advanced
  <1>2. o_worker' = [o_worker EXCEPT ![w] = f]
    BY DEF O!Advance, Advanced
  <1> HIDE DEF f
  <1>3. o_worker[w].batch \in SUBSET O!Numbers
    BY DEF WorkerInv, WorkerType
  <1>4. WorkerType(f)
    BY <1>1, <1>3 DEF WorkerType
  <1>5. \A m : WaitsFor(f, m) <=> WaitsFor(o_worker[w], m)
    BY <1>1 DEF WaitsFor, Dealing, O!Current
  <1>6. QED
    BY <1>2, <1>4, <1>5, WorkerMoves DEF f

OutboxInv == WorkerInv /\ ClaimInv /\ AckInv /\ StrandedInv

\* The worker has done something about its message, which nobody waits with now.
LEMMA PutAway ==
    ASSUME O!OutboxAssumption, OutboxInv, NEW w \in Workers, o_worker[w].pc \in Dealing, O!Advance(w),
           NEW s, o_state' = [o_state EXCEPT ![O!Current(w)] = s], s \in {"acked", "failed"},
           s = "acked" => o_handled[O!Current(w)] > 0, UNCHANGED <<o_handled, o_requeued>>
    PROVE  OutboxInv'
  <1>1. /\ WorkerInv' /\ o_worker'[w] = Advanced(w)
        /\ \A v \in Workers : v # w => o_worker'[v] = o_worker[v]
        /\ \A m : Waiting(m)' = Waiting(m)
    BY AdvanceMoves DEF OutboxInv
  <1>2. O!Current(w) \in o_worker[w].batch /\ O!Current(w) \in O!Numbers
    BY CurrentIn DEF OutboxInv
  <1>3. /\ o_state' = [m \in O!Numbers |-> o_state'[m]] /\ o_state'[O!Current(w)] = s
        /\ \A m \in O!Numbers : m # O!Current(w) => o_state'[m] = o_state[m]
    BY <1>2 DEF OutboxInv, ClaimInv
  <1>4. \A m \in O!Numbers : Leave(m)' \in {0, 1} /\ Leave(m)' <= Leave(m)
    BY <1>3 DEF Leave
  <1>5. ASSUME NEW m \in O!Numbers
        PROVE  o_handled[m] + Cardinality(Waiting(m)) + Leave(m)' <= 1 + o_requeued[m]
    <2>1. o_handled[m] \in Nat /\ o_requeued[m] \in Nat /\ Leave(m) \in {0, 1}
      BY DEF OutboxInv, ClaimInv, Leave
    <2>2. Leave(m)' <= Leave(m) + (o_requeued[m] - o_requeued[m])
      BY <1>4, <2>1
    <2>3. QED
      BY <1>4, <2>1, <2>2, LeaveIsKept DEF OutboxInv
  <1>6. ClaimInv'
    BY <1>1, <1>3, <1>5 DEF OutboxInv, ClaimInv
  <1>7. Advanced(w).pc \in {"idle", "handle"} /\ Advanced(w).batch = o_worker[w].batch \ {O!Current(w)}
    BY DEF Advanced
  <1>8. AckInv'
    BY <1>1, <1>3, <1>7 DEF OutboxInv, AckInv, O!Current
  <1>9. StrandedInv'
    <2> SUFFICES ASSUME NEW m \in O!Numbers, o_state'[m] = "claimed"
                 PROVE  \E v \in Workers : o_worker'[v].pc = "down" \/ m \in o_worker'[v].batch
      BY DEF StrandedInv, O!NoneStranded, O!In, O!At
    <2>1. m # O!Current(w) /\ o_state[m] = "claimed"
      BY <1>3
    <2>2. PICK v \in Workers : o_worker[v].pc = "down" \/ m \in o_worker[v].batch
      BY <2>1 DEF OutboxInv, StrandedInv, O!NoneStranded, O!In, O!At
    <2>3. o_worker[w].pc # "down"
      BY DEF Dealing
    <2>4. QED
      BY <1>1, <1>7, <2>1, <2>2, <2>3
  <1>10. QED
    BY <1>1, <1>6, <1>8, <1>9 DEF OutboxInv

\* A worker's step that puts nothing away, and hands on no claim.
LEMMA Looks ==
    ASSUME O!OutboxAssumption, OutboxInv, NEW w \in Workers, NEW step,
           o_worker[w].pc \in {"handle"} \cup Dealing, O!Goto(w, step),
           step \in {"fail", "write"}, UNCHANGED <<o_state, o_handled, o_requeued>>
    PROVE  OutboxInv'
  <1> DEFINE f == [o_worker[w] EXCEPT !.pc = step]
  <1>1. /\ o_worker[w] = [pc |-> o_worker[w].pc, batch |-> o_worker[w].batch]
        /\ o_worker[w].batch \in SUBSET O!Numbers /\ o_worker[w].batch # {}
    BY DEF OutboxInv, WorkerInv, WorkerType, Dealing
  <1>2. f = [pc |-> step, batch |-> o_worker[w].batch] /\ f.pc = step /\ f.batch = o_worker[w].batch
    BY <1>1
  <1>3. o_worker' = [o_worker EXCEPT ![w] = f]
    BY DEF O!Goto, OutboxInv, WorkerInv
  <1> HIDE DEF f
  <1>4. WorkerType(f)
    BY <1>1, <1>2 DEF WorkerType, Dealing
  <1>5. /\ WorkerInv' /\ o_worker'[w] = f
        /\ \A v \in Workers : v # w => o_worker'[v] = o_worker[v]
        /\ \A m :
             /\ WaitsFor(f, m) /\ ~WaitsFor(o_worker[w], m) => Waiting(m)' = Waiting(m) \cup {w}
             /\ (WaitsFor(f, m) <=> WaitsFor(o_worker[w], m)) => Waiting(m)' = Waiting(m)
             /\ ~WaitsFor(f, m) /\ WaitsFor(o_worker[w], m) =>
                   Waiting(m)' = Waiting(m) \ {w} /\ w \in Waiting(m)
    BY <1>3, <1>4, WorkerMoves DEF OutboxInv
  <1>6. \A m : WaitsFor(f, m) => WaitsFor(o_worker[w], m)
    BY <1>2 DEF WaitsFor, Dealing
  <1>7. \A m : Waiting(m)' = Waiting(m) \/ Waiting(m)' = Waiting(m) \ {w}
    BY <1>5, <1>6
  <1>8. ASSUME NEW m \in O!Numbers
        PROVE  o_handled[m] + Cardinality(Waiting(m)') + Leave(m) <= 1 + o_requeued[m]
    <2>1. o_handled[m] \in Nat /\ o_requeued[m] \in Nat /\ Leave(m) \in {0, 1}
      BY DEF OutboxInv, ClaimInv, Leave
    <2>2. Leave(m) <= Leave(m) + (o_requeued[m] - o_requeued[m])
      BY <2>1
    <2>3. CASE Waiting(m)' = Waiting(m)
      BY <2>1, <2>2, <2>3, LeaveIsKept DEF OutboxInv
    <2>4. CASE Waiting(m)' = Waiting(m) \ {w}
      BY <2>1, <2>2, <2>4, LeaveIsKept DEF OutboxInv
    <2>5. QED
      BY <1>7, <2>3, <2>4
  <1>9. ClaimInv'
    BY <1>8 DEF OutboxInv, ClaimInv, Leave
  <1>10. AckInv'
    BY <1>2, <1>5 DEF OutboxInv, AckInv, O!Current
  <1>11. StrandedInv'
    <2> SUFFICES ASSUME NEW m \in O!Numbers, o_state[m] = "claimed"
                 PROVE  \E v \in Workers : o_worker'[v].pc = "down" \/ m \in o_worker'[v].batch
      BY DEF StrandedInv, O!NoneStranded, O!In, O!At
    <2>1. PICK v \in Workers : o_worker[v].pc = "down" \/ m \in o_worker[v].batch
      BY DEF OutboxInv, StrandedInv, O!NoneStranded, O!In, O!At
    <2>2. o_worker[w].pc # "down"
      BY DEF Dealing
    <2>3. QED
      BY <1>2, <1>5, <2>1, <2>2
  <1>12. QED
    BY <1>5, <1>9, <1>10, <1>11 DEF OutboxInv

\* A run of the handler that succeeds.
LEMMA HandlerSucceeds ==
    ASSUME O!OutboxAssumption, OutboxInv, NEW w \in Workers, o_worker[w].pc = "handle",
           O!Goto(w, "ack"), o_handled' = [o_handled EXCEPT ![O!Current(w)] = @ + 1],
           UNCHANGED <<o_state, o_requeued>>
    PROVE  OutboxInv'
  <1> DEFINE f == [o_worker[w] EXCEPT !.pc = "ack"]
  <1>c0. PICK c : c = O!Current(w)
    OBVIOUS
  <1>1. /\ o_worker[w] = [pc |-> o_worker[w].pc, batch |-> o_worker[w].batch]
        /\ o_worker[w].batch \in SUBSET O!Numbers /\ o_worker[w].batch # {}
    BY DEF OutboxInv, WorkerInv, WorkerType, Dealing
  <1>2. f = [pc |-> "ack", batch |-> o_worker[w].batch] /\ f.pc = "ack" /\ f.batch = o_worker[w].batch
    BY <1>1
  <1>3. o_worker' = [o_worker EXCEPT ![w] = f]
    BY DEF O!Goto, OutboxInv, WorkerInv
  <1>a. c \in o_worker[w].batch /\ c \in O!Numbers /\ c = O!Min(o_worker[w].batch)
    BY <1>c0, CurrentIn DEF OutboxInv, O!Current
  <1>b. /\ o_handled' \in [O!Numbers -> Nat] /\ o_handled'[c] = o_handled[c] + 1
        /\ \A m \in O!Numbers : m # c => o_handled'[m] = o_handled[m]
    BY <1>c0, <1>a DEF OutboxInv, ClaimInv
  <1> HIDE DEF f
  <1>4. WorkerType(f)
    BY <1>1, <1>2 DEF WorkerType, Dealing
  <1>5. /\ WorkerInv' /\ o_worker'[w] = f
        /\ \A v \in Workers : v # w => o_worker'[v] = o_worker[v]
        /\ \A m :
             /\ WaitsFor(f, m) /\ ~WaitsFor(o_worker[w], m) => Waiting(m)' = Waiting(m) \cup {w}
             /\ (WaitsFor(f, m) <=> WaitsFor(o_worker[w], m)) => Waiting(m)' = Waiting(m)
             /\ ~WaitsFor(f, m) /\ WaitsFor(o_worker[w], m) =>
                   Waiting(m)' = Waiting(m) \ {w} /\ w \in Waiting(m)
    BY <1>3, <1>4, WorkerMoves DEF OutboxInv
  <1>6. /\ ~WaitsFor(f, c) /\ WaitsFor(o_worker[w], c)
        /\ \A m : m # c => (WaitsFor(f, m) <=> WaitsFor(o_worker[w], m))
    BY <1>1, <1>2, <1>a DEF WaitsFor, Dealing
  <1>7. /\ Waiting(c)' = Waiting(c) \ {w} /\ w \in Waiting(c)
        /\ \A m : m # c => Waiting(m)' = Waiting(m)
    BY <1>5, <1>6
  <1>8. ASSUME NEW m \in O!Numbers
        PROVE  o_handled'[m] + Cardinality(Waiting(m)') + Leave(m) <= 1 + o_requeued[m]
    <2>1. o_handled[m] \in Nat /\ o_requeued[m] \in Nat /\ Leave(m) \in {0, 1} /\ o_handled'[m] \in Nat
      BY <1>b DEF OutboxInv, ClaimInv, Leave
    <2>2. Leave(m) <= Leave(m) + (o_requeued[m] - o_requeued[m])
      BY <2>1
    <2>3. CASE m # c
      <3>1. Waiting(m)' = Waiting(m) /\ o_handled'[m] = o_handled[m]
        BY <1>7, <1>b, <2>3
      <3>2. QED
        BY <2>1, <2>2, <3>1, LeaveIsKept DEF OutboxInv
    <2>4. CASE m = c
      <3>1. Waiting(m)' = Waiting(m) \ {w} /\ w \in Waiting(m) /\ o_handled'[m] = o_handled[m] + 1
        BY <1>7, <1>b, <2>4
      <3>2. QED
        BY <2>1, <2>2, <3>1, LeaveIsKept DEF OutboxInv
    <2>5. QED
      BY <2>3, <2>4
  <1>9. ClaimInv'
    BY <1>b, <1>8 DEF OutboxInv, ClaimInv, Leave
  <1>c. \A m \in O!Numbers : o_handled[m] > 0 => o_handled'[m] > 0
    BY <1>b DEF OutboxInv, ClaimInv
  <1>d. o_handled'[c] > 0
    BY <1>a, <1>b DEF OutboxInv, ClaimInv
  <1>10. AckInv'
    <2>1. \A m \in O!Numbers : o_state'[m] = "acked" => o_handled'[m] > 0
      BY <1>c DEF OutboxInv, AckInv
    <2>2. ASSUME NEW v \in Workers, o_worker'[v].pc = "ack" PROVE o_handled'[O!Min(o_worker'[v].batch)] > 0
      <3>1. CASE v = w
        BY <1>2, <1>5, <1>a, <1>d, <3>1
      <3>2. CASE v # w
        <4>1. o_worker[v].pc = "ack" /\ o_worker'[v] = o_worker[v]
          BY <1>5, <2>2, <3>2
        <4>2. O!Current(v) \in O!Numbers /\ o_handled[O!Current(v)] > 0
          BY <4>1, CurrentIn DEF OutboxInv, AckInv, Dealing
        <4>3. QED
          BY <1>c, <4>1, <4>2 DEF O!Current
      <3>3. QED
        BY <3>1, <3>2
    <2>3. QED
      BY <2>1, <2>2 DEF AckInv, O!Current
  <1>11. StrandedInv'
    <2> SUFFICES ASSUME NEW m \in O!Numbers, o_state[m] = "claimed"
                 PROVE  \E v \in Workers : o_worker'[v].pc = "down" \/ m \in o_worker'[v].batch
      BY DEF StrandedInv, O!NoneStranded, O!In, O!At
    <2>1. PICK v \in Workers : o_worker[v].pc = "down" \/ m \in o_worker[v].batch
      BY DEF OutboxInv, StrandedInv, O!NoneStranded, O!In, O!At
    <2>2. QED
      BY <1>2, <1>5, <2>1
  <1>12. QED
    BY <1>5, <1>9, <1>10, <1>11 DEF OutboxInv

LEMMA AddKeeps ==
    ASSUME O!OutboxAssumption, OutboxInv, O!Add
    PROVE  OutboxInv'
  <1>1. PICK a : a = O!Min(O!In("absent"))
    OBVIOUS
  <1>2. O!In("absent") \in SUBSET Nat /\ O!In("absent") # {}
    BY DEF O!In, O!Numbers, O!Add
  <1>3. a \in O!Numbers /\ o_state[a] = "absent"
    BY <1>1, <1>2, SmallestOf DEF O!In
  <1>4. /\ o_state' = [m \in O!Numbers |-> o_state'[m]] /\ o_state'[a] = "pending"
        /\ \A m \in O!Numbers : m # a => o_state'[m] = o_state[m]
    BY <1>1, <1>3 DEF O!Add, OutboxInv, ClaimInv
  <1>5. UNCHANGED <<o_worker, o_handled, o_requeued>>
    BY DEF O!Add
  <1>6. \A m : Waiting(m)' = Waiting(m)
    BY <1>5 DEF Waiting, WaitsFor
  <1>7. \A m \in O!Numbers : Leave(m)' = Leave(m)
    BY <1>3, <1>4 DEF Leave
  <1>8. ClaimInv'
    BY <1>4, <1>5, <1>6, <1>7 DEF OutboxInv, ClaimInv
  <1>9. WorkerInv' /\ AckInv'
    BY <1>4, <1>5 DEF OutboxInv, WorkerInv, AckInv, O!Current
  <1>10. StrandedInv'
    BY <1>4, <1>5 DEF OutboxInv, StrandedInv, O!NoneStranded, O!In, O!At
  <1>11. QED
    BY <1>8, <1>9, <1>10 DEF OutboxInv

\* The batch an idle worker claims has the first of the messages due in it.
LEMMA BatchIsDue ==
    ASSUME O!OutboxAssumption, O!Due # {}
    PROVE  O!Batch # {} /\ O!Batch \subseteq O!Due
  <1>1. O!Due \in SUBSET Nat
    BY DEF O!Due, O!In, O!Numbers
  <1>2. O!Min(O!Due) \in O!Due /\ \A y \in O!Due : O!Min(O!Due) <= y
    BY <1>1, SmallestOf
  <1>a. ASSUME NEW n \in O!Due PROVE ~(n < O!Min(O!Due))
    <2>1. PICK d : d = O!Min(O!Due)
      OBVIOUS
    <2>2. n \in Nat /\ d \in Nat /\ d <= n
      BY <1>1, <1>2, <2>1
    <2>3. ~(n < d)
      BY <2>2
    <2>4. QED
      BY <2>1, <2>3
  <1>3. {n \in O!Due : n < O!Min(O!Due)} = {}
    BY <1>a
  <1>4. O!Cardinality({n \in O!Due : n < O!Min(O!Due)}) = 0
    BY <1>3, SameCardinality, FS_EmptySet
  <1>5. 0 < Limit
    BY DEF O!OutboxAssumption
  <1>6. O!Min(O!Due) \in O!Batch
    BY <1>2, <1>4, <1>5 DEF O!Batch
  <1>7. QED
    BY <1>6 DEF O!Batch

LEMMA ClaimKeeps ==
    ASSUME O!OutboxAssumption, OutboxInv, NEW w \in Workers, O!Claim(w)
    PROVE  OutboxInv'
  <1>1. PICK B : B = O!Batch
    OBVIOUS
  <1>2. B # {} /\ B \subseteq O!Numbers /\ \A m \in B : o_state[m] = "pending"
    BY <1>1, BatchIsDue DEF O!Claim, O!Due, O!In
  <1>3. /\ o_state' = [m \in O!Numbers |-> IF m \in B THEN "claimed" ELSE o_state[m]]
        /\ o_worker[w].pc = "idle" /\ UNCHANGED <<o_handled, o_requeued>>
    BY <1>1 DEF O!Claim, O!At
  <1> DEFINE f == [pc |-> "handle", batch |-> B]
  <1>4. f.pc = "handle" /\ f.batch = B /\ f = [pc |-> f.pc, batch |-> f.batch]
    OBVIOUS
  <1>5. o_worker' = [o_worker EXCEPT ![w] = f]
    BY <1>1 DEF O!Claim
  <1> HIDE DEF f
  <1>6. WorkerType(f)
    BY <1>2, <1>4 DEF WorkerType
  <1>7. o_worker[w].batch = {}
    BY <1>3 DEF OutboxInv, WorkerInv, WorkerType
  <1>8. /\ WorkerInv' /\ o_worker'[w] = f
        /\ \A v \in Workers : v # w => o_worker'[v] = o_worker[v]
        /\ \A m :
             /\ WaitsFor(f, m) /\ ~WaitsFor(o_worker[w], m) => Waiting(m)' = Waiting(m) \cup {w}
             /\ (WaitsFor(f, m) <=> WaitsFor(o_worker[w], m)) => Waiting(m)' = Waiting(m)
             /\ ~WaitsFor(f, m) /\ WaitsFor(o_worker[w], m) =>
                   Waiting(m)' = Waiting(m) \ {w} /\ w \in Waiting(m)
    BY <1>5, <1>6, WorkerMoves DEF OutboxInv
  <1>9. \A m : ~WaitsFor(o_worker[w], m) /\ (WaitsFor(f, m) <=> m \in B)
    BY <1>4, <1>7 DEF WaitsFor, Dealing
  <1>10. \A m : Waiting(m)' = IF m \in B THEN Waiting(m) \cup {w} ELSE Waiting(m)
    BY <1>8, <1>9
  <1>11. \A m \in O!Numbers : /\ m \in B => Leave(m) = 1 /\ Leave(m)' = 0
                              /\ m \notin B => Leave(m)' = Leave(m)
    BY <1>2, <1>3 DEF Leave
  <1>12. ASSUME NEW m \in O!Numbers
         PROVE  o_handled[m] + Cardinality(Waiting(m)') + Leave(m)' <= 1 + o_requeued[m]
    <2>1. o_handled[m] \in Nat /\ o_requeued[m] \in Nat /\ Leave(m) \in {0, 1} /\ Leave(m)' \in {0, 1}
      BY DEF OutboxInv, ClaimInv, Leave
    <2>2. CASE m \in B
      <3>1. Waiting(m)' = Waiting(m) \cup {w}
        BY <1>10, <2>2
      <3>2. Leave(m)' + 1 <= Leave(m) + (o_requeued[m] - o_requeued[m])
        BY <1>11, <2>1, <2>2
      <3>3. QED
        BY <2>1, <3>1, <3>2, LeaveIsKept DEF OutboxInv
    <2>3. CASE m \notin B
      <3>1. Waiting(m)' = Waiting(m)
        BY <1>10, <2>3
      <3>2. Leave(m)' <= Leave(m) + (o_requeued[m] - o_requeued[m])
        BY <1>11, <2>1, <2>3
      <3>3. QED
        BY <2>1, <3>1, <3>2, LeaveIsKept DEF OutboxInv
    <2>4. QED
      BY <2>2, <2>3
  <1>13. ClaimInv'
    BY <1>3, <1>12 DEF OutboxInv, ClaimInv
  <1>14. AckInv'
    BY <1>3, <1>4, <1>8 DEF OutboxInv, AckInv, O!Current
  <1>15. StrandedInv'
    <2> SUFFICES ASSUME NEW m \in O!Numbers, o_state'[m] = "claimed"
                 PROVE  \E v \in Workers : o_worker'[v].pc = "down" \/ m \in o_worker'[v].batch
      BY DEF StrandedInv, O!NoneStranded, O!In, O!At
    <2>1. CASE m \in B
      BY <1>4, <1>8, <2>1
    <2>2. CASE m \notin B
      <3>1. o_state[m] = "claimed"
        BY <1>3, <2>2
      <3>2. PICK v \in Workers : o_worker[v].pc = "down" \/ m \in o_worker[v].batch
        BY <3>1 DEF OutboxInv, StrandedInv, O!NoneStranded, O!In, O!At
      <3>3. QED
        BY <1>3, <1>7, <1>8, <3>2
    <2>3. QED
      BY <2>1, <2>2
  <1>16. QED
    BY <1>8, <1>13, <1>14, <1>15 DEF OutboxInv

LEMMA AckKeeps ==
    ASSUME O!OutboxAssumption, OutboxInv, NEW w \in Workers, O!Ack(w)
    PROVE  OutboxInv'
  <1>1. o_worker[w].pc = "ack" /\ O!Advance(w) /\ UNCHANGED <<o_handled, o_requeued>>
    BY DEF O!Ack, O!At
  <1>2. O!Current(w) \in O!Numbers
    BY <1>1, CurrentIn DEF OutboxInv, Dealing
  <1>3. PICK s : s = IF o_state[O!Current(w)] = "failed" THEN "failed" ELSE "acked"
    OBVIOUS
  <1>4. o_state' = [o_state EXCEPT ![O!Current(w)] = s]
    BY <1>2, <1>3 DEF O!Ack, OutboxInv, ClaimInv
  <1>5. o_handled[O!Current(w)] > 0
    BY <1>1 DEF OutboxInv, AckInv
  <1>6. QED
    BY <1>1, <1>3, <1>4, <1>5, PutAway DEF Dealing

LEMMA FailReadKeeps ==
    ASSUME O!OutboxAssumption, OutboxInv, NEW w \in Workers, O!FailRead(w)
    PROVE  OutboxInv'
  <1>1. o_worker[w].pc = "fail" /\ UNCHANGED <<o_state, o_handled, o_requeued>>
    BY DEF O!FailRead, O!At
  <1>2. CASE O!Goto(w, "write")
    BY <1>1, <1>2, Looks DEF Dealing
  <1>3. CASE O!Advance(w) /\ o_state[O!Current(w)] \notin {"pending", "claimed"}
    <2>1. /\ WorkerInv' /\ o_worker'[w] = Advanced(w)
          /\ \A v \in Workers : v # w => o_worker'[v] = o_worker[v]
          /\ \A m : Waiting(m)' = Waiting(m)
      BY <1>1, <1>3, AdvanceMoves DEF OutboxInv, Dealing
    <2>2. ClaimInv'
      BY <1>1, <2>1 DEF OutboxInv, ClaimInv, Leave
    <2>3. Advanced(w).pc \in {"idle", "handle"} /\ Advanced(w).batch = o_worker[w].batch \ {O!Current(w)}
      BY DEF Advanced
    <2>4. AckInv'
      BY <1>1, <2>1, <2>3 DEF OutboxInv, AckInv, O!Current
    <2>5. StrandedInv'
      <3> SUFFICES ASSUME NEW m \in O!Numbers, o_state[m] = "claimed"
                   PROVE  \E v \in Workers : o_worker'[v].pc = "down" \/ m \in o_worker'[v].batch
        BY <1>1 DEF StrandedInv, O!NoneStranded, O!In, O!At
      <3>1. PICK v \in Workers : o_worker[v].pc = "down" \/ m \in o_worker[v].batch
        BY DEF OutboxInv, StrandedInv, O!NoneStranded, O!In, O!At
      <3>2. m # O!Current(w)
        BY <1>3
      <3>3. QED
        BY <1>1, <2>1, <2>3, <3>1, <3>2
    <2>6. QED
      BY <2>1, <2>2, <2>4, <2>5 DEF OutboxInv
  <1>4. QED
    BY <1>2, <1>3 DEF O!FailRead

\* Taking the claims back gives every message of theirs leave to be claimed again.
LEMMA RequeueKeeps ==
    ASSUME O!OutboxAssumption, ClaimInv, AckInv, O!Requeue, UNCHANGED o_handled,
           \A m : Waiting(m)' = Waiting(m)
    PROVE  /\ ClaimInv' /\ StrandedInv'
           /\ \A m \in O!Numbers : o_state'[m] = "acked" => o_handled'[m] > 0
  <1>1. \A m \in O!Numbers : m \in O!Orphaned <=> o_state[m] = "claimed"
    BY DEF O!Orphaned, O!In
  <1>2. /\ o_state' = [m \in O!Numbers |-> IF o_state[m] = "claimed" THEN "pending" ELSE o_state[m]]
        /\ o_requeued' = [m \in O!Numbers |-> IF o_state[m] = "claimed" THEN o_requeued[m] + 1 ELSE o_requeued[m]]
    BY <1>1 DEF O!Requeue
  <1>3. o_requeued' \in [O!Numbers -> Nat]
    BY <1>2 DEF ClaimInv
  <1>4. ASSUME NEW m \in O!Numbers
        PROVE  o_handled[m] + Cardinality(Waiting(m)) + Leave(m)' <= 1 + o_requeued'[m]
    <2>1. o_handled[m] \in Nat /\ o_requeued'[m] \in Nat /\ o_requeued[m] \in Nat
          /\ Leave(m)' \in {0, 1} /\ Leave(m) \in {0, 1}
      BY <1>3 DEF ClaimInv, Leave
    <2>2. CASE o_state[m] = "claimed"
      <3>1. o_requeued'[m] = o_requeued[m] + 1
        BY <1>2, <2>2
      <3>2. Leave(m)' <= Leave(m) + (o_requeued'[m] - o_requeued[m])
        BY <2>1, <3>1
      <3>3. QED
        BY <2>1, <3>2, LeaveIsKept
    <2>3. CASE o_state[m] # "claimed"
      <3>1. o_requeued'[m] = o_requeued[m] /\ o_state'[m] = o_state[m]
        BY <1>2, <2>3
      <3>2. Leave(m)' = Leave(m)
        BY <3>1 DEF Leave
      <3>3. Leave(m)' <= Leave(m) + (o_requeued'[m] - o_requeued[m])
        BY <2>1, <3>1, <3>2
      <3>4. QED
        BY <2>1, <3>3, LeaveIsKept
    <2>4. QED
      BY <2>2, <2>3
  <1>5. ClaimInv'
    BY <1>2, <1>3, <1>4 DEF ClaimInv
  <1>6. StrandedInv'
    BY <1>2 DEF StrandedInv, O!NoneStranded, O!In
  <1>7. QED
    BY <1>2, <1>5, <1>6 DEF AckInv

\* A worker of a process that dies, or starts again, has no batch.
LEMMA ForgetsBatch ==
    ASSUME O!OutboxAssumption, OutboxInv, NEW w \in Workers, NEW step \in {"idle", "down"},
           o_worker' = [o_worker EXCEPT ![w] = [pc |-> step, batch |-> {}]]
    PROVE  /\ WorkerInv' /\ o_worker'[w].pc = step
           /\ \A v \in Workers : v # w => o_worker'[v] = o_worker[v]
           /\ \A m : Waiting(m)' = Waiting(m) \/ Waiting(m)' = Waiting(m) \ {w}
  <1> DEFINE f == [pc |-> step, batch |-> {}]
  <1>1. f.pc = step /\ f.batch = {} /\ f = [pc |-> f.pc, batch |-> f.batch]
    OBVIOUS
  <1>2. o_worker' = [o_worker EXCEPT ![w] = f]
    OBVIOUS
  <1> HIDE DEF f
  <1>3. WorkerType(f)
    BY <1>1 DEF WorkerType
  <1>4. \A m : ~WaitsFor(f, m)
    BY <1>1 DEF WaitsFor
  <1>5. /\ WorkerInv' /\ o_worker'[w] = f
        /\ \A v \in Workers : v # w => o_worker'[v] = o_worker[v]
        /\ \A m :
             /\ WaitsFor(f, m) /\ ~WaitsFor(o_worker[w], m) => Waiting(m)' = Waiting(m) \cup {w}
             /\ (WaitsFor(f, m) <=> WaitsFor(o_worker[w], m)) => Waiting(m)' = Waiting(m)
             /\ ~WaitsFor(f, m) /\ WaitsFor(o_worker[w], m) =>
                   Waiting(m)' = Waiting(m) \ {w} /\ w \in Waiting(m)
    BY <1>2, <1>3, WorkerMoves DEF OutboxInv
  <1>6. QED
    BY <1>1, <1>4, <1>5

LEMMA CrashKeeps ==
    ASSUME O!OutboxAssumption, OutboxInv, NEW w \in Workers, O!Crash(w)
    PROVE  OutboxInv'
  <1>0. [O!Resting EXCEPT !.pc = "down"] = [pc |-> "down", batch |-> {}]
    BY DEF O!Resting
  <1>1. o_worker' = [o_worker EXCEPT ![w] = [pc |-> "down", batch |-> {}]]
    BY <1>0 DEF O!Crash
  <1>2. UNCHANGED <<o_state, o_handled, o_requeued>>
    BY DEF O!Crash
  <1>3. /\ WorkerInv' /\ o_worker'[w].pc = "down"
        /\ \A v \in Workers : v # w => o_worker'[v] = o_worker[v]
        /\ \A m : Waiting(m)' = Waiting(m) \/ Waiting(m)' = Waiting(m) \ {w}
    BY <1>1, ForgetsBatch
  <1>4. ASSUME NEW m \in O!Numbers
        PROVE  o_handled[m] + Cardinality(Waiting(m)') + Leave(m) <= 1 + o_requeued[m]
    <2>1. o_handled[m] \in Nat /\ o_requeued[m] \in Nat /\ Leave(m) \in {0, 1}
      BY DEF OutboxInv, ClaimInv, Leave
    <2>2. Leave(m) <= Leave(m) + (o_requeued[m] - o_requeued[m])
      BY <2>1
    <2>3. CASE Waiting(m)' = Waiting(m)
      BY <2>1, <2>2, <2>3, LeaveIsKept DEF OutboxInv
    <2>4. CASE Waiting(m)' = Waiting(m) \ {w}
      BY <2>1, <2>2, <2>4, LeaveIsKept DEF OutboxInv
    <2>5. QED
      BY <1>3, <2>3, <2>4
  <1>5. ClaimInv'
    BY <1>2, <1>4 DEF OutboxInv, ClaimInv, Leave
  <1>6. AckInv' /\ StrandedInv'
    BY <1>2, <1>3 DEF OutboxInv, AckInv, StrandedInv, O!NoneStranded, O!In, O!At, O!Current
  <1>7. QED
    BY <1>3, <1>5, <1>6 DEF OutboxInv

LEMMA RestartKeeps ==
    ASSUME O!OutboxAssumption, OutboxInv, NEW w \in Workers, O!Restart(w)
    PROVE  OutboxInv'
  <1>1. o_worker' = [o_worker EXCEPT ![w] = [pc |-> "idle", batch |-> {}]] /\ o_worker[w].pc = "down"
    BY DEF O!Restart, O!Resting, O!At
  <1>2. O!Requeue /\ UNCHANGED o_handled
    BY DEF O!Restart
  <1>3. /\ WorkerInv' /\ o_worker'[w].pc = "idle"
        /\ \A v \in Workers : v # w => o_worker'[v] = o_worker[v]
        /\ \A m : Waiting(m)' = Waiting(m) \/ Waiting(m)' = Waiting(m) \ {w}
    BY <1>1, ForgetsBatch
  <1>4. \A m : w \notin Waiting(m)
    BY <1>1 DEF OutboxInv, WorkerInv, WorkerType, Waiting, WaitsFor
  <1>5. \A m : Waiting(m)' = Waiting(m)
    BY <1>3, <1>4
  <1>6. /\ ClaimInv' /\ StrandedInv'
        /\ \A m \in O!Numbers : o_state'[m] = "acked" => o_handled'[m] > 0
    BY <1>2, <1>5, RequeueKeeps DEF OutboxInv
  <1>7. AckInv'
    BY <1>2, <1>3, <1>6 DEF OutboxInv, AckInv, O!Current
  <1>8. QED
    BY <1>3, <1>6, <1>7 DEF OutboxInv

LEMMA ReconcileKeeps ==
    ASSUME O!OutboxAssumption, OutboxInv, O!Reconcile
    PROVE  OutboxInv'
  <1>1. O!Requeue /\ UNCHANGED <<o_worker, o_handled>>
    BY DEF O!Reconcile
  <1>2. \A m : Waiting(m)' = Waiting(m)
    BY <1>1 DEF Waiting, WaitsFor
  <1>3. /\ ClaimInv' /\ StrandedInv'
        /\ \A m \in O!Numbers : o_state'[m] = "acked" => o_handled'[m] > 0
    BY <1>1, <1>2, RequeueKeeps DEF OutboxInv
  <1>4. WorkerInv' /\ AckInv'
    BY <1>1, <1>3 DEF OutboxInv, WorkerInv, AckInv, O!Current
  <1>5. QED
    BY <1>3, <1>4 DEF OutboxInv

LEMMA OutboxStep ==
    ASSUME O!OutboxAssumption, OutboxInv, [O!Next]_(O!vars)
    PROVE  OutboxInv'
  <1>1. CASE UNCHANGED O!vars
    <2>1. UNCHANGED <<o_state, o_worker, o_handled, o_requeued>>
      BY <1>1 DEF O!vars
    <2>2. WorkerInv' /\ AckInv' /\ StrandedInv'
      BY <2>1 DEF OutboxInv, WorkerInv, AckInv, StrandedInv, O!NoneStranded, O!In, O!At, O!Current
    <2>3. \A m : Waiting(m)' = Waiting(m) /\ Leave(m)' = Leave(m)
      BY <2>1 DEF Waiting, WaitsFor, Leave
    <2>4. ClaimInv'
      BY <2>1, <2>3 DEF OutboxInv, ClaimInv
    <2>5. QED
      BY <2>2, <2>4 DEF OutboxInv
  <1>2. ASSUME NEW w \in Workers, O!Handle(w) PROVE OutboxInv'
    BY <1>2, HandlerSucceeds, Looks DEF O!Handle, O!At
  <1>3. ASSUME NEW w \in Workers, O!FailWrite(w) PROVE OutboxInv'
    <2>1. o_worker[w].pc \in Dealing /\ O!Advance(w) /\ UNCHANGED <<o_handled, o_requeued>>
      BY <1>3 DEF O!FailWrite, O!At, Dealing
    <2>2. o_state' = [o_state EXCEPT ![O!Current(w)] = "failed"]
      BY <1>3 DEF O!FailWrite
    <2>3. QED
      BY <2>1, <2>2, PutAway
  <1>4. QED
    BY <1>1, <1>2, <1>3, AddKeeps, ClaimKeeps, AckKeeps, FailReadKeeps, CrashKeeps, RestartKeeps,
       ReconcileKeeps DEF O!Next, O!Drain

\* A message's handler succeeds at most once for each time it is claimed, an acked
\* message was handled, and no claim is stranded (OutboxService, requeue_claimed): for
\* any numbers of messages, workers, deaths and reconciliations.
THEOREM OutboxHoldsAlways == Spec => []OutboxHolds
  <1>1. Init => OutboxInv
    BY OutboxInit, ComponentsBegin, UpkeepAssumption DEF UpkeepAssumption, OutboxInv
  <1>2. OutboxInv /\ [Next]_vars => OutboxInv'
    BY OutboxStep, ComponentsStep, UpkeepAssumption DEF UpkeepAssumption
  <1>3. OutboxInv => O!OutboxHolds
    <2> SUFFICES ASSUME OutboxInv PROVE O!OutboxHolds
      OBVIOUS
    <2>1. ASSUME NEW m \in O!Numbers PROVE o_handled[m] <= 1 + o_requeued[m]
      <3>1. Cardinality(Waiting(m)) \in Nat
        BY FiniteWorkers, UpkeepAssumption DEF UpkeepAssumption
      <3>2. /\ o_handled[m] \in Nat /\ o_requeued[m] \in Nat /\ Leave(m) \in Nat
            /\ o_handled[m] + Cardinality(Waiting(m)) + Leave(m) <= 1 + o_requeued[m]
        BY DEF OutboxInv, ClaimInv, Leave
      <3>3. QED
        BY <3>1, <3>2
    <2>2. QED
      BY <2>1 DEF OutboxInv, AckInv, StrandedInv, O!OutboxHolds, O!HandledPerClaim
  <1>4. QED
    BY <1>1, <1>2, <1>3, PTL DEF Spec, OutboxHolds

-----------------------------------------------------------------------------
(* The operators' rows                                                     *)

\* A save that would store a revision was given the number after the one it read,
\* which is the row's or an older one.
SaveInv(save) ==
    save # L!Idle =>
        /\ save.row \in L!Rows /\ save.change.column \in L!Columns(save.row)
        /\ save.change.column = "current_revision" =>
              /\ save.seen.columns["current_revision"] \in Nat
              /\ save.change.value = save.seen.columns["current_revision"] + 1
              /\ save.seen.columns["current_revision"] <= l_rows[save.row].columns["current_revision"]

ShelfInv ==
    /\ DOMAIN l_rows = L!Rows /\ DOMAIN l_calls = Calls
    /\ \A r \in L!Rows : l_rows[r] = [version |-> l_rows[r].version, columns |-> l_rows[r].columns]
                         /\ DOMAIN l_rows[r].columns = L!Columns(r)
    /\ l_meant = [r \in L!Rows |-> l_rows[r].columns]
    /\ DOMAIN l_revisions = Presets
    /\ \A p \in Presets : /\ l_rows[p].columns["current_revision"] \in Nat
                          /\ l_revisions[p] = 1..l_rows[p].columns["current_revision"]
    /\ \A c \in Calls : SaveInv(l_calls[c])

LEMMA PresetColumns ==
    ASSUME L!ShelfAssumption, NEW r \in L!Rows
    PROVE  /\ r \in Entries => L!Columns(r) = {"title", "last_played_at", "archived_at"}
           /\ r \in Presets => L!Columns(r) = {"archived_at", "current_revision"}
           /\ "current_revision" \in L!Columns(r) <=> r \in Presets
  <1>1. CASE r \in Entries
    <2>1. L!Columns(r) = {"title", "last_played_at", "archived_at"}
      BY <1>1 DEF L!ShelfAssumption, L!Columns
    <2>2. QED
      BY <1>1, <2>1 DEF L!ShelfAssumption
  <1>2. CASE r \in Presets
    <2>1. r \notin Entries /\ L!Columns(r) = {"archived_at", "current_revision"}
      BY <1>2 DEF L!ShelfAssumption, L!Columns
    <2>2. QED
      BY <1>2, <2>1
  <1>3. CASE r \in Connections
    <2>1. L!Columns(r) = {"endpoint", "credential_env"}
      BY <1>3 DEF L!ShelfAssumption, L!Columns
    <2>2. QED
      BY <1>3, <2>1 DEF L!ShelfAssumption
  <1>4. CASE r \notin Entries \cup Presets \cup Connections
    <2>1. L!Columns(r) = {"gameplay", "accessibility"}
      BY <1>4 DEF L!Columns
    <2>2. QED
      BY <1>4, <2>1
  <1>5. QED
    BY <1>1, <1>2, <1>3, <1>4

LEMMA ShelfInit == L!ShelfAssumption /\ L!Init => ShelfInv
  <1> SUFFICES ASSUME L!ShelfAssumption, L!Init PROVE ShelfInv
    OBVIOUS
  <1>1. \A r \in L!Rows :
           /\ l_rows[r] = [version |-> l_rows[r].version, columns |-> l_rows[r].columns]
           /\ l_rows[r].columns =
                 [k \in L!Columns(r) |-> IF k = "current_revision" THEN 1 ELSE L!Never]
    BY DEF L!Init
  <1>2. \A p \in Presets : l_rows[p].columns["current_revision"] = 1
    BY <1>1, PresetColumns DEF L!Rows
  <1>3. l_revisions = [p \in Presets |-> {1}] /\ 1..1 = {1}
    BY DEF L!Init
  <1>4. \A p \in Presets : /\ l_rows[p].columns["current_revision"] \in Nat
                           /\ l_revisions[p] = 1..l_rows[p].columns["current_revision"]
    BY <1>2, <1>3
  <1>5. DOMAIN l_rows = L!Rows /\ l_calls = [c \in Calls |-> L!Idle]
        /\ l_meant = [r \in L!Rows |-> l_rows[r].columns]
    BY DEF L!Init
  <1>6. QED
    BY <1>1, <1>3, <1>4, <1>5 DEF ShelfInv, SaveInv

LEMMA ShelfRead ==
    ASSUME L!ShelfAssumption, ShelfInv, NEW c \in Calls, NEW r \in L!Rows, L!Read(c, r)
    PROVE  ShelfInv'
  <1>1. PICK change \in L!Handlers(r, l_saves + 1) :
           l_calls' = [l_calls EXCEPT ![c] = [row |-> r, seen |-> l_rows[r], change |-> change]]
    BY DEF L!Read
  <1>0. PICK save : save = [row |-> r, seen |-> l_rows[r], change |-> change]
    OBVIOUS
  <1>2. /\ change.column \in L!Columns(r)
        /\ change.column = "current_revision" =>
              change.value = l_rows[r].columns["current_revision"] + 1 /\ r \in Presets
    <2>1. CASE r \in Entries
      <3>1. r \notin Presets /\ r \notin Connections /\ r \notin BuiltIn
        BY <2>1 DEF L!ShelfAssumption
      <3>2. change \in {L!Rename(r, l_saves + 1), L!Open(r, l_saves + 1), L!Archive(r, l_saves + 1),
                        L!Unarchive(r, l_saves + 1)}
        BY <2>1, <3>1 DEF L!Handlers
      <3>3. change.column \in {"title", "last_played_at", "archived_at"}
        BY <3>2 DEF L!Rename, L!Open, L!Archive, L!Unarchive
      <3>4. QED
        BY <2>1, <3>3, PresetColumns
    <2>2. CASE r \in Presets
      <3>1. r \notin Entries /\ r \notin Connections
        BY <2>2 DEF L!ShelfAssumption
      <3>2. change \in {L!Archive(r, l_saves + 1), L!Unarchive(r, l_saves + 1), L!Revise(r, l_saves + 1)}
        BY <2>2, <3>1 DEF L!Handlers
      <3>3. QED
        BY <2>2, <3>2, PresetColumns DEF L!Archive, L!Unarchive, L!Revise
    <2>3. CASE r \notin Entries \cup Presets
      <3>1. change \in L!SaveProvider(r, l_saves + 1) \/ change \in L!SavePreferences(r, l_saves + 1)
        BY <2>3 DEF L!Handlers, L!ShelfAssumption
      <3>2. change.column \in L!Columns(r)
        BY <3>1 DEF L!SaveProvider, L!SavePreferences
      <3>3. QED
        BY <2>3, <3>2, PresetColumns
    <2>4. QED
      BY <2>1, <2>2, <2>3
  <1>3. save.row = r /\ save.seen = l_rows[r] /\ save.change = change
    BY <1>0
  <1>4. l_rows' = l_rows /\ l_revisions' = l_revisions /\ l_meant' = l_meant
    BY DEF L!Read
  <1>a. r \in Presets => l_rows[r].columns["current_revision"] \in Nat
    BY DEF ShelfInv
  <1>5. SaveInv(save)'
    BY <1>2, <1>3, <1>4, <1>a DEF SaveInv
  <1>6. l_calls' = [l_calls EXCEPT ![c] = save]
    BY <1>0, <1>1
  <1>7. \A d \in Calls : l_calls'[d] = IF d = c THEN save ELSE l_calls[d]
    BY <1>6 DEF ShelfInv
  <1>8. \A d \in Calls : SaveInv(l_calls[d])'
    BY <1>4, <1>5, <1>7 DEF ShelfInv, SaveInv
  <1>b. DOMAIN l_calls' = Calls
    BY <1>6 DEF ShelfInv
  <1>9. QED
    BY <1>4, <1>b, <1>8 DEF ShelfInv

LEMMA ShelfWrite ==
    ASSUME L!ShelfAssumption, ShelfInv, NEW c \in Calls, L!Write(c)
    PROVE  ShelfInv'
  <1>0. PICK save, r, k, old :
           save = l_calls[c] /\ r = save.row /\ k = save.change.column /\ old = l_rows[r].columns
    OBVIOUS
  <1>1. /\ save # L!Idle /\ r \in L!Rows /\ k \in L!Columns(r) /\ SaveInv(save)
        /\ DOMAIN old = L!Columns(r) /\ l_meant[r] = old
    BY <1>0 DEF L!Write, ShelfInv, SaveInv
  <1>2. PICK new : new = L!Written(save, old)
    OBVIOUS
  <1>3. l_rows' = [l_rows EXCEPT ![r].version = save.seen.version + 1, ![r].columns = new]
    BY <1>0, <1>1, <1>2 DEF L!Write, ShelfInv, L!Written
  <1>4. /\ DOMAIN l_rows' = L!Rows /\ l_rows'[r] = [version |-> save.seen.version + 1, columns |-> new]
        /\ \A q \in L!Rows : q # r => l_rows'[q] = l_rows[q]
    <2>1. l_rows[r] = [version |-> l_rows[r].version, columns |-> l_rows[r].columns] /\ DOMAIN l_rows = L!Rows
      BY <1>1 DEF ShelfInv
    <2>2. PICK read, kept : read = save.seen.version + 1 /\ kept = l_rows[r]
      OBVIOUS
    <2>3. PICK half : half = [kept EXCEPT !.version = read]
      OBVIOUS
    <2>4. half = [version |-> read, columns |-> kept.columns]
      BY <2>1, <2>2, <2>3
    <2>a. PICK whole : whole = [half EXCEPT !.columns = new]
      OBVIOUS
    <2>b. whole = [version |-> read, columns |-> new]
      BY <2>4, <2>a
    <2>5. /\ DOMAIN l_rows' = L!Rows
          /\ l_rows'[r] = whole
          /\ \A q \in L!Rows : q # r => l_rows'[q] = l_rows[q]
      BY <1>1, <1>3, <2>1, <2>2, <2>3, <2>a
    <2>6. QED
      BY <2>2, <2>b, <2>5
  <1>5. l_rows'[r].columns = new /\ l_rows'[r] = [version |-> l_rows'[r].version, columns |-> l_rows'[r].columns]
    BY <1>4
  <1>6. /\ DOMAIN new = L!Columns(r) /\ \A j \in L!Columns(r) : j # k => new[j] = old[j]
        /\ new[k] = IF save.change.value = save.seen.columns[k] THEN old[k] ELSE save.change.value
    BY <1>0, <1>1, <1>2 DEF L!Written
  <1>7. l_meant' = IF save.change.value # save.seen.columns[k]
                 THEN [l_meant EXCEPT ![r][k] = save.change.value] ELSE l_meant
    BY <1>0 DEF L!Write
  <1>8. l_meant' = [q \in L!Rows |-> l_rows'[q].columns]
    <2>1. \A q \in L!Rows : q # r => l_meant'[q] = l_rows'[q].columns
      BY <1>4, <1>7 DEF ShelfInv
    <2>2. l_meant'[r] = new
      <3>1. CASE save.change.value = save.seen.columns[k]
        BY <1>0, <1>1, <1>2, <1>7, <3>1 DEF L!Written
      <3>2. CASE save.change.value # save.seen.columns[k]
        <4>1. new = [old EXCEPT ![k] = save.change.value]
          BY <1>0, <1>2, <3>2 DEF L!Written
        <4>2. l_meant'[r] = [l_meant[r] EXCEPT ![k] = save.change.value]
          BY <1>1, <1>7, <3>2 DEF ShelfInv
        <4>3. QED
          BY <1>1, <4>1, <4>2
      <3>3. QED
        BY <3>1, <3>2
    <2>3. DOMAIN l_meant' = L!Rows /\ l_meant' = [q \in L!Rows |-> l_meant'[q]]
      BY <1>1, <1>7 DEF ShelfInv
    <2>4. QED
      BY <1>5, <2>1, <2>2, <2>3
  <1>9. \A q \in L!Rows : /\ DOMAIN l_rows'[q].columns = L!Columns(q)
                         /\ l_rows'[q] = [version |-> l_rows'[q].version, columns |-> l_rows'[q].columns]
    BY <1>4, <1>5, <1>6 DEF ShelfInv
  <1>10. /\ l_calls' = [l_calls EXCEPT ![c] = L!Idle]
         /\ l_revisions' = IF k = "current_revision"
                         THEN [l_revisions EXCEPT ![r] = @ \cup {save.change.value}] ELSE l_revisions
         /\ ~(k = "current_revision" /\ save.change.value \in l_revisions[r])
    BY <1>0 DEF L!Write, L!Collides
  <1>11. CASE k # "current_revision"
    <2>1. \A p \in Presets : l_rows'[p].columns["current_revision"] = l_rows[p].columns["current_revision"]
      <3>1. ASSUME NEW p \in Presets
            PROVE  l_rows'[p].columns["current_revision"] = l_rows[p].columns["current_revision"]
        <4>1. p \in L!Rows /\ "current_revision" \in L!Columns(p)
          BY PresetColumns DEF L!Rows
        <4>2. QED
          BY <1>0, <1>4, <1>5, <1>6, <1>11, <4>1
      <3>2. QED
        BY <3>1
    <2>2. \A d \in Calls : SaveInv(l_calls[d])'
      <3>1. ASSUME NEW d \in Calls, l_calls'[d] # L!Idle PROVE SaveInv(l_calls[d])'
        <4>1. l_calls'[d] = l_calls[d] /\ SaveInv(l_calls[d])
          BY <1>10, <3>1 DEF ShelfInv
        <4>2. l_calls[d].change.column = "current_revision" => l_calls[d].row \in Presets
          BY <3>1, <4>1, PresetColumns DEF SaveInv
        <4>3. QED
          BY <2>1, <4>1, <4>2 DEF SaveInv
      <3>2. QED
        BY <3>1 DEF SaveInv
    <2>3. l_revisions' = l_revisions /\ DOMAIN l_calls' = Calls
      BY <1>10, <1>11 DEF ShelfInv
    <2>4. QED
      BY <1>4, <1>8, <1>9, <2>1, <2>2, <2>3 DEF ShelfInv
  <1>12. CASE k = "current_revision"
    <2>1. r \in Presets
      BY <1>1, <1>12, PresetColumns
    <2>2. PICK n : n = old["current_revision"]
      OBVIOUS
    <2>3. /\ n \in Nat /\ l_revisions[r] = 1..n /\ n = l_rows[r].columns["current_revision"]
      BY <1>0, <2>1, <2>2 DEF ShelfInv
    <2>4. PICK m : m = save.seen.columns["current_revision"]
      OBVIOUS
    <2>5. m \in Nat /\ save.change.value = m + 1 /\ m <= n
      BY <1>0, <1>1, <1>12, <2>3, <2>4 DEF SaveInv
    <2>6. m + 1 \notin 1..n
      BY <1>10, <1>12, <2>3, <2>5
    <2>7. m = n
      BY <2>3, <2>5, <2>6
    <2>8. new["current_revision"] = n + 1
      <3>1. save.change.value # save.seen.columns[k]
        BY <1>12, <2>4, <2>5
      <3>2. QED
        BY <1>6, <1>12, <2>5, <2>7, <3>1
    <2>9. l_revisions' = [l_revisions EXCEPT ![r] = @ \cup {n + 1}] /\ (1..n) \cup {n + 1} = 1..(n + 1)
      BY <1>10, <1>12, <2>3, <2>5, <2>7
    <2>10. /\ DOMAIN l_revisions' = Presets
           /\ l_revisions'[r] = 1..(n + 1) /\ l_rows'[r].columns["current_revision"] = n + 1
           /\ \A p \in Presets : p # r => l_revisions'[p] = l_revisions[p] /\ l_rows'[p] = l_rows[p]
      BY <1>4, <1>5, <2>1, <2>3, <2>8, <2>9 DEF ShelfInv, L!Rows
    <2>11. \A p \in Presets : /\ l_rows'[p].columns["current_revision"] \in Nat
                             /\ l_revisions'[p] = 1..l_rows'[p].columns["current_revision"]
                             /\ l_rows[p].columns["current_revision"] <= l_rows'[p].columns["current_revision"]
      <3>1. ASSUME NEW p \in Presets
            PROVE  /\ l_rows'[p].columns["current_revision"] \in Nat
                   /\ l_revisions'[p] = 1..l_rows'[p].columns["current_revision"]
                   /\ l_rows[p].columns["current_revision"] <= l_rows'[p].columns["current_revision"]
        <4>1. CASE p = r
          BY <2>3, <2>10, <4>1
        <4>2. CASE p # r
          <5>1. l_rows'[p] = l_rows[p] /\ l_revisions'[p] = l_revisions[p]
            BY <2>10, <4>2
          <5>2. l_rows[p].columns["current_revision"] \in Nat
                /\ l_revisions[p] = 1..l_rows[p].columns["current_revision"]
            BY DEF ShelfInv
          <5>3. QED
            BY <5>1, <5>2
        <4>3. QED
          BY <4>1, <4>2
      <3>2. QED
        BY <3>1
    <2>12. \A d \in Calls : SaveInv(l_calls[d])'
      <3>1. ASSUME NEW d \in Calls, l_calls'[d] # L!Idle PROVE SaveInv(l_calls[d])'
        <4>1. l_calls'[d] = l_calls[d] /\ SaveInv(l_calls[d])
          BY <1>10, <3>1 DEF ShelfInv
        <4>2. l_calls[d].change.column = "current_revision" =>
                 /\ l_calls[d].row \in Presets /\ l_calls[d].seen.columns["current_revision"] \in Nat
                 /\ l_calls[d].seen.columns["current_revision"]
                       <= l_rows[l_calls[d].row].columns["current_revision"]
          BY <3>1, <4>1, PresetColumns DEF SaveInv
        <4>3. l_calls[d].change.column = "current_revision" =>
                 l_calls[d].seen.columns["current_revision"]
                       <= l_rows'[l_calls[d].row].columns["current_revision"]
          <5>1. ASSUME NEW p \in Presets, NEW x \in Nat, x <= l_rows[p].columns["current_revision"]
                PROVE  x <= l_rows'[p].columns["current_revision"]
            <6>1. PICK y, z : y = l_rows[p].columns["current_revision"]
                              /\ z = l_rows'[p].columns["current_revision"]
              OBVIOUS
            <6>2. y \in Nat /\ z \in Nat /\ y <= z /\ x <= y
              BY <2>11, <5>1, <6>1 DEF ShelfInv
            <6>3. x <= z
              BY <6>2
            <6>4. QED
              BY <6>1, <6>3
          <5>2. QED
            BY <4>2, <5>1
        <4>4. QED
          BY <4>1, <4>3 DEF SaveInv
      <3>2. QED
        BY <3>1 DEF SaveInv
    <2>13. DOMAIN l_calls' = Calls
      BY <1>10 DEF ShelfInv
    <2>14. QED
      BY <1>4, <1>8, <1>9, <2>10, <2>11, <2>12, <2>13 DEF ShelfInv
  <1>13. QED
    BY <1>11, <1>12

\* Saves that overlap keep each other's columns, and a preset's current revision is
\* the newest stored one (library.py): for any rows, calls and number of saves.
THEOREM LibraryHoldsAlways == Spec => []LibraryHolds
  <1>1. ShelfInv /\ [Next]_vars => ShelfInv'
    <2> SUFFICES ASSUME ShelfInv, [Next]_vars PROVE ShelfInv'
      OBVIOUS
    <2> USE UpkeepAssumption DEF UpkeepAssumption
    <2>1. ASSUME NEW c \in Calls, L!Refuse(c) PROVE ShelfInv'
      BY <2>1 DEF L!Refuse, ShelfInv, SaveInv
    <2>2. CASE UNCHANGED L!vars
      BY <2>2 DEF L!vars, ShelfInv, SaveInv
    <2>3. QED
      BY <2>1, <2>2, ShelfRead, ShelfWrite, ComponentsStep DEF L!Next
  <1>2. ShelfInv => L!LibraryHolds
    <2>1. ASSUME ShelfInv, NEW r \in L!Rows PROVE l_rows[r].columns = l_meant[r]
      BY <2>1 DEF ShelfInv
    <2>2. QED
      BY <2>1 DEF ShelfInv, L!LibraryHolds, L!SavesKeepColumns, L!CurrentIsNewest
  <1>3. Init => ShelfInv
    BY ShelfInit, ComponentsBegin, UpkeepAssumption DEF UpkeepAssumption
  <1>4. QED
    BY <1>1, <1>2, <1>3, PTL DEF Spec, LibraryHolds

-----------------------------------------------------------------------------
(* The creation of stories                                                 *)

Built == {"built", "checked", "held"}

LibraryInv ==
    /\ DOMAIN a_library = Presets
    /\ \A p \in Presets : a_library[p] \in Seq(Contents) /\ Len(a_library[p]) >= 1

DraftInv(row) == DOMAIN row = {"version", "pin", "world"} /\ row.pin \in A!Pins
DraftsInv ==
    /\ DOMAIN a_drafts = Drafts
    /\ \A d \in Drafts : A!Present(d) => DraftInv(a_drafts[d])

\* What a creation under way got from the library is still there.
CreationInv(creation) ==
    /\ creation.at = "editing" => creation.draft \in Drafts
    /\ creation.at \in {"loaded"} \cup Built =>
          creation.key \in Keys /\ creation.draft \in Drafts /\ creation.row.pin \in A!Pins
    /\ creation.at \in Built =>
          A!Readable(creation.row.pin) /\ creation.content = A!Resolved(creation.row.pin)
    /\ creation.at = "checked" =>
          DOMAIN creation = {"at", "key", "draft", "expected", "row", "content", "seen"}
CreationsInv ==
    /\ DOMAIN a_calls = Calls
    /\ \A c \in Calls : CreationInv(a_calls[c])

\* The draft a session holds is not deleted meanwhile.
HeldInv ==
    /\ DOMAIN a_lock = Drafts
    /\ \A c \in Calls : a_calls[c].at = "held" =>
          a_lock[a_calls[c].draft] = c /\ A!Present(a_calls[c].draft)

StoryRow == [key : Keys, draft : Drafts, preset : Presets, revision : Nat \ {0}, content : Contents]
StoriesInv ==
    /\ a_stories \in Seq(StoryRow)
    /\ \A i \in DOMAIN a_stories :
          /\ a_stories[i].revision <= Len(a_library[a_stories[i].preset])
          /\ a_library[a_stories[i].preset][a_stories[i].revision] = a_stories[i].content

ReceiptsInv ==
    /\ DOMAIN a_receipts = Keys
    /\ \A i \in DOMAIN a_stories :
          A!Known(a_stories[i].key) /\ a_receipts[a_stories[i].key].story = i
    /\ \A k \in Keys : A!Known(k) =>
          a_receipts[k].story \in DOMAIN a_stories /\ a_stories[a_receipts[k].story].key = k
    /\ \A t \in a_told : t[1] \in Keys /\ A!Known(t[1]) /\ a_receipts[t[1]].story = t[2]

AuthoringInv ==
    LibraryInv /\ DraftsInv /\ CreationsInv /\ HeldInv /\ StoriesInv /\ ReceiptsInv

LEMMA PinFields ==
    ASSUME NEW pin \in A!Pins
    PROVE  pin.preset \in Presets /\ pin.revision \in Nat /\ A!Pinned(pin) \in Nat \ {0}
  BY DEF A!Pins, A!Pinned

LEMMA AuthoringInit == A!AuthoringAssumption /\ A!Init => AuthoringInv
  <1> SUFFICES ASSUME A!AuthoringAssumption, A!Init PROVE AuthoringInv
    OBVIOUS
  <1>1. LibraryInv
    BY DEF A!AuthoringAssumption, A!Init, LibraryInv
  <1>2. PICK pins \in [Drafts -> {pin \in A!Pins : pin.revision <= 2}] :
           a_drafts = [d \in Drafts |-> [version |-> 1, pin |-> pins[d], world |-> 0]]
    BY DEF A!Init
  <1>3. DraftsInv
    BY <1>2 DEF DraftsInv, DraftInv
  <1>4. \A c \in Calls : a_calls[c].at = "idle"
    BY DEF A!Init, A!Idle
  <1>5. CreationsInv /\ HeldInv
    BY <1>4 DEF A!Init, CreationsInv, CreationInv, HeldInv, Built
  <1>6. a_stories = <<>> /\ a_told = {} /\ a_receipts = [k \in Keys |-> A!NoReceipt]
    BY DEF A!Init
  <1>7. StoriesInv /\ ReceiptsInv
    BY <1>6 DEF StoriesInv, ReceiptsInv, A!Known
  <1>8. QED
    BY <1>1, <1>3, <1>5, <1>7 DEF AuthoringInv

\* What a preset's revision is does not change when another is appended.
LEMMA ReviseKeeps ==
    ASSUME A!AuthoringAssumption, AuthoringInv, NEW p \in Presets, NEW content \in Contents,
           A!Revise(p, content)
    PROVE  AuthoringInv'
  <1>1. a_library' = [a_library EXCEPT ![p] = Append(@, content)]
        /\ UNCHANGED <<a_drafts, a_stories, a_receipts, a_calls, a_lock, a_told>>
    BY DEF A!Revise
  <1>2. a_library[p] \in Seq(Contents) /\ Len(a_library[p]) \in Nat /\ Len(a_library[p]) >= 1
        /\ DOMAIN a_library = Presets
    BY DEF AuthoringInv, LibraryInv
  <1>3. \A q \in Presets : a_library'[q] = IF q = p THEN Append(a_library[p], content) ELSE a_library[q]
    BY <1>1, <1>2
  <1>4. ASSUME NEW q \in Presets
        PROVE  /\ a_library'[q] \in Seq(Contents) /\ Len(a_library'[q]) >= 1
               /\ Len(a_library[q]) <= Len(a_library'[q])
               /\ \A n \in 1..Len(a_library[q]) : a_library'[q][n] = a_library[q][n]
    <2>1. CASE q = p
      <3>1. a_library'[q] = Append(a_library[p], content)
        BY <1>3, <2>1
      <3>2. Append(a_library[p], content) \in Seq(Contents)
            /\ Len(Append(a_library[p], content)) = Len(a_library[p]) + 1
            /\ \A n \in 1..Len(a_library[p]) : Append(a_library[p], content)[n] = a_library[p][n]
        BY <1>2
      <3>3. QED
        BY <1>2, <2>1, <3>1, <3>2
    <2>2. CASE q # p
      <3>1. a_library'[q] = a_library[q] /\ a_library[q] \in Seq(Contents) /\ Len(a_library[q]) >= 1
        BY <1>3, <2>2 DEF AuthoringInv, LibraryInv
      <3>2. QED
        BY <3>1
    <2>3. QED
      BY <2>1, <2>2
  <1>5. LibraryInv'
    BY <1>1, <1>2, <1>4 DEF LibraryInv
  <1>6. DraftsInv' /\ HeldInv' /\ ReceiptsInv'
    BY <1>1 DEF AuthoringInv, DraftsInv, HeldInv, ReceiptsInv, A!Present, A!Known
  <1>7. ASSUME NEW pin \in A!Pins, A!Readable(pin)
        PROVE  A!Readable(pin)' /\ A!Resolved(pin)' = A!Resolved(pin)
    <2>1. pin.preset \in Presets /\ A!Pinned(pin) \in Nat \ {0}
      BY PinFields
    <2>2. A!Pinned(pin) <= Len(a_library[pin.preset]) /\ A!Pinned(pin) \in 1..Len(a_library[pin.preset])
      BY <1>7, <2>1 DEF A!Readable, AuthoringInv, LibraryInv
    <2>3. /\ a_library'[pin.preset][A!Pinned(pin)] = a_library[pin.preset][A!Pinned(pin)]
          /\ Len(a_library[pin.preset]) <= Len(a_library'[pin.preset])
          /\ Len(a_library[pin.preset]) \in Nat /\ Len(a_library'[pin.preset]) \in Nat
      BY <1>4, <2>1, <2>2 DEF AuthoringInv, LibraryInv
    <2>4. A!Pinned(pin) <= Len(a_library'[pin.preset])
      BY <2>1, <2>2, <2>3
    <2>5. QED
      BY <2>3, <2>4 DEF A!Readable, A!Resolved, A!Pinned
  <1>8. CreationsInv'
    <2>1. ASSUME NEW c \in Calls PROVE CreationInv(a_calls[c])'
      <3>1. CreationInv(a_calls[c]) /\ a_calls'[c] = a_calls[c]
        BY <1>1 DEF AuthoringInv, CreationsInv
      <3>2. QED
        BY <1>7, <3>1 DEF CreationInv
    <2>2. QED
      BY <1>1, <2>1 DEF AuthoringInv, CreationsInv
  <1>9. StoriesInv'
    <2>1. ASSUME NEW i \in DOMAIN a_stories
          PROVE  /\ a_stories[i].revision <= Len(a_library'[a_stories[i].preset])
                 /\ a_library'[a_stories[i].preset][a_stories[i].revision] = a_stories[i].content
      <3>1. a_stories[i] \in StoryRow
        BY DEF AuthoringInv, StoriesInv
      <3>2. PICK q, n : q = a_stories[i].preset /\ n = a_stories[i].revision
        OBVIOUS
      <3>3. q \in Presets /\ n \in Nat \ {0} /\ n <= Len(a_library[q])
            /\ a_library[q][n] = a_stories[i].content /\ Len(a_library[q]) \in Nat
        BY <3>1, <3>2 DEF StoryRow, AuthoringInv, StoriesInv, LibraryInv
      <3>4. n \in 1..Len(a_library[q]) /\ Len(a_library'[q]) \in Nat
        BY <1>4, <3>3
      <3>5. Len(a_library[q]) <= Len(a_library'[q]) /\ a_library'[q][n] = a_library[q][n]
        BY <1>4, <3>3, <3>4
      <3>6. n <= Len(a_library'[q])
        BY <3>3, <3>4, <3>5
      <3>7. QED
        BY <3>2, <3>3, <3>5, <3>6
    <2>2. QED
      BY <1>1, <2>1 DEF AuthoringInv, StoriesInv
  <1>10. QED
    BY <1>5, <1>6, <1>8, <1>9 DEF AuthoringInv

\* A call's new state, while nothing but its draft changes.
LEMMA CallChanges ==
    ASSUME AuthoringInv, NEW c \in Calls, NEW v, a_calls' = [a_calls EXCEPT ![c] = v],
           UNCHANGED a_library, CreationInv(v)
    PROVE  CreationsInv' /\ a_calls'[c] = v /\ \A b \in Calls : b # c => a_calls'[b] = a_calls[b]
  <1>1. DOMAIN a_calls' = Calls /\ \A b \in Calls : a_calls'[b] = IF b = c THEN v ELSE a_calls[b]
    BY DEF AuthoringInv, CreationsInv
  <1>2. \A b \in Calls : CreationInv(a_calls'[b])
    BY <1>1 DEF AuthoringInv, CreationsInv
  <1>3. \A b \in Calls : CreationInv(a_calls[b])'
    BY <1>2 DEF CreationInv, A!Readable, A!Resolved
  <1>4. QED
    BY <1>1, <1>3 DEF CreationsInv

LEMMA IdleCreation == CreationInv(A!Idle)
  BY DEF A!Idle, CreationInv, Built

\* A call that looks at the rows, or leaves, and holds nothing.
LEMMA LooksAround ==
    ASSUME AuthoringInv, NEW c \in Calls, NEW v, a_calls' = [a_calls EXCEPT ![c] = v],
           CreationInv(v), v.at # "held", UNCHANGED <<a_library, a_drafts, a_stories, a_receipts, a_lock, a_told>>
    PROVE  AuthoringInv'
  <1>1. /\ CreationsInv' /\ a_calls'[c] = v
        /\ \A b \in Calls : b # c => a_calls'[b] = a_calls[b]
    BY CallChanges
  <1>2. HeldInv'
    BY <1>1 DEF AuthoringInv, HeldInv, A!Present
  <1>3. LibraryInv' /\ DraftsInv' /\ StoriesInv' /\ ReceiptsInv'
    BY DEF AuthoringInv, LibraryInv, DraftsInv, StoriesInv, ReceiptsInv, A!Present, A!Known
  <1>4. QED
    BY <1>1, <1>2, <1>3 DEF AuthoringInv

LEMMA GoneIsNoDraft == \A row : DraftInv(row) => row # A!Gone
  BY DEF DraftInv, A!Gone

\* A draft that is saved while nobody holds it, or by its holder.
LEMMA DraftSaved ==
    ASSUME DraftsInv, NEW d \in Drafts, A!Present(d), NEW pin \in A!Pins, NEW seen, NEW expected,
           a_drafts' = [a_drafts EXCEPT ![d] = A!SavedDraft(@, seen, pin, expected)]
    PROVE  DraftsInv' /\ \A b \in Drafts : A!Present(b) => A!Present(b)'
  <1>1. PICK row : row = A!SavedDraft(a_drafts[d], seen, pin, expected)
    OBVIOUS
  <1>2. DraftInv(a_drafts[d])
    BY DEF DraftsInv
  <1>3. DraftInv(row)
    <2>1. PICK half : half = [a_drafts[d] EXCEPT !.version = expected + 1]
      OBVIOUS
    <2>2. DOMAIN half = {"version", "pin", "world"} /\ half.pin = a_drafts[d].pin
      BY <1>2, <2>1 DEF DraftInv
    <2>3. PICK p : p = IF pin = seen.pin THEN a_drafts[d].pin ELSE pin
      OBVIOUS
    <2>4. p \in A!Pins
      BY <1>2, <2>3 DEF DraftInv
    <2>5. row = [half EXCEPT !.pin = p]
      BY <1>1, <2>1, <2>2, <2>3 DEF A!SavedDraft
    <2>6. DOMAIN row = {"version", "pin", "world"} /\ row.pin = p
      BY <2>2, <2>5
    <2>7. QED
      BY <2>4, <2>6 DEF DraftInv
  <1>4. DOMAIN a_drafts' = Drafts /\ \A b \in Drafts : a_drafts'[b] = IF b = d THEN row ELSE a_drafts[b]
    BY <1>1 DEF DraftsInv
  <1>5. QED
    BY <1>3, <1>4, GoneIsNoDraft DEF DraftsInv, A!Present, A!Gone

LEMMA EditKeeps ==
    ASSUME A!AuthoringAssumption, AuthoringInv, NEW c \in Calls, NEW pin \in A!Pins, A!EndEdit(c, pin)
    PROVE  AuthoringInv'
  <1>1. PICK d : d = a_calls[c].draft
    OBVIOUS
  <1>2. d \in Drafts /\ a_lock[d] = A!Free /\ UNCHANGED <<a_library, a_stories, a_receipts, a_lock, a_told>>
        /\ a_calls' = [a_calls EXCEPT ![c] = A!Idle]
    BY <1>1 DEF A!EndEdit, AuthoringInv, CreationsInv, CreationInv
  <1>3. CreationsInv' /\ a_calls'[c] = A!Idle /\ \A b \in Calls : b # c => a_calls'[b] = a_calls[b]
    BY <1>2, CallChanges, IdleCreation
  <1>4. DraftsInv' /\ \A b \in Drafts : A!Present(b) => A!Present(b)'
    <2>1. CASE A!Present(d)
      <3>1. a_drafts' = [a_drafts EXCEPT ![d] = A!SavedDraft(@, a_calls[c].row, pin, a_calls[c].row.version)]
        BY <1>1, <2>1 DEF A!EndEdit
      <3>2. QED
        BY <1>2, <2>1, <3>1, DraftSaved DEF AuthoringInv
    <2>2. CASE ~A!Present(d)
      <3>1. a_drafts' = a_drafts
        BY <1>1, <2>2 DEF A!EndEdit
      <3>2. QED
        BY <3>1 DEF AuthoringInv, DraftsInv, A!Present
    <2>3. QED
      BY <2>1, <2>2
  <1>5. HeldInv'
    <2>1. ASSUME NEW b \in Calls, a_calls'[b].at = "held"
          PROVE  a_lock'[a_calls'[b].draft] = b /\ a_drafts'[a_calls'[b].draft] # A!Gone
      <3>1. b # c /\ a_calls'[b] = a_calls[b]
        BY <1>3, <2>1 DEF A!Idle
      <3>2. a_lock[a_calls[b].draft] = b /\ A!Present(a_calls[b].draft) /\ a_calls[b].draft \in Drafts
        BY <2>1, <3>1 DEF AuthoringInv, HeldInv, CreationsInv, CreationInv, Built
      <3>3. a_drafts'[a_calls[b].draft] # A!Gone
        BY <1>4, <3>2 DEF A!Present, A!Gone
      <3>4. QED
        BY <1>2, <3>1, <3>2, <3>3
    <2>2. QED
      BY <1>2, <2>1 DEF AuthoringInv, HeldInv, A!Present, A!Gone
  <1>6. LibraryInv' /\ StoriesInv' /\ ReceiptsInv'
    BY <1>2 DEF AuthoringInv, LibraryInv, StoriesInv, ReceiptsInv, A!Known
  <1>7. QED
    BY <1>3, <1>4, <1>5, <1>6 DEF AuthoringInv

LEMMA DeleteKeeps ==
    ASSUME A!AuthoringAssumption, AuthoringInv, NEW d \in Drafts, A!DeleteDraft(d)
    PROVE  AuthoringInv'
  <1>1. /\ a_drafts' = [a_drafts EXCEPT ![d] = A!Gone] /\ a_lock[d] = A!Free
        /\ UNCHANGED <<a_library, a_stories, a_receipts, a_calls, a_lock, a_told>>
    BY DEF A!DeleteDraft
  <1>2. DOMAIN a_drafts' = Drafts /\ \A b \in Drafts : a_drafts'[b] = IF b = d THEN A!Gone ELSE a_drafts[b]
    BY <1>1 DEF AuthoringInv, DraftsInv
  <1>3. DraftsInv'
    BY <1>2 DEF AuthoringInv, DraftsInv, A!Present, A!Gone
  <1>4. HeldInv'
    <2>1. ASSUME NEW c \in Calls, a_calls[c].at = "held"
          PROVE  a_lock[a_calls[c].draft] = c /\ a_drafts'[a_calls[c].draft] # A!Gone
      <3>1. a_lock[a_calls[c].draft] = c /\ a_drafts[a_calls[c].draft] # A!Gone /\ a_calls[c].draft \in Drafts
        BY <2>1 DEF AuthoringInv, HeldInv, CreationsInv, CreationInv, Built, A!Present
      <3>2. a_calls[c].draft # d
        BY <1>1, <3>1 DEF A!AuthoringAssumption
      <3>3. QED
        BY <1>2, <3>1, <3>2
    <2>2. QED
      BY <1>1, <2>1 DEF AuthoringInv, HeldInv, A!Present, A!Gone
  <1>5. LibraryInv' /\ CreationsInv' /\ StoriesInv' /\ ReceiptsInv'
    BY <1>1 DEF AuthoringInv, LibraryInv, CreationsInv, CreationInv, StoriesInv, ReceiptsInv,
                A!Known, A!Readable, A!Resolved
  <1>6. QED
    BY <1>3, <1>4, <1>5 DEF AuthoringInv

LEMMA LoadKeeps ==
    ASSUME AuthoringInv, NEW c \in Calls, NEW k \in Keys, NEW d \in Drafts, NEW expected,
           A!Load(c, k, d, expected)
    PROVE  AuthoringInv'
  <1>1. PICK v : v = [at |-> "loaded", key |-> k, draft |-> d, expected |-> expected, row |-> a_drafts[d]]
    OBVIOUS
  <1>2. v.at = "loaded" /\ v.key = k /\ v.draft = d /\ v.row = a_drafts[d]
    BY <1>1
  <1>3. DraftInv(a_drafts[d])
    BY DEF A!Load, AuthoringInv, DraftsInv
  <1>4. CreationInv(v)
    BY <1>2, <1>3 DEF CreationInv, Built, DraftInv
  <1>5. a_calls' = [a_calls EXCEPT ![c] = v] /\ UNCHANGED <<a_library, a_drafts, a_stories, a_receipts, a_lock, a_told>>
    BY <1>1 DEF A!Load
  <1>6. QED
    BY <1>2, <1>4, <1>5, LooksAround

LEMMA BeginEditKeeps ==
    ASSUME AuthoringInv, NEW c \in Calls, NEW d \in Drafts, A!BeginEdit(c, d)
    PROVE  AuthoringInv'
  <1>1. PICK v : v = [at |-> "editing", draft |-> d, row |-> a_drafts[d]]
    OBVIOUS
  <1>2. v.at = "editing" /\ v.draft = d
    BY <1>1
  <1>3. CreationInv(v)
    BY <1>2 DEF CreationInv, Built
  <1>4. a_calls' = [a_calls EXCEPT ![c] = v] /\ UNCHANGED <<a_library, a_drafts, a_stories, a_receipts, a_lock, a_told>>
    BY <1>1 DEF A!BeginEdit
  <1>5. QED
    BY <1>2, <1>3, <1>4, LooksAround

LEMMA InstantiateKeeps ==
    ASSUME AuthoringInv, NEW c \in Calls, A!Instantiate(c)
    PROVE  AuthoringInv'
  <1>1. PICK v : a_calls' = [a_calls EXCEPT ![c] = v]
                 /\ \/ v = A!Idle
                    \/ /\ A!Readable(a_calls[c].row.pin)
                       /\ v = [at |-> "built", key |-> a_calls[c].key, draft |-> a_calls[c].draft,
                               expected |-> a_calls[c].expected, row |-> a_calls[c].row,
                               content |-> A!Resolved(a_calls[c].row.pin)]
    BY DEF A!Instantiate, AuthoringInv, CreationsInv
  <1>2. a_calls[c].at = "loaded" /\ CreationInv(a_calls[c])
        /\ UNCHANGED <<a_library, a_drafts, a_stories, a_receipts, a_lock, a_told>>
    BY DEF A!Instantiate, AuthoringInv, CreationsInv
  <1>3. CreationInv(v) /\ v.at # "held"
    <2>1. CASE v = A!Idle
      BY <2>1, IdleCreation DEF A!Idle
    <2>2. CASE v # A!Idle
      <3>1. /\ v.at = "built" /\ v.key = a_calls[c].key /\ v.draft = a_calls[c].draft
            /\ v.row = a_calls[c].row /\ v.content = A!Resolved(a_calls[c].row.pin)
            /\ A!Readable(a_calls[c].row.pin)
        BY <1>1, <2>2
      <3>2. QED
        BY <1>2, <3>1 DEF CreationInv, Built
    <2>3. QED
      BY <2>1, <2>2
  <1>4. QED
    BY <1>1, <1>2, <1>3, LooksAround

LEMMA CheckKeeps ==
    ASSUME AuthoringInv, NEW c \in Calls, A!CheckDraft(c)
    PROVE  AuthoringInv'
  <1>1. PICK v : a_calls' = [a_calls EXCEPT ![c] = v]
                 /\ \/ v = A!Idle
                    \/ v = [at |-> "checked", key |-> a_calls[c].key, draft |-> a_calls[c].draft,
                            expected |-> a_calls[c].expected, row |-> a_calls[c].row,
                            content |-> a_calls[c].content, seen |-> a_drafts[a_calls[c].draft]]
    BY DEF A!CheckDraft, AuthoringInv, CreationsInv
  <1>2. a_calls[c].at = "built" /\ CreationInv(a_calls[c])
        /\ UNCHANGED <<a_library, a_drafts, a_stories, a_receipts, a_lock, a_told>>
    BY DEF A!CheckDraft, AuthoringInv, CreationsInv
  <1>3. CreationInv(v) /\ v.at # "held"
    <2>1. CASE v = A!Idle
      BY <2>1, IdleCreation DEF A!Idle
    <2>2. CASE v # A!Idle
      <3>1. /\ v.at = "checked" /\ v.key = a_calls[c].key /\ v.draft = a_calls[c].draft
            /\ v.row = a_calls[c].row /\ v.content = a_calls[c].content
            /\ DOMAIN v = {"at", "key", "draft", "expected", "row", "content", "seen"}
        BY <1>1, <2>2
      <3>2. QED
        BY <1>2, <3>1 DEF CreationInv, Built
    <2>3. QED
      BY <2>1, <2>2
  <1>4. QED
    BY <1>1, <1>2, <1>3, LooksAround

LEMMA HoldKeeps ==
    ASSUME A!AuthoringAssumption, AuthoringInv, NEW c \in Calls, A!HoldDraft(c)
    PROVE  AuthoringInv'
  <1>1. PICK d : d = a_calls[c].draft
    OBVIOUS
  <1>2. /\ a_calls[c].at = "checked" /\ CreationInv(a_calls[c]) /\ d \in Drafts /\ a_lock[d] = A!Free
        /\ UNCHANGED <<a_library, a_drafts, a_stories, a_receipts, a_told>>
    BY <1>1 DEF A!HoldDraft, AuthoringInv, CreationsInv, CreationInv, Built
  <1>3. CASE A!Present(d)
    <2>1. a_calls' = [a_calls EXCEPT ![c].at = "held"] /\ a_lock' = [a_lock EXCEPT ![d] = c]
      BY <1>1, <1>3 DEF A!HoldDraft
    <2>2. PICK v : v = [a_calls[c] EXCEPT !.at = "held"]
      OBVIOUS
    <2>3. v.at = "held" /\ v.key = a_calls[c].key /\ v.draft = a_calls[c].draft
          /\ v.row = a_calls[c].row /\ v.content = a_calls[c].content
      <3>1. DOMAIN a_calls[c] = {"at", "key", "draft", "expected", "row", "content", "seen"}
        BY <1>2 DEF CreationInv
      <3>2. QED
        BY <2>2, <3>1
    <2>4. CreationInv(v)
      BY <1>2, <2>3 DEF CreationInv, Built
    <2>5. a_calls' = [a_calls EXCEPT ![c] = v]
      BY <2>1, <2>2 DEF AuthoringInv, CreationsInv
    <2>6. CreationsInv' /\ a_calls'[c] = v /\ \A b \in Calls : b # c => a_calls'[b] = a_calls[b]
      BY <1>2, <2>4, <2>5, CallChanges
    <2>7. DOMAIN a_lock' = Drafts /\ \A b \in Drafts : a_lock'[b] = IF b = d THEN c ELSE a_lock[b]
      BY <2>1 DEF AuthoringInv, HeldInv
    <2>8. ASSUME NEW b \in Calls, a_calls'[b].at = "held"
          PROVE  a_lock'[a_calls'[b].draft] = b /\ a_drafts'[a_calls'[b].draft] # A!Gone
      <3>1. CASE b = c
        BY <1>1, <1>2, <1>3, <2>3, <2>6, <2>7, <3>1 DEF A!Present
      <3>2. CASE b # c
        <4>1. a_calls'[b] = a_calls[b] /\ a_calls[b].at = "held"
          BY <2>6, <2>8, <3>2
        <4>2. a_lock[a_calls[b].draft] = b /\ a_drafts[a_calls[b].draft] # A!Gone /\ a_calls[b].draft \in Drafts
          BY <4>1 DEF AuthoringInv, HeldInv, CreationsInv, CreationInv, Built, A!Present
        <4>3. a_calls[b].draft # d
          BY <1>2, <4>2 DEF A!AuthoringAssumption
        <4>4. QED
          BY <1>2, <2>7, <4>1, <4>2, <4>3
      <3>3. QED
        BY <3>1, <3>2
    <2>9. HeldInv'
      BY <2>7, <2>8 DEF HeldInv, A!Present, A!Gone
    <2>10. LibraryInv' /\ DraftsInv' /\ StoriesInv' /\ ReceiptsInv'
      BY <1>2 DEF AuthoringInv, LibraryInv, DraftsInv, StoriesInv, ReceiptsInv, A!Present, A!Known
    <2>11. QED
      BY <2>6, <2>9, <2>10 DEF AuthoringInv
  <1>4. CASE ~A!Present(d)
    <2>1. a_calls' = [a_calls EXCEPT ![c] = A!Idle] /\ a_lock' = a_lock
      BY <1>1, <1>4 DEF A!HoldDraft
    <2>2. QED
      BY <1>2, <2>1, IdleCreation, LooksAround DEF A!Idle
  <1>5. QED
    BY <1>3, <1>4

LEMMA ReplayKeeps ==
    ASSUME ReceiptsInv, NEW c \in Calls, a_calls[c].key \in Keys, A!Known(a_calls[c].key),
           A!Replay(c), UNCHANGED <<a_stories, a_receipts>>
    PROVE  ReceiptsInv' /\ a_calls' = [a_calls EXCEPT ![c] = A!Idle]
  <1>1. PICK k : k = a_calls[c].key
    OBVIOUS
  <1>2. a_told' \in {a_told, a_told \cup {<<k, a_receipts[k].story>>}}
    BY <1>1 DEF A!Replay
  <1>3. \A t \in a_told' : t[1] \in Keys /\ A!Known(t[1]) /\ a_receipts[t[1]].story = t[2]
    BY <1>1, <1>2 DEF ReceiptsInv
  <1>4. QED
    BY <1>3 DEF ReceiptsInv, A!Known, A!Replay

LEMMA FindKeeps ==
    ASSUME AuthoringInv, NEW c \in Calls, A!FindReceipt(c)
    PROVE  AuthoringInv'
  <1>1. a_calls[c].at = "loaded" /\ a_calls[c].key \in Keys /\ A!Known(a_calls[c].key)
        /\ A!Replay(c) /\ UNCHANGED <<a_library, a_drafts, a_stories, a_receipts, a_lock>>
    BY DEF A!FindReceipt, AuthoringInv, CreationsInv, CreationInv
  <1>2. ReceiptsInv' /\ a_calls' = [a_calls EXCEPT ![c] = A!Idle]
    BY <1>1, ReplayKeeps DEF AuthoringInv
  <1>3. CreationsInv' /\ a_calls'[c] = A!Idle /\ \A b \in Calls : b # c => a_calls'[b] = a_calls[b]
    BY <1>1, <1>2, CallChanges, IdleCreation
  <1>4. HeldInv'
    BY <1>1, <1>3 DEF AuthoringInv, HeldInv, A!Present, A!Idle
  <1>5. LibraryInv' /\ DraftsInv' /\ StoriesInv'
    BY <1>1 DEF AuthoringInv, LibraryInv, DraftsInv, StoriesInv, A!Present
  <1>6. QED
    BY <1>2, <1>3, <1>4, <1>5 DEF AuthoringInv

\* A session that ends lets its draft go, and no other's.
LEMMA LetsGo ==
    ASSUME AuthoringInv, NEW c \in Calls, a_calls[c].at = "held",
           a_lock' = [a_lock EXCEPT ![a_calls[c].draft] = A!Free],
           a_calls' = [a_calls EXCEPT ![c] = A!Idle], UNCHANGED a_library,
           \A d \in Drafts : a_drafts[d] # A!Gone => a_drafts'[d] # A!Gone
    PROVE  CreationsInv' /\ HeldInv'
  <1>1. CreationsInv' /\ a_calls'[c] = A!Idle /\ \A b \in Calls : b # c => a_calls'[b] = a_calls[b]
    BY CallChanges, IdleCreation
  <1>2. PICK d : d = a_calls[c].draft
    OBVIOUS
  <1>3. d \in Drafts /\ a_lock[d] = c /\ DOMAIN a_lock' = Drafts
        /\ \A b \in Drafts : b # d => a_lock'[b] = a_lock[b]
    BY <1>2 DEF AuthoringInv, HeldInv, CreationsInv, CreationInv, Built
  <1>4. ASSUME NEW b \in Calls, a_calls'[b].at = "held"
        PROVE  a_lock'[a_calls'[b].draft] = b /\ a_drafts'[a_calls'[b].draft] # A!Gone
    <2>1. b # c /\ a_calls'[b] = a_calls[b] /\ a_calls[b].at = "held"
      BY <1>1, <1>4 DEF A!Idle
    <2>2. a_lock[a_calls[b].draft] = b /\ a_drafts[a_calls[b].draft] # A!Gone /\ a_calls[b].draft \in Drafts
      BY <2>1 DEF AuthoringInv, HeldInv, CreationsInv, CreationInv, Built, A!Present
    <2>3. a_calls[b].draft # d
      BY <1>3, <2>1, <2>2
    <2>4. QED
      BY <1>3, <2>1, <2>2, <2>3
  <1>5. QED
    BY <1>1, <1>3, <1>4 DEF HeldInv, A!Present, A!Gone

LEMMA LoseKeeps ==
    ASSUME AuthoringInv, NEW c \in Calls, A!LoseRace(c)
    PROVE  AuthoringInv'
  <1>1. /\ a_calls[c].at = "held" /\ a_calls[c].key \in Keys /\ A!Known(a_calls[c].key)
        /\ a_lock' = [a_lock EXCEPT ![a_calls[c].draft] = A!Free]
        /\ A!Replay(c) /\ UNCHANGED <<a_library, a_drafts, a_stories, a_receipts>>
    BY DEF A!LoseRace, A!KeyTaken, A!Known, AuthoringInv, CreationsInv, CreationInv, Built
  <1>2. ReceiptsInv' /\ a_calls' = [a_calls EXCEPT ![c] = A!Idle]
    BY <1>1, ReplayKeeps DEF AuthoringInv
  <1>3. CreationsInv' /\ HeldInv'
    BY <1>1, <1>2, LetsGo
  <1>4. LibraryInv' /\ DraftsInv' /\ StoriesInv'
    BY <1>1 DEF AuthoringInv, LibraryInv, DraftsInv, StoriesInv, A!Present
  <1>5. QED
    BY <1>2, <1>3, <1>4 DEF AuthoringInv

LEMMA AbandonKeeps ==
    ASSUME A!AuthoringAssumption, AuthoringInv, NEW c \in Calls, A!Abandon(c)
    PROVE  AuthoringInv'
  <1>1. /\ a_calls' = [a_calls EXCEPT ![c] = A!Idle]
        /\ a_lock' = [d \in Drafts |-> IF a_lock[d] = c THEN A!Free ELSE a_lock[d]]
        /\ UNCHANGED <<a_library, a_drafts, a_stories, a_receipts, a_told>>
    BY DEF A!Abandon
  <1>2. CreationsInv' /\ a_calls'[c] = A!Idle /\ \A b \in Calls : b # c => a_calls'[b] = a_calls[b]
    BY <1>1, CallChanges, IdleCreation
  <1>3. ASSUME NEW b \in Calls, a_calls'[b].at = "held"
        PROVE  a_lock'[a_calls'[b].draft] = b /\ a_drafts'[a_calls'[b].draft] # A!Gone
    <2>1. b # c /\ a_calls'[b] = a_calls[b] /\ a_calls[b].at = "held"
      BY <1>2, <1>3 DEF A!Idle
    <2>2. a_lock[a_calls[b].draft] = b /\ a_drafts[a_calls[b].draft] # A!Gone /\ a_calls[b].draft \in Drafts
      BY <2>1 DEF AuthoringInv, HeldInv, CreationsInv, CreationInv, Built, A!Present
    <2>3. QED
      BY <1>1, <2>1, <2>2
  <1>4. HeldInv'
    BY <1>1, <1>3 DEF HeldInv, A!Present, A!Gone
  <1>5. LibraryInv' /\ DraftsInv' /\ StoriesInv' /\ ReceiptsInv'
    BY <1>1 DEF AuthoringInv, LibraryInv, DraftsInv, StoriesInv, ReceiptsInv, A!Present, A!Known
  <1>6. QED
    BY <1>2, <1>4, <1>5 DEF AuthoringInv

\* The story a session that holds its draft is about to commit.
LEMMA StoryIsItsSource ==
    ASSUME AuthoringInv, NEW c \in Calls, a_calls[c].at = "held"
    PROVE  /\ A!Story(c) \in StoryRow /\ A!Story(c).key = a_calls[c].key
           /\ A!Story(c).revision <= Len(a_library[A!Story(c).preset])
           /\ a_library[A!Story(c).preset][A!Story(c).revision] = A!Story(c).content
  <1>1. PICK pin, p, n, x : /\ pin = a_calls[c].row.pin /\ p = pin.preset /\ n = A!Pinned(pin)
                            /\ x = a_calls[c].content
    OBVIOUS
  <1>2. /\ pin \in A!Pins /\ a_calls[c].key \in Keys /\ a_calls[c].draft \in Drafts
        /\ A!Readable(pin) /\ x = A!Resolved(pin)
    BY <1>1 DEF AuthoringInv, CreationsInv, CreationInv, Built
  <1>3. p \in Presets /\ n \in Nat \ {0} /\ n <= Len(a_library[p]) /\ x = a_library[p][n]
    BY <1>1, <1>2, PinFields DEF A!Readable, A!Resolved, A!Pinned
  <1>4. a_library[p] \in Seq(Contents) /\ n \in 1..Len(a_library[p])
    BY <1>3 DEF AuthoringInv, LibraryInv
  <1>5. x \in Contents
    BY <1>3, <1>4
  <1>6. A!Story(c) = [key |-> a_calls[c].key, draft |-> a_calls[c].draft, preset |-> p,
                      revision |-> n, content |-> x]
    BY <1>1 DEF A!Story
  <1>7. QED
    BY <1>2, <1>3, <1>5, <1>6 DEF StoryRow

LEMMA CommitKeeps ==
    ASSUME A!AuthoringAssumption, AuthoringInv, NEW c \in Calls, A!Commit(c)
    PROVE  AuthoringInv'
  <1>1. PICK k, d, s, n : /\ k = a_calls[c].key /\ d = a_calls[c].draft /\ s = A!Story(c)
                          /\ n = Len(a_stories) + 1
    OBVIOUS
  <1>2. /\ a_calls[c].at = "held" /\ k \in Keys /\ d \in Drafts /\ ~A!Known(k)
        /\ a_calls[c].row.pin \in A!Pins /\ A!Present(d)
        /\ a_calls' = [a_calls EXCEPT ![c] = A!Idle] /\ a_lock' = [a_lock EXCEPT ![d] = A!Free]
        /\ a_library' = a_library
    BY <1>1 DEF A!Commit, A!KeyTaken, A!Known, AuthoringInv, CreationsInv, CreationInv, HeldInv, Built
  <1>3. a_drafts' = [a_drafts EXCEPT ![d] = A!SavedDraft(@, a_calls[c].seen, a_calls[c].row.pin,
                                                     a_calls[c].expected)]
    BY <1>1 DEF A!Commit
  <1>4. DraftsInv' /\ \A b \in Drafts : a_drafts[b] # A!Gone => a_drafts'[b] # A!Gone
    BY <1>2, <1>3, DraftSaved DEF AuthoringInv, A!Present, A!Gone
  <1>5. CreationsInv' /\ HeldInv'
    BY <1>1, <1>2, <1>4, LetsGo
  <1>6. LibraryInv'
    BY <1>2 DEF AuthoringInv, LibraryInv
  <1>7. /\ s \in StoryRow /\ s.key = k /\ s.revision <= Len(a_library[s.preset])
        /\ a_library[s.preset][s.revision] = s.content
    BY <1>1, <1>2, StoryIsItsSource
  <1>8. a_stories' = Append(a_stories, s) /\ a_stories \in Seq(StoryRow)
    BY <1>1 DEF A!Commit, AuthoringInv, StoriesInv
  <1>9. /\ a_stories' \in Seq(StoryRow) /\ n \in Nat \ {0} /\ a_stories'[n] = s
        /\ DOMAIN a_stories' = (DOMAIN a_stories) \cup {n} /\ n \notin DOMAIN a_stories
        /\ \A i \in DOMAIN a_stories : a_stories'[i] = a_stories[i]
    BY <1>1, <1>7, <1>8
  <1>10. StoriesInv'
    BY <1>2, <1>7, <1>9 DEF AuthoringInv, StoriesInv
  <1>11. PICK receipt : receipt = A!Receipt(c)
    OBVIOUS
  <1>12. a_receipts' = [a_receipts EXCEPT ![k] = receipt]
    BY <1>1, <1>11 DEF A!Commit
  <1>13. receipt.story = n /\ receipt # A!NoReceipt
    BY <1>1, <1>9, <1>11 DEF A!Receipt, A!NoReceipt
  <1>14. /\ DOMAIN a_receipts' = Keys /\ a_receipts'[k] = receipt
         /\ \A j \in Keys : j # k => a_receipts'[j] = a_receipts[j]
    BY <1>2, <1>12 DEF AuthoringInv, ReceiptsInv
  <1>15. a_told' \subseteq a_told \cup {<<k, n>>}
    BY <1>1 DEF A!Commit
  <1>16. ASSUME NEW i \in DOMAIN a_stories'
         PROVE  a_receipts'[a_stories'[i].key] # A!NoReceipt /\ a_receipts'[a_stories'[i].key].story = i
    <2>1. CASE i = n
      BY <1>7, <1>9, <1>13, <1>14, <2>1
    <2>2. CASE i \in DOMAIN a_stories
      <3>0. a_stories[i] \in StoryRow
        BY <1>8, <2>2
      <3>1. /\ A!Known(a_stories[i].key) /\ a_receipts[a_stories[i].key].story = i
            /\ a_stories[i].key \in Keys /\ a_stories'[i] = a_stories[i]
        <4>1. a_stories[i].key \in Keys
          BY <3>0 DEF StoryRow
        <4>2. QED
          BY <1>9, <2>2, <4>1 DEF AuthoringInv, ReceiptsInv
      <3>2. a_stories[i].key # k
        BY <1>2, <3>1
      <3>3. QED
        BY <1>14, <3>1, <3>2 DEF A!Known
    <2>3. QED
      BY <1>9, <2>1, <2>2
  <1>17. ASSUME NEW j \in Keys, a_receipts'[j] # A!NoReceipt
         PROVE  a_receipts'[j].story \in DOMAIN a_stories' /\ a_stories'[a_receipts'[j].story].key = j
    <2>1. CASE j = k
      BY <1>7, <1>9, <1>13, <1>14, <2>1
    <2>2. CASE j # k
      <3>1. a_receipts'[j] = a_receipts[j] /\ A!Known(j)
        BY <1>14, <1>17, <2>2 DEF A!Known
      <3>2. a_receipts[j].story \in DOMAIN a_stories /\ a_stories[a_receipts[j].story].key = j
        BY <3>1 DEF AuthoringInv, ReceiptsInv
      <3>3. QED
        BY <1>9, <3>1, <3>2
    <2>3. QED
      BY <2>1, <2>2
  <1>18. ASSUME NEW t \in a_told'
         PROVE  t[1] \in Keys /\ a_receipts'[t[1]] # A!NoReceipt /\ a_receipts'[t[1]].story = t[2]
    <2>1. CASE t = <<k, n>>
      BY <1>2, <1>13, <1>14, <2>1
    <2>2. CASE t \in a_told
      <3>1. t[1] \in Keys /\ A!Known(t[1]) /\ a_receipts[t[1]].story = t[2]
        BY <2>2 DEF AuthoringInv, ReceiptsInv
      <3>2. t[1] # k
        BY <1>2, <3>1
      <3>3. QED
        BY <1>14, <3>1, <3>2 DEF A!Known
    <2>3. QED
      BY <1>15, <2>1, <2>2
  <1>19. ReceiptsInv'
    BY <1>14, <1>16, <1>17, <1>18 DEF ReceiptsInv, A!Known, A!NoReceipt
  <1>20. QED
    BY <1>4, <1>5, <1>6, <1>10, <1>19 DEF AuthoringInv

LEMMA AuthoringStep ==
    ASSUME A!AuthoringAssumption, AuthoringInv, [A!Next]_(A!vars)
    PROVE  AuthoringInv'
  <1>1. CASE UNCHANGED A!vars
    BY <1>1 DEF A!vars, AuthoringInv, LibraryInv, DraftsInv, CreationsInv, CreationInv, HeldInv,
                StoriesInv, ReceiptsInv, A!Present, A!Known, A!Readable, A!Resolved
  <1>2. ASSUME NEW c \in Calls, NEW k \in Keys, NEW d \in Drafts, NEW expected \in 1..MaxVersion,
               A!Load(c, k, d, expected)
        PROVE  AuthoringInv'
    BY <1>2, LoadKeeps
  <1>3. QED
    BY <1>1, <1>2, ReviseKeeps, EditKeeps, DeleteKeeps, BeginEditKeeps, FindKeeps, InstantiateKeeps,
       CheckKeeps, HoldKeeps, CommitKeeps, LoseKeeps, AbandonKeeps DEF A!Next

\* An idempotency key names one story, whatever is repeated, raced or cut off
\* (create.py): for any numbers of calls, keys, drafts and stories.
THEOREM OneStoryPerKeyHolds == Spec => []OneStoryPerKey
  <1>1. AuthoringInv => A!OneStoryPerKey
    BY DEF AuthoringInv, ReceiptsInv, A!OneStoryPerKey
  <1>2. AuthoringInv /\ [Next]_vars => AuthoringInv'
    BY AuthoringStep, ComponentsStep, UpkeepAssumption DEF UpkeepAssumption
  <1>3. Init => AuthoringInv
    BY AuthoringInit, ComponentsBegin, UpkeepAssumption DEF UpkeepAssumption
  <1>4. QED
    BY <1>1, <1>2, <1>3, PTL DEF Spec, OneStoryPerKey

\* What a story was made of can be read again from the revision its setup names
\* (presets.py, create.py): revisions are appended, never rewritten.
THEOREM SetupNamesItsSourceHolds == Spec => []SetupNamesItsSource
  <1>1. AuthoringInv => A!SetupNamesItsSource
    BY DEF AuthoringInv, StoriesInv, A!SetupNamesItsSource
  <1>2. AuthoringInv /\ [Next]_vars => AuthoringInv'
    BY AuthoringStep, ComponentsStep, UpkeepAssumption DEF UpkeepAssumption
  <1>3. Init => AuthoringInv
    BY AuthoringInit, ComponentsBegin, UpkeepAssumption DEF UpkeepAssumption
  <1>4. QED
    BY <1>1, <1>2, <1>3, PTL DEF Spec, SetupNamesItsSource

-----------------------------------------------------------------------------
(* Conditions between phases                                               *)

PersonRow(row) ==
    /\ row = [at |-> row.at, stamina |-> row.stamina, version |-> row.version]
    /\ row.stamina \in Nat /\ row.version \in Nat
PeopleInv == DOMAIN c_people = Persons /\ \A v \in Persons : PersonRow(c_people[v])

ConditionRow == [label : Afflictions, status : {"active", "recovered"}, start : Nat, end : Nat]
ConditionsInv == c_conditions \in Seq(ConditionRow)

\* A character of the version that a request read is what the request read.
AsRead(read) ==
    \A v \in Persons : /\ read[v].stamina \in Nat /\ read[v].version \in Nat
                       /\ read[v].version <= c_people[v].version
                       /\ read[v].version = c_people[v].version => read[v] = c_people[v]
RequestInv(request) ==
    request.pc = "tick" =>
        /\ request = [pc |-> "tick", index |-> request.index, people |-> request.people,
                      due |-> request.due]
        /\ request.due \subseteq DOMAIN c_conditions
        /\ AsRead(request.people)
RequestsInv == DOMAIN c_call = Calls /\ \A c \in Calls : RequestInv(c_call[c])

\* The keys are those of the ticks, and no two ticks share one.
TicksInv ==
    /\ \E U : c_ticks \in Seq(U)
    /\ \A i \in DOMAIN c_ticks : <<c_ticks[i].condition, c_ticks[i].index>> \in c_keys
    /\ \A i, j \in DOMAIN c_ticks :
          i # j => <<c_ticks[i].condition, c_ticks[i].index>> # <<c_ticks[j].condition, c_ticks[j].index>>

UpkeepOfConditions == PeopleInv /\ ConditionsInv /\ RequestsInv /\ TicksInv

LEMMA ConditionsInit == C!ConditionsAssumption /\ C!Init => UpkeepOfConditions
  <1> SUFFICES ASSUME C!ConditionsAssumption, C!Init PROVE UpkeepOfConditions
    OBVIOUS
  <1>1. \A v \in Persons : c_people[v] = [at |-> Home[v], stamina |-> Strength[v], version |-> 0]
    BY DEF C!Init
  <1>2. \A v \in Persons : Strength[v] \in Nat
    BY DEF C!ConditionsAssumption
  <1>3. PeopleInv
    <2>1. ASSUME NEW v \in Persons PROVE PersonRow(c_people[v])
      <3>1. c_people[v].stamina = Strength[v] /\ c_people[v].version = 0
            /\ c_people[v] = [at |-> c_people[v].at, stamina |-> c_people[v].stamina,
                            version |-> c_people[v].version]
        <4>1. PICK row, s : row = c_people[v] /\ s = Strength[v]
          OBVIOUS
        <4>2. row = [at |-> Home[v], stamina |-> s, version |-> 0]
          BY <1>1, <4>1
        <4>3. row.stamina = s /\ row.version = 0
              /\ row = [at |-> row.at, stamina |-> row.stamina, version |-> row.version]
          BY <4>2
        <4>4. QED
          BY <4>1, <4>3
      <3>2. QED
        BY <1>2, <3>1 DEF PersonRow
    <2>2. DOMAIN c_people = Persons
      BY DEF C!Init
    <2>3. QED
      BY <2>1, <2>2 DEF PeopleInv
  <1>4. \A c \in Calls : c_call[c].pc = "idle"
    BY DEF C!Init, C!Idle
  <1>5. RequestsInv
    BY <1>4 DEF C!Init, RequestsInv, RequestInv
  <1>6. c_conditions = <<>> /\ c_ticks = <<>>
    BY DEF C!Init
  <1>7. ConditionsInv /\ TicksInv
    BY <1>6 DEF ConditionsInv, TicksInv
  <1>8. QED
    BY <1>3, <1>5, <1>7 DEF UpkeepOfConditions

\* A request's new state, while the rows stay as they are.
LEMMA RequestMoves ==
    ASSUME RequestsInv, NEW c \in Calls, NEW v, c_call' = [c_call EXCEPT ![c] = v], RequestInv(v),
           UNCHANGED c_people, DOMAIN c_conditions \subseteq DOMAIN c_conditions'
    PROVE  RequestsInv'
  <1>1. DOMAIN c_call' = Calls /\ \A b \in Calls : c_call'[b] = IF b = c THEN v ELSE c_call[b]
    BY DEF RequestsInv
  <1>2. \A b \in Calls : RequestInv(c_call'[b])
    BY <1>1 DEF RequestsInv
  <1>3. \A b \in Calls : RequestInv(c_call[b])'
    BY <1>2 DEF RequestInv, AsRead
  <1>4. QED
    BY <1>1, <1>3 DEF RequestsInv

LEMMA NextDue ==
    ASSUME RequestsInv, NEW c \in Calls, C!Ticking(c), C!Next1(c)
    PROVE  \E v : c_call' = [c_call EXCEPT ![c] = v] /\ RequestInv(v)
  <1>1. c_call[c].pc = "tick" /\ RequestInv(c_call[c])
    BY DEF C!Ticking, RequestsInv
  <1>2. PICK left : left = c_call[c].due \ {C!Current(c)}
    OBVIOUS
  <1>3. PICK v : v = [c_call[c] EXCEPT !.due = left]
    OBVIOUS
  <1>4. DOMAIN c_call[c] = {"pc", "index", "people", "due"}
    BY <1>1 DEF RequestInv
  <1>5. /\ v.pc = "tick" /\ v.due = left /\ v.people = c_call[c].people
        /\ v = [pc |-> "tick", index |-> v.index, people |-> v.people, due |-> v.due]
    BY <1>1, <1>3, <1>4 DEF RequestInv
  <1>6. left \subseteq DOMAIN c_conditions /\ AsRead(v.people)
    BY <1>1, <1>2, <1>5 DEF RequestInv
  <1>7. RequestInv(v)
    BY <1>5, <1>6 DEF RequestInv
  <1>8. c_call' = [c_call EXCEPT ![c] = v]
    BY <1>2, <1>3 DEF C!Next1, RequestsInv
  <1>9. QED
    BY <1>7, <1>8

\* The condition a request deals with is one of the world's.
LEMMA CurrentCondition ==
    ASSUME UpkeepOfConditions, NEW c \in Calls, C!Ticking(c)
    PROVE  C!Current(c) \in DOMAIN c_conditions /\ C!Condition(c) \in ConditionRow
  <1>1. c_call[c].due \subseteq DOMAIN c_conditions /\ c_call[c].due # {}
    BY DEF C!Ticking, UpkeepOfConditions, RequestsInv, RequestInv
  <1>2. c_call[c].due \in SUBSET Nat /\ c_conditions \in Seq(ConditionRow)
    BY <1>1 DEF UpkeepOfConditions, ConditionsInv
  <1>3. C!Min(c_call[c].due) = O!Min(c_call[c].due)
    BY DEF C!Min, O!Min
  <1>4. C!Current(c) \in c_call[c].due
    BY <1>1, <1>2, <1>3, SmallestOf DEF C!Current
  <1>5. QED
    BY <1>1, <1>2, <1>4 DEF C!Condition

\* One more tick, of another key.
LEMMA AnotherTick ==
    ASSUME TicksInv, NEW t, <<t.condition, t.index>> \notin c_keys,
           c_ticks' = Append(c_ticks, t), c_keys' = c_keys \cup {<<t.condition, t.index>>}
    PROVE  TicksInv'
  <1>1. PICK U : c_ticks \in Seq(U)
    BY DEF TicksInv
  <1>2. PICK n : n = Len(c_ticks) + 1
    OBVIOUS
  <1>3. c_ticks \in Seq(U \cup {t})
    BY <1>1
  <1>4. /\ c_ticks' \in Seq(U \cup {t}) /\ c_ticks'[n] = t /\ n \notin DOMAIN c_ticks
        /\ DOMAIN c_ticks' = (DOMAIN c_ticks) \cup {n}
        /\ \A i \in DOMAIN c_ticks : c_ticks'[i] = c_ticks[i]
    BY <1>2, <1>3
  <1>5. \A i \in DOMAIN c_ticks : <<c_ticks[i].condition, c_ticks[i].index>> # <<t.condition, t.index>>
    BY DEF TicksInv
  <1>6. \A i \in DOMAIN c_ticks' : <<c_ticks'[i].condition, c_ticks'[i].index>> \in c_keys'
    BY <1>4 DEF TicksInv
  <1>7. ASSUME NEW i \in DOMAIN c_ticks', NEW j \in DOMAIN c_ticks', i # j
        PROVE  <<c_ticks'[i].condition, c_ticks'[i].index>> # <<c_ticks'[j].condition, c_ticks'[j].index>>
    <2>1. CASE i = n
      BY <1>4, <1>5, <1>7, <2>1
    <2>2. CASE j = n
      BY <1>4, <1>5, <1>7, <2>2
    <2>3. CASE i \in DOMAIN c_ticks /\ j \in DOMAIN c_ticks
      BY <1>4, <1>7, <2>3 DEF TicksInv
    <2>4. QED
      BY <1>4, <2>1, <2>2, <2>3
  <1>8. QED
    BY <1>4, <1>6, <1>7 DEF TicksInv

\* Characters who change have another version than any that was read.
LEMMA PeopleMove ==
    ASSUME UpkeepOfConditions, PeopleInv',
           \A v \in Persons : c_people'[v] = c_people[v] \/ c_people'[v].version = c_people[v].version + 1,
           NEW read, AsRead(read)
    PROVE  AsRead(read)'
  <1> SUFFICES ASSUME NEW v \in Persons
               PROVE  /\ read[v].stamina \in Nat /\ read[v].version \in Nat
                      /\ read[v].version <= c_people'[v].version
                      /\ read[v].version = c_people'[v].version => read[v] = c_people'[v]
    BY DEF AsRead
  <1>1. PICK a, b, r : a = c_people[v].version /\ b = c_people'[v].version /\ r = read[v].version
    OBVIOUS
  <1>2. a \in Nat /\ b \in Nat /\ r \in Nat /\ r <= a /\ read[v].stamina \in Nat
        /\ (r = a => read[v] = c_people[v])
    BY <1>1 DEF AsRead, UpkeepOfConditions, PeopleInv, PersonRow
  <1>3. CASE c_people'[v] = c_people[v]
    BY <1>1, <1>2, <1>3
  <1>4. CASE c_people'[v].version = c_people[v].version + 1
    BY <1>1, <1>2, <1>4
  <1>5. QED
    BY <1>3, <1>4

LEMMA ChangeKeeps ==
    ASSUME C!ConditionsAssumption, UpkeepOfConditions, C!Change
    PROVE  UpkeepOfConditions'
  <1>1. PICK v \in Persons, p \in Sites, s \in Nat :
           c_people' = [c_people EXCEPT ![v] = [at |-> p, stamina |-> s, version |-> @.version + 1]]
    <2>1. \A v \in Persons : Strength[v] \in Nat
      BY DEF C!ConditionsAssumption
    <2>2. QED
      BY <2>1 DEF C!Change
  <1>2. UNCHANGED <<c_conditions, c_keys, c_call, c_ticks>>
    BY DEF C!Change
  <1>3. PICK n : n = c_people[v].version + 1
    OBVIOUS
  <1>4. PICK row : row = [at |-> p, stamina |-> s, version |-> n]
    OBVIOUS
  <1>5. row.stamina = s /\ row.version = n
        /\ row = [at |-> row.at, stamina |-> row.stamina, version |-> row.version]
    BY <1>4
  <1>6. n \in Nat
    BY <1>3 DEF UpkeepOfConditions, PeopleInv, PersonRow
  <1>7. DOMAIN c_people' = Persons /\ \A w \in Persons : c_people'[w] = IF w = v THEN row ELSE c_people[w]
    BY <1>1, <1>3, <1>4 DEF UpkeepOfConditions, PeopleInv
  <1>8. PersonRow(row)
    BY <1>5, <1>6 DEF PersonRow
  <1>9. PeopleInv'
    BY <1>7, <1>8 DEF UpkeepOfConditions, PeopleInv
  <1>10. \A w \in Persons : c_people'[w] = c_people[w] \/ c_people'[w].version = c_people[w].version + 1
    BY <1>3, <1>5, <1>7
  <1>11. \A c \in Calls : c_call[c].pc = "tick" => AsRead(c_call[c].people)'
    BY <1>9, <1>10, PeopleMove, <1>2 DEF UpkeepOfConditions, RequestsInv, RequestInv
  <1>12. RequestsInv'
    BY <1>2, <1>11 DEF UpkeepOfConditions, RequestsInv, RequestInv
  <1>13. ConditionsInv' /\ TicksInv'
    BY <1>2 DEF UpkeepOfConditions, ConditionsInv, TicksInv
  <1>14. QED
    BY <1>9, <1>12, <1>13 DEF UpkeepOfConditions

LEMMA TickKeeps ==
    ASSUME C!ConditionsAssumption, UpkeepOfConditions, NEW c \in Calls, C!Tick(c)
    PROVE  UpkeepOfConditions'
  <1>1. PICK B, read : B = C!Victims(c) /\ read = c_call[c].people
    OBVIOUS
  <1>2. C!Ticking(c) /\ AsRead(read) /\ UNCHANGED c_conditions
    BY <1>1 DEF C!Tick, C!InWindow, C!Ticking, UpkeepOfConditions, RequestsInv, RequestInv
  <1>3. PICK took : took = [v \in B |-> C!Taken(c, v)]
    OBVIOUS
  <1>4. ASSUME NEW v \in B
        PROVE  /\ v \in Persons /\ read[v] = c_people[v]
               /\ C!Taken(c, v) \in Nat /\ C!Taken(c, v) <= c_people[v].stamina
    <2>1. v \in Persons /\ c_people[v].version = read[v].version
      BY <1>1, <1>4 DEF C!Victims, C!Tick, C!Stale
    <2>2. read[v] = c_people[v] /\ PersonRow(c_people[v])
      BY <1>2, <2>1 DEF AsRead, UpkeepOfConditions, PeopleInv
    <2>3. C!Condition(c).label \in Afflictions
      BY <1>2, CurrentCondition DEF ConditionRow
    <2>4. PICK a, b : a = Severity[C!Condition(c).label] /\ b = read[v].stamina
      OBVIOUS
    <2>5. a \in Nat /\ b \in Nat /\ b = c_people[v].stamina
      BY <2>2, <2>3, <2>4 DEF C!ConditionsAssumption, PersonRow
    <2>6. C!Taken(c, v) = IF a < b THEN a ELSE b
      BY <1>1, <2>4 DEF C!Taken, C!Lesser
    <2>7. C!Taken(c, v) \in Nat /\ C!Taken(c, v) <= b
      BY <2>5, <2>6
    <2>8. QED
      BY <2>1, <2>2, <2>5, <2>7
  <1>5. c_people' = [v \in Persons |->
                     IF v \in B THEN [c_people[v] EXCEPT !.stamina = @ - C!Taken(c, v), !.version = @ + 1]
                                ELSE c_people[v]]
    BY <1>1 DEF C!Tick
  <1>6. ASSUME NEW v \in B
        PROVE  PersonRow(c_people'[v]) /\ c_people'[v].version = c_people[v].version + 1
    <2>1. PICK row, x, y, taken : row = c_people[v] /\ x = row.stamina /\ y = row.version + 1
                                  /\ taken = C!Taken(c, v)
      OBVIOUS
    <2>2. PersonRow(row) /\ v \in Persons /\ taken \in Nat /\ taken <= x
      BY <1>4, <2>1 DEF UpkeepOfConditions, PeopleInv
    <2>3. x - taken \in Nat /\ y \in Nat
      BY <2>1, <2>2 DEF PersonRow
    <2>4. PICK half : half = [row EXCEPT !.stamina = x - taken]
      OBVIOUS
    <2>5. half.at = row.at /\ half.stamina = x - taken /\ half.version = row.version
          /\ DOMAIN half = {"at", "stamina", "version"}
      BY <2>2, <2>4 DEF PersonRow
    <2>6. PICK whole : whole = [half EXCEPT !.version = y]
      OBVIOUS
    <2>7. whole.at = row.at /\ whole.stamina = x - taken /\ whole.version = y
          /\ whole = [at |-> whole.at, stamina |-> whole.stamina, version |-> whole.version]
      BY <2>5, <2>6
    <2>8. c_people'[v] = whole
      BY <1>5, <2>1, <2>2, <2>4, <2>5, <2>6
    <2>9. QED
      BY <2>1, <2>3, <2>7, <2>8 DEF PersonRow
  <1>7. \A v \in Persons : v \notin B => c_people'[v] = c_people[v]
    BY <1>5
  <1>8. PeopleInv'
    BY <1>5, <1>6, <1>7 DEF UpkeepOfConditions, PeopleInv
  <1>9. \A v \in Persons : c_people'[v] = c_people[v] \/ c_people'[v].version = c_people[v].version + 1
    BY <1>6, <1>7
  <1>10. \A x : AsRead(x) => AsRead(x)'
    BY <1>8, <1>9, PeopleMove
  <1>11. PICK v : c_call' = [c_call EXCEPT ![c] = v] /\ RequestInv(v)
    BY <1>2, NextDue DEF C!Tick, UpkeepOfConditions
  <1>12. RequestsInv'
    <2>1. DOMAIN c_call' = Calls /\ \A b \in Calls : RequestInv(c_call'[b])
      BY <1>11 DEF UpkeepOfConditions, RequestsInv
    <2>2. \A b \in Calls : RequestInv(c_call[b])'
      BY <1>2, <1>10, <2>1 DEF RequestInv
    <2>3. QED
      BY <2>1, <2>2 DEF RequestsInv
  <1>13. PICK t : t = [condition |-> C!Current(c), index |-> c_call[c].index, took |-> took]
    OBVIOUS
  <1>14. t.condition = C!Current(c) /\ t.index = c_call[c].index
    BY <1>13
  <1>15. /\ c_ticks' = Append(c_ticks, t) /\ c_keys' = c_keys \cup {<<t.condition, t.index>>}
         /\ <<t.condition, t.index>> \notin c_keys
    BY <1>1, <1>3, <1>13, <1>14 DEF C!Tick, C!Key
  <1>16. TicksInv'
    BY <1>15, AnotherTick DEF UpkeepOfConditions
  <1>17. QED
    BY <1>2, <1>8, <1>12, <1>16 DEF UpkeepOfConditions, ConditionsInv

LEMMA AfflictKeeps ==
    ASSUME C!ConditionsAssumption, UpkeepOfConditions, NEW c \in Calls, C!Afflict(c)
    PROVE  UpkeepOfConditions'
  <1>1. PICK label \in Afflictions : c_conditions' = Append(c_conditions, C!Illness(label, c_call[c].index))
    BY DEF C!Afflict
  <1>2. c_call[c].index \in Nat /\ UNCHANGED <<c_people, c_keys, c_call, c_ticks>>
    BY DEF C!Afflict
  <1>3. c_call[c].index + Duration \in Nat
    BY <1>2 DEF C!ConditionsAssumption
  <1>4. C!Illness(label, c_call[c].index) \in ConditionRow
    BY <1>2, <1>3 DEF C!Illness, ConditionRow
  <1>5. c_conditions' \in Seq(ConditionRow) /\ DOMAIN c_conditions \subseteq DOMAIN c_conditions'
    BY <1>1, <1>4 DEF UpkeepOfConditions, ConditionsInv
  <1>6. \A b \in Calls : RequestInv(c_call[b])'
    BY <1>2, <1>5 DEF UpkeepOfConditions, RequestsInv, RequestInv, AsRead
  <1>7. QED
    BY <1>2, <1>5, <1>6 DEF UpkeepOfConditions, ConditionsInv, PeopleInv, RequestsInv, TicksInv

LEMMA RecoverKeeps ==
    ASSUME UpkeepOfConditions, NEW c \in Calls, C!Recover(c)
    PROVE  UpkeepOfConditions'
  <1>1. C!Ticking(c) /\ C!Next1(c) /\ UNCHANGED <<c_people, c_keys, c_ticks>>
        /\ c_conditions' = [c_conditions EXCEPT ![C!Current(c)].status = "recovered"]
    BY DEF C!Recover
  <1>2. C!Current(c) \in DOMAIN c_conditions /\ C!Condition(c) \in ConditionRow
        /\ c_conditions \in Seq(ConditionRow)
    BY <1>1, CurrentCondition DEF UpkeepOfConditions, ConditionsInv
  <1>3. PICK row : row = [C!Condition(c) EXCEPT !.status = "recovered"]
    OBVIOUS
  <1>4. row \in ConditionRow
    BY <1>2, <1>3 DEF ConditionRow
  <1>5. c_conditions' = [c_conditions EXCEPT ![C!Current(c)] = row]
    BY <1>1, <1>3 DEF C!Condition
  <1>6. c_conditions' \in Seq(ConditionRow) /\ DOMAIN c_conditions' = DOMAIN c_conditions
    BY <1>2, <1>4, <1>5
  <1>7. PICK v : c_call' = [c_call EXCEPT ![c] = v] /\ RequestInv(v)
    BY <1>1, NextDue DEF UpkeepOfConditions
  <1>8. RequestsInv'
    BY <1>1, <1>6, <1>7, RequestMoves DEF UpkeepOfConditions
  <1>9. QED
    BY <1>1, <1>6, <1>8 DEF UpkeepOfConditions, ConditionsInv, PeopleInv, TicksInv

\* A step of a request that writes no row.
LEMMA RequestGoesOn ==
    ASSUME UpkeepOfConditions, NEW c \in Calls, NEW v, c_call' = [c_call EXCEPT ![c] = v],
           RequestInv(v), UNCHANGED <<c_conditions, c_people, c_keys, c_ticks>>
    PROVE  UpkeepOfConditions'
  <1>1. RequestsInv'
    BY RequestMoves DEF UpkeepOfConditions
  <1>2. QED
    BY <1>1 DEF UpkeepOfConditions, ConditionsInv, PeopleInv, TicksInv

LEMMA ReadAllKeeps ==
    ASSUME UpkeepOfConditions, NEW c \in Calls, C!ReadAll(c)
    PROVE  UpkeepOfConditions'
  <1>1. PICK due : due = {n \in DOMAIN c_conditions : C!Active(n)}
    OBVIOUS
  <1>2. PICK v : v = [pc |-> "tick", index |-> c_call[c].index, people |-> c_people, due |-> due]
    OBVIOUS
  <1>3. /\ v.pc = "tick" /\ v.people = c_people /\ v.due = due
        /\ v = [pc |-> "tick", index |-> v.index, people |-> v.people, due |-> v.due]
    BY <1>2
  <1>4. due \subseteq DOMAIN c_conditions
    BY <1>1
  <1>5. AsRead(c_people)
    BY DEF AsRead, UpkeepOfConditions, PeopleInv, PersonRow
  <1>6. RequestInv(v)
    BY <1>3, <1>4, <1>5 DEF RequestInv
  <1>7. c_call' = [c_call EXCEPT ![c] = v] /\ UNCHANGED <<c_conditions, c_people, c_keys, c_ticks>>
    BY <1>1, <1>2 DEF C!ReadAll
  <1>8. QED
    BY <1>6, <1>7, RequestGoesOn

LEMMA ConditionsStep ==
    ASSUME C!ConditionsAssumption, UpkeepOfConditions, [C!Next]_(C!vars)
    PROVE  UpkeepOfConditions'
  <1>1. CASE UNCHANGED C!vars
    BY <1>1 DEF C!vars, UpkeepOfConditions, PeopleInv, ConditionsInv, RequestsInv, RequestInv,
                AsRead, TicksInv
  <1>2. ASSUME NEW c \in Calls, C!Begin(c) PROVE UpkeepOfConditions'
    <2>1. PICK i : c_call' = [c_call EXCEPT ![c] = [pc |-> "queue", index |-> i]]
      BY <1>2 DEF C!Begin
    <2>2. RequestInv([pc |-> "queue", index |-> i])
      BY DEF RequestInv
    <2>3. UNCHANGED <<c_conditions, c_people, c_keys, c_ticks>>
      BY <1>2 DEF C!Begin
    <2>4. QED
      BY <2>1, <2>2, <2>3, RequestGoesOn
  <1>3. RequestInv(C!Idle)
    BY DEF RequestInv, C!Idle
  <1>4. ASSUME NEW c \in Calls, C!Refuse(c) \/ C!Advance(c) \/ C!Die(c) PROVE UpkeepOfConditions'
    <2>1. c_call' = [c_call EXCEPT ![c] = C!Idle] /\ UNCHANGED <<c_conditions, c_people, c_keys, c_ticks>>
      BY <1>4 DEF C!Refuse, C!Advance, C!Die, C!Stop
    <2>2. QED
      BY <1>3, <2>1, RequestGoesOn
  <1>5. ASSUME NEW c \in Calls, C!NotYet(c) \/ C!Pass(c) PROVE UpkeepOfConditions'
    <2>1. C!Ticking(c) /\ C!Next1(c) /\ UNCHANGED <<c_conditions, c_people, c_keys, c_ticks>>
      BY <1>5 DEF C!NotYet, C!Pass, C!InWindow
    <2>2. QED
      BY <2>1, NextDue, RequestGoesOn DEF UpkeepOfConditions
  <1>6. QED
    BY <1>1, <1>2, <1>4, <1>5, ChangeKeeps, TickKeeps, AfflictKeeps, RecoverKeeps, ReadAllKeeps
       DEF C!Next, C!CallStep

\* A condition strikes once at a phase, however requests overlap, and takes no more
\* than is there (conditions.py): for any characters, illnesses, requests and deaths.
THEOREM TickedOnceHolds == Spec => []TickedOnce
  <1>1. UpkeepOfConditions => C!TickedOnce
    <2> SUFFICES ASSUME UpkeepOfConditions PROVE C!TickedOnce
      OBVIOUS
    <2>1. \A v \in Persons : c_people[v].stamina >= 0
      BY DEF UpkeepOfConditions, PeopleInv, PersonRow
    <2>2. QED
      BY <2>1 DEF UpkeepOfConditions, TicksInv, C!TickedOnce
  <1>2. UpkeepOfConditions /\ [Next]_vars => UpkeepOfConditions'
    BY ConditionsStep, ComponentsStep, UpkeepAssumption DEF UpkeepAssumption
  <1>3. Init => UpkeepOfConditions
    BY ConditionsInit, ComponentsBegin, UpkeepAssumption DEF UpkeepAssumption
  <1>4. QED
    BY <1>1, <1>2, <1>3, PTL DEF Spec, TickedOnce

-----------------------------------------------------------------------------
(* What characters perceive, keep and are shown                            *)

\* Who was in an event's scene, or by its author when its phase was sealed.
Witnesses(c, e) == c \in e.group \/ r_sealed[e.phase][c] = r_sealed[e.phase][e.author]

PhasesInv ==
    /\ \E U : r_sealed \in Seq(U)
    /\ r_phase = Len(r_sealed) /\ (r_pc = "play" => r_phase >= 1)
EventsInv ==
    /\ \E U : r_events \in Seq(U)
    /\ \A n \in DOMAIN r_events : r_events[n].phase \in 1..r_phase
RecordsInv ==
    \A r \in DOMAIN r_records :
        /\ r.class \in {"observations", "memories"} /\ r.event \in DOMAIN r_events
        /\ Witnesses(r.owner, r_events[r.event])
DigestInv(d) ==
    /\ d.sources \subseteq d.offered
    /\ \A r \in d.offered : r \in DOMAIN r_records /\ r.owner = d.owner
DigestsInv ==
    /\ \E U : r_digests \in Seq(U)
    /\ \A k \in DOMAIN r_digests : DigestInv(r_digests[k])
    /\ R!DigestedOnce

MemoryInv == PhasesInv /\ EventsInv /\ RecordsInv /\ DigestsInv

LEMMA MemoryInit == R!Init => MemoryInv
  <1> SUFFICES ASSUME R!Init PROVE MemoryInv
    OBVIOUS
  <1>1. r_sealed = <<>> /\ r_phase = 0 /\ r_pc = "idle" /\ r_events = <<>> /\ r_digests = <<>>
        /\ DOMAIN r_records = {}
    BY DEF R!Init
  <1>2. r_sealed \in Seq({}) /\ r_events \in Seq({}) /\ r_digests \in Seq({})
    BY <1>1
  <1>3. PhasesInv
    BY <1>1, <1>2 DEF PhasesInv
  <1>4. EventsInv
    BY <1>1, <1>2 DEF EventsInv
  <1>5. DigestsInv
    BY <1>1, <1>2 DEF DigestsInv, R!DigestedOnce
  <1>6. QED
    BY <1>1, <1>3, <1>4, <1>5 DEF MemoryInv, RecordsInv

\* What is in a digest stays there.
LEMMA DigestsStay ==
    ASSUME MemoryInv, UNCHANGED r_digests, DOMAIN r_records \subseteq DOMAIN r_records'
    PROVE  DigestsInv'
  BY DEF MemoryInv, DigestsInv, DigestInv, R!DigestedOnce

LEMMA SealKeeps == ASSUME MemoryInv, R!Seal PROVE MemoryInv'
  <1>1. r_sealed' = Append(r_sealed, r_at) /\ r_phase' = r_phase + 1 /\ UNCHANGED <<r_events, r_records, r_digests>>
    BY DEF R!Seal
  <1>2. PICK U : r_sealed \in Seq(U)
    BY DEF MemoryInv, PhasesInv
  <1>3. /\ r_sealed \in Seq(U \union {r_at}) /\ r_sealed' \in Seq(U \union {r_at})
        /\ Len(r_sealed') = Len(r_sealed) + 1
        /\ \A n \in 1..Len(r_sealed) : r_sealed'[n] = r_sealed[n]
    BY <1>1, <1>2
  <1>4. Len(r_sealed) \in Nat /\ r_phase = Len(r_sealed)
    BY <1>2 DEF MemoryInv, PhasesInv
  <1>5. PhasesInv'
    BY <1>1, <1>3, <1>4 DEF PhasesInv
  <1>6. EventsInv'
    BY <1>1, <1>4 DEF MemoryInv, EventsInv
  <1>7. \A n \in DOMAIN r_events : r_sealed'[r_events[n].phase] = r_sealed[r_events[n].phase]
    BY <1>3, <1>4 DEF MemoryInv, EventsInv
  <1>8. RecordsInv'
    BY <1>1, <1>7 DEF MemoryInv, RecordsInv, Witnesses
  <1>9. DigestsInv'
    BY <1>1, DigestsStay
  <1>10. QED
    BY <1>5, <1>6, <1>8, <1>9 DEF MemoryInv

\* A character that perceives an attempt is in its scene or by its author.
LEMMA PerceivesWhatItWitnesses ==
    ASSUME R!RememberingAssumption, NEW o \in R!People, NEW e,
           NEW s \in R!Scenes, e.told \in {s[k].told : k \in DOMAIN s},
           e.group = R!Everyone({s[k] : k \in DOMAIN s}), e.phase = r_phase,
           R!Perceives(e, o, R!Vantage)
    PROVE  Witnesses(o, e)
  <1>1. o # Nobody
    BY DEF R!RememberingAssumption, R!People
  <1>2. CASE o = e.told
    <2>1. PICK k \in DOMAIN s : o = s[k].told
      BY <1>2
    <2>2. PICK members : members = {s[j] : j \in DOMAIN s}
      OBVIOUS
    <2>3. s[k] \in members /\ o \in {s[k].author, s[k].told} /\ o \notin {Nobody}
      BY <1>1, <2>1, <2>2
    <2>4. o \in UNION {{i.author, i.told} : i \in members}
      BY <2>3, Zenon
    <2>5. o \in e.group
      BY <2>2, <2>3, <2>4 DEF R!Everyone
    <2>6. QED
      BY <2>5 DEF Witnesses
  <1>3. QED
    BY <1>2 DEF R!Perceives, R!Vantage, Witnesses

\* A scene is of one attempt or of two.
LEMMA SceneIsShort ==
    ASSUME NEW s \in R!Scenes
    PROVE  Len(s) \in {1, 2} /\ \E U : s \in Seq(U)
  <1>1. CASE \E i \in Attempts : s = <<i>>
    <2>1. PICK i \in Attempts : s = <<i>>
      BY <1>1
    <2>2. s \in Seq({i}) /\ Len(s) = 1
      BY <2>1
    <2>3. QED
      BY <2>2
  <1>2. CASE \E i, j \in Attempts : s = <<i, j>>
    <2>1. PICK i, j \in Attempts : s = <<i, j>>
      BY <1>2
    <2>2. s \in Seq({i, j}) /\ Len(s) = 2
      BY <2>1
    <2>3. QED
      BY <2>2
  <1>3. s \in {<<i>> : i \in Attempts} \/ s \in Attempts \X Attempts
    BY DEF R!Scenes
  <1>4. QED
    BY <1>1, <1>2, <1>3

LEMMA SmallestIn ==
    ASSUME NEW T \in SUBSET Nat, T # {}
    PROVE  R!Min(T) \in T
  <1>1. R!Min(T) = O!Min(T)
    BY DEF R!Min, O!Min
  <1>2. QED
    BY <1>1, SmallestOf

LEMMA PlayKeeps == ASSUME R!RememberingAssumption, MemoryInv, R!Play PROVE MemoryInv'
  <1>1. PICK s \in R!Scenes :
          LET group == R!Everyone({s[k] : k \in DOMAIN s})
              happened == [k \in DOMAIN s |-> [author |-> s[k].author, told |-> s[k].told,
                                               group |-> group, phase |-> r_phase]]
          IN r_events' = r_events \o happened /\ R!Remember(R!Perceived(happened, Len(r_events)))
    BY DEF R!Play
  <1>2. PICK group, happened :
          /\ group = R!Everyone({s[k] : k \in DOMAIN s})
          /\ happened = [k \in DOMAIN s |-> [author |-> s[k].author, told |-> s[k].told,
                                             group |-> group, phase |-> r_phase]]
    OBVIOUS
  <1>3. PICK new : new = R!Perceived(happened, Len(r_events))
    OBVIOUS
  <1>4. r_events' = r_events \o happened /\ R!Remember(new)
    BY <1>1, <1>2, <1>3
  <1>5. UNCHANGED <<r_sealed, r_phase, r_digests>> /\ r_pc = "play" /\ r_pc' # "play"
    BY DEF R!Play, R!Complete
  <1>6. PICK n : n = Len(s) /\ n \in {1, 2} /\ DOMAIN s = 1..n
    <2>1. PICK W : s \in Seq(W)
      BY SceneIsShort
    <2>2. DOMAIN s = 1..Len(s)
      BY <2>1
    <2>3. QED
      BY <2>2, SceneIsShort
  <1>7. /\ DOMAIN happened = 1..n
        /\ \A k \in 1..n : /\ happened[k].author = s[k].author /\ happened[k].told = s[k].told
                           /\ happened[k].group = group /\ happened[k].phase = r_phase
    BY <1>2, <1>6
  <1>8. PICK U : r_events \in Seq(U)
    BY DEF MemoryInv, EventsInv
  <1>9. PICK V : V = U \union {happened[k] : k \in 1..n}
    OBVIOUS
  <1>10. r_events \in Seq(V) /\ happened \in Seq(V) /\ Len(happened) = n
    <2>1. n \in Nat
      BY <1>6
    <2>2. happened = [k \in 1..n |-> happened[k]]
      BY <1>2, <1>6
    <2>3. \A k \in 1..n : happened[k] \in V
      BY <1>9
    <2>4. happened \in [1..n -> V]
      BY <2>2, <2>3
    <2>5. happened \in Seq(V) /\ Len(happened) = n
      BY <2>1, <2>4
    <2>6. r_events \in Seq(V)
      BY <1>8, <1>9
    <2>7. QED
      BY <2>5, <2>6
  <1>11. PICK first : first = Len(r_events) /\ first \in Nat /\ DOMAIN r_events = 1..first
    BY <1>8
  <1>12. /\ r_events' \in Seq(V) /\ DOMAIN r_events' = 1..(first + n)
         /\ \A k \in 1..first : r_events'[k] = r_events[k]
         /\ \A k \in 1..n : r_events'[first + k] = happened[k]
    <2>1. n \in Nat
      BY <1>6
    <2>2. r_events' \in Seq(V) /\ Len(r_events') = first + n
      <3>1. r_events \o happened \in Seq(V)
        BY <1>10
      <3>2. Len(r_events \o happened) = Len(r_events) + Len(happened)
        BY <1>10
      <3>3. QED
        BY <1>4, <1>10, <1>11, <3>1, <3>2
    <2>3. \A k \in 1..first : r_events'[k] = r_events[k]
      BY <1>4, <1>10, <1>11, <2>1
    <2>4. ASSUME NEW k \in 1..n PROVE r_events'[first + k] = happened[k]
      <3>1. PICK j : j = first + k
        OBVIOUS
      <3>2. j \in 1..(Len(r_events) + Len(happened)) /\ j > Len(r_events) /\ j - Len(r_events) = k
        BY <1>10, <1>11, <2>1, <3>1
      <3>3. (r_events \o happened)[j] = happened[j - Len(r_events)]
        BY <1>10, <3>2
      <3>4. QED
        BY <1>4, <3>1, <3>2, <3>3
    <2>5. QED
      BY <2>2, <2>3, <2>4
  <1>13. r_phase >= 1 /\ r_phase \in Nat
    <2>1. PICK W : r_sealed \in Seq(W)
      BY DEF MemoryInv, PhasesInv
    <2>2. QED
      BY <1>5, <2>1 DEF MemoryInv, PhasesInv
  <1>14. PhasesInv'
    BY <1>5 DEF MemoryInv, PhasesInv
  <1>15. EventsInv'
    <2>1. ASSUME NEW k \in DOMAIN r_events' PROVE r_events'[k].phase \in 1..r_phase
      <3>1. CASE k \in 1..first
        BY <1>11, <1>12, <3>1 DEF MemoryInv, EventsInv
      <3>2. CASE k \notin 1..first
        <4>1. PICK j : j = k - first
          OBVIOUS
        <4>2. j \in 1..n /\ k = first + j
          BY <1>6, <1>11, <1>12, <3>2, <4>1
        <4>3. r_events'[k].phase = r_phase
          BY <1>7, <1>12, <4>2
        <4>4. QED
          BY <1>13, <4>3
      <3>3. QED
        BY <3>1, <3>2
    <2>2. QED
      BY <1>5, <1>12, <2>1 DEF EventsInv
  <1>16. ASSUME NEW o, NEW k \in 1..n, Witnesses(o, happened[k])
         PROVE  first + k \in DOMAIN r_events' /\ Witnesses(o, r_events'[first + k])
    <2>1. first + k \in DOMAIN r_events' /\ r_events'[first + k] = happened[k]
      BY <1>6, <1>11, <1>12
    <2>2. QED
      BY <1>16, <2>1
  <1>17. ASSUME NEW r \in new
         PROVE  \E o : \E k \in 1..n : /\ r.owner = o /\ r.event = first + k
                                       /\ r.class \in {"observations", "memories"}
                                       /\ Witnesses(o, happened[k])
    <2>1. CASE \E p \in R!People \X DOMAIN happened :
                  R!Perceives(happened[p[2]], p[1], R!Vantage) /\ r = R!Observation(p[1], first + p[2])
      <3>1. PICK o \in R!People, k \in DOMAIN happened :
              R!Perceives(happened[k], o, R!Vantage) /\ r = R!Observation(o, first + k)
        BY <2>1
      <3>2. r.owner = o /\ r.event = first + k /\ r.class = "observations"
        BY <3>1 DEF R!Observation
      <3>3. k \in 1..n /\ k \in DOMAIN s
        BY <1>6, <1>7
      <3>4. Witnesses(o, happened[k])
        <4>1. /\ happened[k].told \in {s[j].told : j \in DOMAIN s}
              /\ happened[k].group = R!Everyone({s[j] : j \in DOMAIN s})
              /\ happened[k].phase = r_phase
          BY <1>2, <1>7, <3>3
        <4>2. QED
          BY <3>1, <4>1, PerceivesWhatItWitnesses
      <3>5. QED
        BY <3>2, <3>3, <3>4
    <2>2. CASE \E o \in happened[1].group :
                  LET own == {k \in DOMAIN happened : happened[k].author = o}
                  IN r = R!Memory(o, first + IF own = {} THEN 1 ELSE R!Min(own))
      <3>1. PICK o \in happened[1].group :
              LET own == {k \in DOMAIN happened : happened[k].author = o}
              IN r = R!Memory(o, first + IF own = {} THEN 1 ELSE R!Min(own))
        BY <2>2
      <3>2. PICK own : own = {k \in DOMAIN happened : happened[k].author = o}
        OBVIOUS
      <3>3. PICK k : k = IF own = {} THEN 1 ELSE R!Min(own)
        OBVIOUS
      <3>4. k \in 1..n
        <4>1. own \subseteq 1..n
          BY <1>7, <3>2
        <4>2. own \in SUBSET Nat
          BY <1>6, <4>1
        <4>3. CASE own = {}
          BY <1>6, <3>3, <4>3
        <4>4. CASE own # {}
          BY <3>3, <4>1, <4>2, <4>4, SmallestIn
        <4>5. QED
          BY <4>3, <4>4
      <3>5. r = R!Memory(o, first + k)
        BY <3>1, <3>2, <3>3
      <3>6. r.owner = o /\ r.event = first + k /\ r.class = "memories"
        BY <3>5 DEF R!Memory
      <3>7. o \in happened[k].group
        BY <1>6, <1>7, <3>1, <3>4
      <3>8. QED
        BY <3>4, <3>6, <3>7 DEF Witnesses
    <2>3. QED
      BY <1>3, <1>11, <1>17, <2>1, <2>2 DEF R!Perceived
  <1>18. DOMAIN r_records' = DOMAIN r_records \union new
    BY <1>4 DEF R!Remember
  <1>19. RecordsInv'
    <2>1. ASSUME NEW r \in DOMAIN r_records
          PROVE  /\ r.class \in {"observations", "memories"} /\ r.event \in DOMAIN r_events'
                 /\ Witnesses(r.owner, r_events'[r.event])
      <3>1. r.event \in 1..first /\ Witnesses(r.owner, r_events[r.event])
            /\ r.class \in {"observations", "memories"}
        BY <1>11 DEF MemoryInv, RecordsInv
      <3>2. r.event \in DOMAIN r_events' /\ r_events'[r.event] = r_events[r.event]
        BY <1>6, <1>11, <1>12, <3>1
      <3>3. QED
        BY <3>1, <3>2
    <2>2. ASSUME NEW r \in new
          PROVE  /\ r.class \in {"observations", "memories"} /\ r.event \in DOMAIN r_events'
                 /\ Witnesses(r.owner, r_events'[r.event])
      BY <1>16, <1>17
    <2>3. QED
      BY <1>5, <1>18, <2>1, <2>2 DEF RecordsInv, Witnesses
  <1>20. DigestsInv'
    BY <1>5, <1>18, DigestsStay
  <1>21. QED
    BY <1>14, <1>15, <1>19, <1>20 DEF MemoryInv

LEMMA PromoteKeeps == ASSUME MemoryInv, R!Promote PROVE MemoryInv'
  <1>1. PICK own : own = R!OwnDigests
    OBVIOUS
  <1>2. PICK offered : offered = R!Enduring \ R!Digested
    OBVIOUS
  <1>3. PICK cited \in R!Citations(offered) : r_digests' = Append(r_digests, R!Digest(offered, cited))
    BY <1>2 DEF R!Promote
  <1>4. PICK d : d = R!Digest(offered, cited)
    OBVIOUS
  <1>5. r_pc = "night" /\ r_pc' # "play" /\ UNCHANGED <<r_phase, r_sealed, r_events, r_records>>
    BY DEF R!Promote, R!Writing, R!NextOwner
  <1>6. cited \subseteq offered
    BY <1>3 DEF R!Citations
  <1>7. /\ d.owner = R!Owner /\ d.offered = offered
        /\ d.sources = IF cited = {} THEN offered ELSE cited
    BY <1>4 DEF R!Digest
  <1>8. d.sources \subseteq offered
    BY <1>6, <1>7
  <1>9. ASSUME NEW r \in offered
         PROVE  r \in DOMAIN r_records /\ r.owner = R!Owner /\ r \notin R!Digested
    BY <1>2 DEF R!Enduring, R!Of
  <1>10. PICK U : r_digests \in Seq(U)
    BY DEF MemoryInv, DigestsInv
  <1>11. PICK n : n = Len(r_digests) /\ n \in Nat /\ DOMAIN r_digests = 1..n
    BY <1>10
  <1>12. r_digests \in Seq(U \union {d}) /\ d \in U \union {d}
    BY <1>10
  <1>13. /\ r_digests' \in Seq(U \union {d}) /\ DOMAIN r_digests' = 1..(n + 1)
         /\ r_digests'[n + 1] = d /\ \A k \in 1..n : r_digests'[k] = r_digests[k]
    BY <1>3, <1>4, <1>11, <1>12
  <1>14. DigestInv(d)
    BY <1>7, <1>8, <1>9 DEF DigestInv
  <1>15. ASSUME NEW k \in 1..n PROVE r_digests[k].sources \cap d.sources = {}
    <2> SUFFICES ASSUME NEW r \in r_digests[k].sources, r \in d.sources PROVE FALSE
      OBVIOUS
    <2>1. r \in offered /\ r.owner = R!Owner /\ r \notin R!Digested
      BY <1>8, <1>9
    <2>2. k \in DOMAIN r_digests /\ DigestInv(r_digests[k])
      BY <1>11 DEF MemoryInv, DigestsInv
    <2>3. r_digests[k].owner = R!Owner
      BY <2>1, <2>2 DEF DigestInv
    <2>4. k \in R!OwnDigests
      BY <2>2, <2>3 DEF R!OwnDigests
    <2>5. PICK took : took = r_digests[k].sources
      OBVIOUS
    <2>6. took \in {r_digests[j].sources : j \in R!OwnDigests} /\ r \in took
      BY <2>4, <2>5
    <2>7. r \in R!Digested
      BY <2>6, Zenon DEF R!Digested
    <2>8. QED
      BY <2>1, <2>7
  <1>16. ASSUME NEW j \in 1..(n + 1), NEW k \in 1..(n + 1), j # k
         PROVE  r_digests'[j].sources \cap r_digests'[k].sources = {}
    <2>1. (j \in 1..n \/ j = n + 1) /\ (k \in 1..n \/ k = n + 1)
      BY <1>11
    <2>2. CASE j \in 1..n /\ k \in 1..n
      BY <1>11, <1>13, <1>16, <2>2 DEF MemoryInv, DigestsInv, R!DigestedOnce
    <2>3. CASE j \in 1..n /\ k = n + 1
      BY <1>13, <1>15, <2>3
    <2>4. CASE j = n + 1 /\ k \in 1..n
      BY <1>13, <1>15, <2>4
    <2>5. QED
      BY <1>16, <2>1, <2>2, <2>3, <2>4
  <1>17. ASSUME NEW k \in 1..(n + 1) PROVE DigestInv(r_digests'[k])
    <2>1. k \in 1..n \/ k = n + 1
      BY <1>11
    <2>2. \A j \in 1..n : DigestInv(r_digests[j])
      BY <1>11 DEF MemoryInv, DigestsInv
    <2>3. QED
      BY <1>13, <1>14, <2>1, <2>2
  <1>18. DigestsInv'
    BY <1>5, <1>13, <1>16, <1>17 DEF DigestsInv, DigestInv, R!DigestedOnce
  <1>19. QED
    BY <1>5, <1>18 DEF MemoryInv, PhasesInv, EventsInv, RecordsInv, Witnesses

LEMMA MemoryStep ==
    ASSUME R!RememberingAssumption, MemoryInv, [R!Next]_(R!vars)
    PROVE  MemoryInv'
  <1>1. ASSUME UNCHANGED <<r_phase, r_sealed, r_events, r_digests>>, r_pc' = "play" => r_pc = "play",
               DOMAIN r_records' = DOMAIN r_records
        PROVE  MemoryInv'
    BY <1>1, DigestsStay DEF MemoryInv, PhasesInv, EventsInv, RecordsInv, Witnesses
  <1>2. CASE UNCHANGED R!vars
    BY <1>1, <1>2 DEF R!vars
  <1>3. CASE R!Move
    BY <1>1, <1>3 DEF R!Move
  <1>4. CASE R!PlayQuietly
    BY <1>1, <1>4 DEF R!PlayQuietly, R!Complete
  <1>5. CASE R!Summarize
    BY <1>1, <1>5 DEF R!Summarize, R!NextOwner, R!Bumped
  <1>6. CASE R!GoWithout \/ R!LoseNight
    BY <1>1, <1>6 DEF R!GoWithout, R!NextOwner, R!LoseNight
  <1>7. QED
    BY <1>2, <1>3, <1>4, <1>5, <1>6, SealKeeps, PlayKeeps, PromoteKeeps DEF R!Next

\* What a character is shown it has witnessed.
LEMMA ShownIsWitnessed == MemoryInv => R!ShownOnlyWhatItWitnessed
  <1> SUFFICES ASSUME MemoryInv, NEW c \in R!People, NEW x \in R!Envelope(c)
               PROVE  /\ x.class = "relationships" => x.id.source = c
                      /\ \A n \in x.of : LET e == r_events[n] IN
                            c \in e.group \/ r_sealed[e.phase][c] = r_sealed[e.phase][e.author]
    BY DEF R!ShownOnlyWhatItWitnessed
  <1>1. x \in R!Candidates(c) /\ x.owner = c
    <2>1. PICK class \in {"observations", "memories", "relationships"} : x \in R!Section(c, class)
      BY DEF R!Envelope
    <2>2. PICK permitted :
            permitted = {y \in R!Candidates(c) : y.class = class /\ R!Permitted(y, c)}
      OBVIOUS
    <2>3. x \in permitted
      BY <2>1, <2>2 DEF R!Section
    <2>4. QED
      BY <2>2, <2>3 DEF R!Permitted
  <1>2. ASSUME NEW r \in DOMAIN r_records, r.owner = c, x.of = {r.event}, x.class = r.class
        PROVE  x.class # "relationships" /\ \A n \in x.of : Witnesses(c, r_events[n])
    BY <1>2 DEF MemoryInv, RecordsInv
  <1>3. CASE \E r \in DOMAIN r_records : r.owner = c /\
                x = R!Candidate(r, r.class, c, 2 * r_records[r], r_phase - R!HappenedIn(r), {r.event})
    <2>1. PICK r \in DOMAIN r_records : r.owner = c /\
             x = R!Candidate(r, r.class, c, 2 * r_records[r], r_phase - R!HappenedIn(r), {r.event})
      BY <1>3
    <2>2. x.of = {r.event} /\ x.class = r.class
      BY <2>1 DEF R!Candidate
    <2>3. QED
      BY <1>2, <2>1, <2>2 DEF Witnesses
  <1>4. CASE \E k \in DOMAIN r_digests : r_digests[k].owner = c /\
                x = R!Candidate([digest |-> k], "memories", c, R!DigestWeight, 0,
                                {r.event : r \in r_digests[k].offered})
    <2>1. PICK k \in DOMAIN r_digests : r_digests[k].owner = c /\
             x = R!Candidate([digest |-> k], "memories", c, R!DigestWeight, 0,
                             {r.event : r \in r_digests[k].offered})
      BY <1>4
    <2>2. x.of = {r.event : r \in r_digests[k].offered} /\ x.class = "memories"
      BY <2>1 DEF R!Candidate
    <2>3. ASSUME NEW n \in x.of PROVE Witnesses(c, r_events[n])
      <3>1. PICK r \in r_digests[k].offered : n = r.event
        BY <2>2
      <3>2. r \in DOMAIN r_records /\ r.owner = c
        BY <2>1, <3>1 DEF MemoryInv, DigestsInv, DigestInv
      <3>3. QED
        BY <3>1, <3>2 DEF MemoryInv, RecordsInv
    <2>4. QED
      BY <2>2, <2>3 DEF Witnesses
  <1>5. CASE \E t \in Ties :
                x = R!Candidate([source |-> t[1], target |-> t[2]], "relationships", t[1], 3, 0, {})
    <2>1. PICK t \in Ties :
             x = R!Candidate([source |-> t[1], target |-> t[2]], "relationships", t[1], 3, 0, {})
      BY <1>5
    <2>2. x.id.source = t[1] /\ x.owner = t[1] /\ x.of = {}
      BY <2>1 DEF R!Candidate
    <2>3. QED
      BY <1>1, <2>2
  <1>6. QED
    BY <1>1, <1>3, <1>4, <1>5 DEF R!Candidates

\* What a character is shown for its decision, even by way of a digest, comes from
\* attempts it took part in, was told, or stood by when their phase was sealed
\* (_context_for): for any people, places, attempts, nights and limits.
THEOREM ShownOnlyWhatItWitnessedHolds == Spec => []ShownOnlyWhatItWitnessed
  <1>1. MemoryInv /\ [Next]_vars => MemoryInv'
    BY MemoryStep, ComponentsStep, UpkeepAssumption DEF UpkeepAssumption
  <1>2. Init => MemoryInv
    BY MemoryInit, ComponentsBegin, UpkeepAssumption DEF UpkeepAssumption
  <1>3. QED
    BY <1>1, <1>2, ShownIsWitnessed, PTL DEF Spec, ShownOnlyWhatItWitnessed

\* A record is the source of one digest at most, over any number of nights,
\* failures and deaths (_promote_memories).
THEOREM DigestedOnceHolds == Spec => []DigestedOnce
  <1>1. MemoryInv => R!DigestedOnce
    BY DEF MemoryInv, DigestsInv
  <1>2. MemoryInv /\ [Next]_vars => MemoryInv'
    BY MemoryStep, ComponentsStep, UpkeepAssumption DEF UpkeepAssumption
  <1>3. Init => MemoryInv
    BY MemoryInit, ComponentsBegin, UpkeepAssumption DEF UpkeepAssumption
  <1>4. QED
    BY <1>1, <1>2, <1>3, PTL DEF Spec, DigestedOnce
-----------------------------------------------------------------------------
(* Endings and eras                                                        *)

\* No death inside [start, at) is on record, and none can come to be.
Quiet(start, at) ==
    /\ \A c \in Mortals : h_died[c] \notin start .. at - 1
    /\ \A s \in h_pending : FallsDue[s] >= at

WorkInv ==
    \/ h_work = H!NoWork
    \/ /\ h_work = [pc |-> h_work.pc, kind |-> h_work.kind, to |-> h_work.to,
                    last |-> h_work.last, at |-> h_work.at]
       /\ h_work.pc \in {"tick", "fire"}
       /\ h_work.to \in Nat /\ h_work.last \in Nat /\ h_work.last + 1 >= h_work.to
       /\ h_work.pc = "fire" => h_clock = h_work.to

\* The store is left behind by the end of the world, and by nothing else; what is
\* due behind the clock is fired before anything else begins.
ClockInv ==
    /\ {h_clock, h_row, h_store} \subseteq Nat /\ h_status \in {"active", "ended"}
    /\ h_row = IF h_status = "active" THEN h_store ELSE h_store + 1
    /\ h_pending \subseteq Schedules /\ h_memories \in Seq(Nat)
    /\ DOMAIN h_died = Mortals /\ \A c \in Mortals : h_died[c] \in Int
    /\ h_work.pc # "fire" => \A s \in h_pending : FallsDue[s] >= h_clock

Ended(n) == h_log[n].type = "ended"
LogInv ==
    /\ h_log \in Seq(H!EventRow)
    /\ h_status = "active" <=> \A n \in DOMAIN h_log : ~Ended(n)
    /\ \A m, n \in DOMAIN h_log : Ended(m) /\ Ended(n) => m = n
    /\ H!EndedIsStill

EvidenceRow ==
    [kind : {"eradicated", "peace", "day"}, at : Nat, start : Nat, satisfied : BOOLEAN,
     settled : BOOLEAN, clock : Nat]
EvidenceInv ==
    /\ h_evidence \in Seq(EvidenceRow)
    /\ h_status = "ended" <=> H!Satisfied(h_evidence)
    /\ \A n \in DOMAIN h_evidence : H!Peaceful(h_evidence[n]) =>
          /\ h_evidence[n].at - h_evidence[n].start = Window
          /\ Quiet(h_evidence[n].start, h_evidence[n].at)

\* What of an interval is told when the log has `length' events.
Told(span, length) ==
    H!Oldest({n \in 1..length : h_log[n].at >= span.start /\ h_log[n].at < span.end}, MaxEraEvents)
EraInv(era) ==
    /\ era.span \in Spans /\ era.version \in Nat /\ era.after \in 0..Len(h_eras)
    /\ \E length \in 0..Len(h_log) : era.events = Told(era.span, length)
    /\ \A m \in 1..era.after : h_eras[m].span = era.span =>
          h_eras[m].version < era.version /\ H!TellsFirst(era.events, h_eras[m].events)
EraRow ==
    [span : Spans, events : SUBSET Nat, memories : SUBSET Nat, version : Nat, after : Nat]
ErasInv ==
    /\ h_eras \in Seq(EraRow)
    /\ \A n \in DOMAIN h_eras : EraInv(h_eras[n]) /\ h_eras[n].version <= H!Prior(h_eras[n].span)

\* What a call has read still holds, or holds of what it read.
AnswerInv(call) ==
    /\ call.pc \in {"deaths", "events", "save"} =>
          call.at \in Nat /\ call.start = IF call.at > Window THEN call.at - Window ELSE 0
    /\ call.pc \in {"events", "save"} =>
          /\ call.settled \in BOOLEAN /\ call.clock \in Nat
          /\ call.settled = TRUE /\ call.deaths = {} => Quiet(call.start, call.at)
    /\ call.pc = "window" => call.span \in Spans
    /\ call.pc = "insert" =>
          /\ EraInv(call) /\ call.version <= H!Prior(call.span) + 1
          /\ call.memories \in SUBSET Nat
CallsInv == DOMAIN h_calls = Calls /\ \A c \in Calls : AnswerInv(h_calls[c])

ChronicleInv == WorkInv /\ ClockInv /\ LogInv /\ EvidenceInv /\ ErasInv /\ CallsInv

LEMMA ChronicleInit == H!ChronicleAssumption /\ H!Init => ChronicleInv
  <1> SUFFICES ASSUME H!ChronicleAssumption, H!Init PROVE ChronicleInv
    OBVIOUS
  <1>1. WorkInv
    BY DEF WorkInv, H!Init
  <1>2. ClockInv
    BY DEF ClockInv, H!Init, H!ChronicleAssumption, H!Never
  <1>3. LogInv
    BY DEF LogInv, Ended, H!Init, H!EndedIsStill
  <1>4. EvidenceInv
    BY DEF EvidenceInv, H!Init, H!Satisfied
  <1>5. ErasInv
    BY DEF ErasInv, H!Init
  <1>6. CallsInv
    BY DEF CallsInv, AnswerInv, H!Init, H!Idle
  <1>7. QED
    BY <1>1, <1>2, <1>3, <1>4, <1>5, <1>6 DEF ChronicleInv

\* The log is never rewritten.
LogGrows ==
    /\ h_log' \in Seq(H!EventRow) /\ Len(h_log) <= Len(h_log')
    /\ \A n \in 1..Len(h_log) : h_log'[n] = h_log[n]

\* What an era tells is told of a log that grows.
LEMMA EraStays ==
    ASSUME LogInv, LogGrows, UNCHANGED h_eras, NEW era, EraInv(era)
    PROVE  EraInv(era)'
  <1>1. Len(h_log) \in Nat /\ Len(h_log') \in Nat /\ Len(h_log) <= Len(h_log')
    BY DEF LogInv, LogGrows
  <1>2. PICK length \in 0..Len(h_log) : era.events = Told(era.span, length)
    BY DEF EraInv
  <1>3. \A n \in 1..length : h_log'[n] = h_log[n]
    BY <1>1, <1>2 DEF LogGrows
  <1>4. Told(era.span, length)' = Told(era.span, length)
    <2>1. {n \in 1..length : h_log'[n].at >= era.span.start /\ h_log'[n].at < era.span.end}
          = {n \in 1..length : h_log[n].at >= era.span.start /\ h_log[n].at < era.span.end}
      BY <1>3
    <2>2. QED
      BY <2>1 DEF Told, H!Oldest
  <1>5. length \in 0..Len(h_log')
    BY <1>1, <1>2
  <1>6. QED
    BY <1>2, <1>4, <1>5 DEF EraInv, H!TellsFirst

\* Phases, periods and overrides leave evaluations, composings and their rows alone.
LEMMA WorldMoves ==
    ASSUME ChronicleInv, UNCHANGED <<h_calls, h_evidence, h_eras>>, UNCHANGED h_status, LogGrows,
           \A start : \A at \in Nat : Quiet(start, at) => Quiet(start, at)'
    PROVE  EvidenceInv' /\ ErasInv' /\ CallsInv'
  <1> USE DEF ChronicleInv
  <1>1. EvidenceInv'
    <2>1. ASSUME NEW n \in DOMAIN h_evidence PROVE h_evidence[n].at \in Nat
      <3>1. h_evidence \in Seq(EvidenceRow)
        BY DEF EvidenceInv
      <3>2. h_evidence[n] \in EvidenceRow
        BY <3>1
      <3>3. QED
        BY <3>2 DEF EvidenceRow
    <2>2. QED
      BY <2>1 DEF EvidenceInv, H!Satisfied, H!Peaceful
  <1>2. \A era : EraInv(era) => EraInv(era)'
    BY EraStays
  <1>3. \A span : H!Prior(span)' = H!Prior(span)
    BY DEF H!Prior
  <1>4. ErasInv'
    BY <1>2, <1>3 DEF ErasInv
  <1>5. ASSUME NEW call, AnswerInv(call) PROVE AnswerInv(call)'
    BY <1>2, <1>3, <1>5 DEF AnswerInv
  <1>6. CallsInv'
    BY <1>5 DEF CallsInv
  <1>7. QED
    BY <1>1, <1>4, <1>6

LEMMA OneMore ==
    ASSUME LogInv, NEW e \in H!EventRow, h_log' = Append(h_log, e)
    PROVE  /\ LogGrows /\ DOMAIN h_log = 1..Len(h_log) /\ DOMAIN h_log' = 1..Len(h_log) + 1
           /\ Len(h_log) \in Nat /\ h_log'[Len(h_log) + 1] = e
  BY DEF LogInv, LogGrows

\* Events that are no end leave a log, in which nothing ticks after the end, so.
LEMMA LogStays ==
    ASSUME LogInv, LogGrows, UNCHANGED h_status,
           \A n \in DOMAIN h_log' : n > Len(h_log) =>
              h_log'[n].type # "ended" /\ (h_log'[n].type = "ticked" => h_status = "active")
    PROVE  LogInv'
  <1>1. /\ DOMAIN h_log = 1..Len(h_log) /\ DOMAIN h_log' = 1..Len(h_log')
        /\ Len(h_log) \in Nat /\ Len(h_log') \in Nat /\ Len(h_log) <= Len(h_log')
    BY DEF LogInv, LogGrows
  <1>2. ASSUME NEW n \in DOMAIN h_log' PROVE n \in DOMAIN h_log \/ n > Len(h_log)
    BY <1>1
  <1>3. ASSUME NEW n \in DOMAIN h_log' PROVE Ended(n)' <=> n \in DOMAIN h_log /\ Ended(n)
    <2>1. CASE n \in DOMAIN h_log
      BY <1>1, <2>1 DEF Ended, LogGrows
    <2>2. CASE n > Len(h_log)
      BY <1>1, <2>2 DEF Ended
    <2>3. QED
      BY <1>2, <1>3, <2>1, <2>2
  <1>4. DOMAIN h_log \subseteq DOMAIN h_log'
    BY <1>1
  <1>5. h_status' = "active" <=> \A n \in DOMAIN h_log' : ~Ended(n)'
    BY <1>3, <1>4 DEF LogInv
  <1>6. \A m, n \in DOMAIN h_log' : Ended(m)' /\ Ended(n)' => m = n
    BY <1>3 DEF LogInv
  <1>7. ASSUME NEW m \in DOMAIN h_log', NEW n \in DOMAIN h_log', Ended(m)', h_log'[n].type = "ticked"
        PROVE  n < m
    <2>1. m \in DOMAIN h_log /\ Ended(m) /\ h_status # "active"
      BY <1>3, <1>7 DEF LogInv
    <2>2. n \in DOMAIN h_log
      BY <1>2, <1>7, <2>1
    <2>3. h_log[n].type = "ticked"
      BY <1>1, <1>7, <2>2 DEF LogGrows
    <2>4. QED
      BY <2>1, <2>2, <2>3 DEF LogInv, H!EndedIsStill, Ended
  <1>8. QED
    BY <1>5, <1>6, <1>7 DEF LogInv, LogGrows, H!EndedIsStill, Ended

LEMMA BeginsWork ==
    ASSUME H!ChronicleAssumption, ChronicleInv, H!BeginPhase \/ H!BeginPeriod
    PROVE  ChronicleInv'
  <1> USE DEF ChronicleInv
  <1>1. h_work = H!NoWork /\ UNCHANGED <<h_clock, h_status, h_row, h_store, h_log, h_died, h_pending,
                                       h_memories, h_calls, h_evidence, h_eras>>
    BY DEF H!BeginPhase, H!BeginPeriod, H!world, H!rest, H!rows
  <1>2. PICK kind, to, last, from :
           /\ h_work' = [pc |-> "tick", kind |-> kind, to |-> to, last |-> last, at |-> from]
           /\ to \in Nat /\ last \in Nat /\ last + 1 >= to
    <2>1. CASE H!BeginPhase
      <3>1. PICK i \in {h_clock, h_clock + 1} :
              h_work' = [pc |-> "tick", kind |-> "phase", to |-> i, last |-> i, at |-> i]
        BY <2>1 DEF H!BeginPhase
      <3>2. i \in Nat /\ i + 1 >= i
        BY DEF ClockInv
      <3>3. QED
        BY <3>1, <3>2
    <2>2. CASE H!BeginPeriod
      <3>1. PICK p \in Periods :
              h_work' = [pc |-> "tick", kind |-> "period", to |-> p.end, last |-> p.end - 1, at |-> p.start]
        BY <2>2 DEF H!BeginPeriod
      <3>2. p.end \in Nat /\ p.end - 1 \in Nat /\ p.end - 1 + 1 >= p.end
        BY DEF H!ChronicleAssumption
      <3>3. QED
        BY <3>1, <3>2
    <2>3. QED
      BY <2>1, <2>2
  <1>3. WorkInv' /\ h_work.pc # "fire"
    BY <1>1, <1>2 DEF WorkInv, H!NoWork
  <1>4. ClockInv'
    BY <1>1, <1>2, <1>3 DEF ClockInv
  <1>5. LogInv' /\ LogGrows
    BY <1>1 DEF LogInv, LogGrows, Ended, H!EndedIsStill
  <1>6. \A start : \A at \in Nat : Quiet(start, at) => Quiet(start, at)'
    BY <1>1 DEF Quiet
  <1>7. QED
    BY <1>1, <1>3, <1>4, <1>5, <1>6, WorldMoves

LEMMA CommitClockKeeps ==
    ASSUME H!ChronicleAssumption, ChronicleInv, H!CommitClock
    PROVE  ChronicleInv'
  <1> USE DEF ChronicleInv
  <1>1. h_work.pc = "tick" /\ UNCHANGED <<h_status, h_died, h_pending, h_memories, h_calls,
                                          h_evidence, h_eras>>
    BY DEF H!CommitClock, H!world, H!rest, H!rows
  <1>2. h_work.to \in Nat /\ h_work.last \in Nat /\ h_work.last + 1 >= h_work.to
    BY <1>1 DEF WorkInv, H!NoWork
  <1>3. \/ /\ h_clock = h_work.to /\ UNCHANGED <<h_clock, h_row, h_store, h_log>>
           /\ h_work' = [h_work EXCEPT !.pc = "fire"]
        \/ /\ h_row = h_store /\ h_clock' = h_work.to /\ h_row' = h_row + 1 /\ h_store' = h_store + 1
           /\ h_log' = Append(h_log, H!Event("ticked", h_work.last))
           /\ h_work' = [h_work EXCEPT !.pc = "fire"]
        \/ UNCHANGED <<h_clock, h_row, h_store, h_log>> /\ h_work' = H!NoWork
    BY DEF H!CommitClock, H!world
  <1>4. /\ WorkInv'
        /\ h_work'.pc # "fire" => h_clock' = h_clock
    <2>1. CASE h_clock' = h_work.to /\ h_work' = [h_work EXCEPT !.pc = "fire"]
      <3>1. h_work' = [pc |-> "fire", kind |-> h_work.kind, to |-> h_work.to, last |-> h_work.last,
                       at |-> h_work.at]
        BY <1>1, <2>1 DEF WorkInv, H!NoWork
      <3>2. QED
        BY <1>2, <2>1, <3>1 DEF WorkInv
    <2>2. CASE UNCHANGED h_clock /\ h_work' = H!NoWork
      BY <2>2 DEF WorkInv
    <2>3. QED
      BY <1>3, <2>1, <2>2
  <1>5. ClockInv'
    BY <1>1, <1>2, <1>3, <1>4 DEF ClockInv
  <1>6. LogInv' /\ LogGrows
    <2>1. CASE UNCHANGED h_log
      BY <1>1, <2>1 DEF LogInv, LogGrows, Ended, H!EndedIsStill
    <2>2. CASE h_row = h_store /\ h_log' = Append(h_log, H!Event("ticked", h_work.last))
      <3>1. H!Event("ticked", h_work.last) \in H!EventRow
        BY <1>2 DEF H!Event, H!EventRow
      <3>2. h_status = "active"
        BY <2>2 DEF ClockInv
      <3>3. H!Event("ticked", h_work.last).type = "ticked"
        BY DEF H!Event
      <3>4. /\ LogGrows
            /\ \A n \in DOMAIN h_log' : n > Len(h_log) => h_log'[n].type = "ticked"
        BY <2>2, <3>1, <3>3, OneMore
      <3>5. QED
        BY <1>1, <3>2, <3>4, LogStays
    <2>3. QED
      BY <1>3, <2>1, <2>2
  <1>7. \A start : \A at \in Nat : Quiet(start, at) => Quiet(start, at)'
    BY <1>1 DEF Quiet
  <1>8. QED
    BY <1>1, <1>4, <1>5, <1>6, <1>7, WorldMoves

LEMMA OverrideKeeps ==
    ASSUME ChronicleInv, H!Override
    PROVE  ChronicleInv'
  <1> USE DEF ChronicleInv
  <1>1. /\ h_log' = Append(h_log, H!Event("override", h_clock))
        /\ UNCHANGED <<h_clock, h_status, h_row, h_store, h_died, h_pending, h_memories, h_work,
                       h_calls, h_evidence, h_eras>>
    BY DEF H!Override, H!world, H!rows
  <1>2. WorkInv' /\ ClockInv'
    BY <1>1 DEF WorkInv, ClockInv
  <1>3. H!Event("override", h_clock) \in H!EventRow /\ H!Event("override", h_clock).type = "override"
    BY DEF H!Event, H!EventRow, ClockInv
  <1>4. LogGrows /\ \A n \in DOMAIN h_log' : n > Len(h_log) => h_log'[n].type = "override"
    BY <1>1, <1>3, OneMore
  <1>5. LogInv'
    BY <1>1, <1>4, LogStays
  <1>6. \A start : \A at \in Nat : Quiet(start, at) => Quiet(start, at)'
    BY <1>1 DEF Quiet
  <1>7. QED
    BY <1>1, <1>2, <1>4, <1>5, <1>6, WorldMoves

LEMMA LenOfConcat ==
    ASSUME NEW T, NEW s \in Seq(T), NEW t \in Seq(T)
    PROVE  Len(s \o t) = Len(s) + Len(t)
  OBVIOUS

LEMMA AppendedIn == ASSUME NEW T, NEW s \in Seq(T), NEW e \in T PROVE Append(s, e) \in Seq(T)
  OBVIOUS

\* Any number of schedules are fired.
LEMMA MoreFired ==
    ASSUME LogInv, UNCHANGED h_status, NEW k \in Nat, NEW fired \in [1..k -> H!EventRow],
           \A n \in 1..k : fired[n].type = "fired", h_log' = h_log \o fired
    PROVE  LogGrows /\ LogInv'
  <1>1. fired \in Seq(H!EventRow) /\ Len(fired) = k /\ h_log \in Seq(H!EventRow)
    BY DEF LogInv
  <1>2. /\ h_log' \in Seq(H!EventRow) /\ Len(h_log') = Len(h_log) + k /\ Len(h_log) \in Nat
        /\ \A n \in 1..Len(h_log) : h_log'[n] = h_log[n]
        /\ \A n \in Len(h_log) + 1 .. Len(h_log) + k : h_log'[n] = fired[n - Len(h_log)]
    <2>1. h_log' \in Seq(H!EventRow)
      BY <1>1
    <2>2. Len(h_log') = Len(h_log) + k /\ Len(h_log) \in Nat
      <3>1. Len(h_log \o fired) = Len(h_log) + Len(fired)
        BY <1>1, LenOfConcat
      <3>2. Len(h_log) \in Nat
        BY <1>1
      <3>3. QED
        BY <1>1, <3>1, <3>2
    <2>3. \A n \in 1..Len(h_log) : h_log'[n] = h_log[n]
      BY <1>1
    <2>4. \A n \in Len(h_log) + 1 .. Len(h_log) + k : h_log'[n] = fired[n - Len(h_log)]
      BY <1>1
    <2>5. QED
      BY <1>1, <2>1, <2>2, <2>3, <2>4
  <1>3. LogGrows
    BY <1>2 DEF LogGrows
  <1>4. ASSUME NEW n \in DOMAIN h_log', n > Len(h_log) PROVE h_log'[n].type = "fired"
    <2>1. n \in Len(h_log) + 1 .. Len(h_log) + k /\ n - Len(h_log) \in 1..k
      BY <1>2, <1>4
    <2>2. QED
      BY <1>2, <2>1
  <1>5. LogInv'
    BY <1>3, <1>4, LogStays
  <1>6. QED
    BY <1>3, <1>5

LEMMA DueByIsFinite ==
    ASSUME H!ChronicleAssumption, ClockInv, NEW last
    PROVE  H!Cardinality(H!DueBy(last)) \in Nat
  <1>1. IsFiniteSet(Schedules)
    BY DEF H!ChronicleAssumption, H!IsFiniteSet, IsFiniteSet
  <1>2. H!DueBy(last) \subseteq Schedules
    BY DEF H!DueBy, ClockInv
  <1>3. H!Cardinality(H!DueBy(last)) = Cardinality(H!DueBy(last))
    BY DEF H!Cardinality, Cardinality
  <1>4. QED
    BY <1>1, <1>2, <1>3, FS_Subset, FS_CardinalityType

\* Who dies of a schedule dies at its date.
LEMMA DiesWhenDue ==
    ASSUME H!ChronicleAssumption, ClockInv, NEW c \in H!Dying
    PROVE  \E s \in h_pending : H!DateOfDeath(c) = FallsDue[s]
  <1> DEFINE T == {FallsDue[s] : s \in {t \in H!DueBy(h_work.last) : Victim[t] = c}}
  <1>1. T \in SUBSET Nat /\ T # {}
    BY DEF H!Dying, H!DueBy, ClockInv, H!ChronicleAssumption
  <1>2. O!Min(T) \in T /\ \A y \in T : O!Min(T) <= y
    BY <1>1, SmallestOf
  <1>3. \E d \in T : \A s \in H!DueBy(h_work.last) : Victim[s] = c => d <= FallsDue[s]
    BY <1>2
  <1>4. H!DateOfDeath(c) \in T
    BY <1>3 DEF H!DateOfDeath
  <1>5. QED
    BY <1>4 DEF H!DueBy

LEMMA FireKeeps ==
    ASSUME H!ChronicleAssumption, ChronicleInv, H!FirePhase \/ H!FirePeriod
    PROVE  ChronicleInv'
  <1> USE DEF ChronicleInv
  <1> DEFINE Firing == H!DueBy(h_work.last)
  <1>1. /\ h_work.pc = "fire" /\ h_work' = H!NoWork /\ h_pending' = h_pending \ Firing
        /\ UNCHANGED <<h_clock, h_status, h_row, h_store, h_calls, h_evidence, h_eras>>
    BY DEF H!FirePhase, H!FirePeriod, H!world, H!rows
  <1>2. /\ h_work.to \in Nat /\ h_work.last \in Nat /\ h_work.last + 1 >= h_work.to
        /\ h_clock = h_work.to
    BY <1>1 DEF WorkInv, H!NoWork
  <1>3. PICK order \in [1..H!Cardinality(Firing) -> Firing] :
           \/ h_log' = h_log \o [n \in DOMAIN order |-> H!FiredInPhase(order[n])]
           \/ h_log' = h_log \o [n \in DOMAIN order |-> H!FiredInPeriod(order[n])]
    BY DEF H!FirePhase, H!FirePeriod, H!Orders
  <1>4. PICK k \in Nat : k = H!Cardinality(Firing)
    BY DueByIsFinite
  <1>5. ASSUME NEW s \in Firing
        PROVE  /\ H!FiredInPhase(s) \in H!EventRow /\ H!FiredInPhase(s).type = "fired"
               /\ H!FiredInPeriod(s) \in H!EventRow /\ H!FiredInPeriod(s).type = "fired"
    <2>1. FallsDue[s] \in Nat /\ Major[s] \in BOOLEAN
      BY DEF H!DueBy, ClockInv, H!ChronicleAssumption
    <2>2. QED
      BY <1>2, <2>1 DEF H!FiredInPhase, H!FiredInPeriod, H!EventRow
  <1>6. LogGrows /\ LogInv'
    <2>1. DOMAIN order = 1..k /\ \A n \in 1..k : order[n] \in Firing
      BY <1>3, <1>4
    <2>2. CASE h_log' = h_log \o [n \in DOMAIN order |-> H!FiredInPhase(order[n])]
      <3>1. PICK fired : fired = [n \in 1..k |-> H!FiredInPhase(order[n])]
        OBVIOUS
      <3>2. fired \in [1..k -> H!EventRow] /\ \A n \in 1..k : fired[n].type = "fired"
        BY <1>5, <2>1, <3>1
      <3>3. QED
        BY <1>1, <2>1, <2>2, <3>1, <3>2, MoreFired
    <2>3. CASE h_log' = h_log \o [n \in DOMAIN order |-> H!FiredInPeriod(order[n])]
      <3>1. PICK fired : fired = [n \in 1..k |-> H!FiredInPeriod(order[n])]
        OBVIOUS
      <3>2. fired \in [1..k -> H!EventRow] /\ \A n \in 1..k : fired[n].type = "fired"
        BY <1>5, <2>1, <3>1
      <3>3. QED
        BY <1>1, <2>1, <2>3, <3>1, <3>2, MoreFired
    <2>4. QED
      BY <1>3, <2>2, <2>3
  <1>7. /\ DOMAIN h_died' = Mortals
        /\ \A c \in Mortals : h_died'[c] = h_died[c] \/ \E s \in h_pending : h_died'[c] = FallsDue[s]
    <2>1. CASE H!FirePhase
      BY <2>1 DEF H!FirePhase, ClockInv
    <2>2. CASE H!FirePeriod
      <3>1. h_died' = [c \in Mortals |-> IF c \in H!Dying THEN H!DateOfDeath(c) ELSE h_died[c]]
        BY <2>2 DEF H!FirePeriod
      <3>2. QED
        BY <3>1, DiesWhenDue
    <2>3. QED
      BY <2>1, <2>2
  <1>8. \A s \in h_pending : FallsDue[s] \in Nat
    BY DEF ClockInv, H!ChronicleAssumption
  <1>9. ClockInv'
    <2>1. ASSUME NEW s \in h_pending' PROVE FallsDue[s] >= h_clock
      <3>1. ~(FallsDue[s] <= h_work.last) /\ FallsDue[s] \in Nat
        BY <1>1, <1>8, <2>1 DEF H!DueBy
      <3>2. QED
        BY <1>2, <3>1
    <2>2. h_memories' \in Seq(Nat)
      <3>1. h_memories' = Append(h_memories, h_work.to) \/ h_memories' = h_memories
        BY DEF H!FirePhase, H!FirePeriod
      <3>2. h_memories \in Seq(Nat) /\ h_work.to \in Nat
        BY <1>2 DEF ClockInv
      <3>3. Append(h_memories, h_work.to) \in Seq(Nat)
        BY <3>2, AppendedIn
      <3>4. QED
        BY <3>1, <3>2, <3>3, Zenon
    <2>3. \A c \in Mortals : h_died'[c] \in Int
      BY <1>7, <1>8 DEF ClockInv
    <2>4. QED
      BY <1>1, <1>7, <2>1, <2>2, <2>3 DEF ClockInv
  <1>10. ASSUME NEW start, NEW at \in Nat, Quiet(start, at) PROVE Quiet(start, at)'
    <2>1. ASSUME NEW c \in Mortals, NEW s \in h_pending, h_died'[c] = FallsDue[s]
          PROVE  h_died'[c] \notin start .. at - 1
      <3>1. FallsDue[s] >= at /\ FallsDue[s] \in Nat
        BY <1>8, <1>10 DEF Quiet
      <3>2. QED
        BY <2>1, <3>1
    <2>2. QED
      BY <1>1, <1>7, <1>10, <2>1 DEF Quiet
  <1>11. WorkInv'
    BY <1>1 DEF WorkInv
  <1>12. QED
    BY <1>1, <1>6, <1>9, <1>10, <1>11, WorldMoves

\* A call goes on, and no row changes.
LEMMA CallMoves ==
    ASSUME ChronicleInv, NEW c \in Calls, NEW call, AnswerInv(call),
           h_calls' = [h_calls EXCEPT ![c] = call],
           UNCHANGED <<H!world, H!rest, h_log, h_work, h_evidence, h_eras>>
    PROVE  ChronicleInv'
  <1> USE DEF ChronicleInv
  <1>1. UNCHANGED <<h_clock, h_status, h_row, h_store, h_log, h_pending, h_died, h_memories, h_work,
                    h_evidence, h_eras>>
    BY DEF H!world, H!rest
  <1>2. WorkInv' /\ ClockInv' /\ LogInv'
    BY <1>1 DEF WorkInv, ClockInv, LogInv, Ended, H!EndedIsStill
  <1>3. \A start, at : Quiet(start, at)' <=> Quiet(start, at)
    BY <1>1 DEF Quiet
  <1>4. EvidenceInv'
    BY <1>1, <1>3 DEF EvidenceInv, H!Satisfied, H!Peaceful
  <1>5. \A era : EraInv(era)' <=> EraInv(era)
    BY <1>1 DEF EraInv, Told, H!Oldest, H!TellsFirst
  <1>6. \A span : H!Prior(span)' = H!Prior(span)
    BY <1>1 DEF H!Prior
  <1>7. ErasInv'
    BY <1>1, <1>5, <1>6 DEF ErasInv
  <1>8. ASSUME NEW a, AnswerInv(a) PROVE AnswerInv(a)'
    BY <1>3, <1>5, <1>6, <1>8 DEF AnswerInv
  <1>9. CallsInv'
    BY <1>8 DEF CallsInv
  <1>10. QED
    BY <1>2, <1>4, <1>7, <1>9

LEMMA AskKeeps ==
    ASSUME H!ChronicleAssumption, ChronicleInv, NEW c \in Calls,
           H!EvaluateEndings(c) \/ H!ComposeEra(c)
    PROVE  ChronicleInv'
  <1>1. PICK call : H!Ask(c, call) /\ AnswerInv(call)
    <2>1. CASE H!EvaluateEndings(c)
      <3>1. PICK at \in Moments :
              H!Ask(c, [pc |-> "deaths", at |-> at, start |-> IF at > Window THEN at - Window ELSE 0])
        BY <2>1 DEF H!EvaluateEndings
      <3>2. at \in Nat
        BY DEF H!ChronicleAssumption
      <3>3. QED
        BY <3>1, <3>2 DEF AnswerInv
    <2>2. CASE H!ComposeEra(c)
      BY <2>2 DEF H!ComposeEra, AnswerInv
    <2>3. QED
      BY <2>1, <2>2
  <1>2. QED
    BY <1>1, CallMoves DEF H!Ask

LEMMA AbandonsCall ==
    ASSUME ChronicleInv, NEW c \in Calls, H!Abandon(c)
    PROVE  ChronicleInv'
  <1>1. AnswerInv(H!Idle)
    BY DEF AnswerInv, H!Idle
  <1>2. QED
    BY <1>1, CallMoves DEF H!Abandon

\* The window a request names begins at a phase.
LEMMA StartOfWindow ==
    ASSUME H!ChronicleAssumption, CallsInv, NEW c \in Calls, h_calls[c].pc \in {"deaths", "events", "save"}
    PROVE  h_calls[c].at \in Nat /\ h_calls[c].start \in Nat
  BY DEF H!ChronicleAssumption, CallsInv, AnswerInv

LEMMA ReadDeathsKeeps ==
    ASSUME H!ChronicleAssumption, ChronicleInv, NEW c \in Calls, H!ReadDeaths(c)
    PROVE  ChronicleInv'
  <1> USE DEF ChronicleInv
  <1>1. PICK at, start : at = h_calls[c].at /\ start = h_calls[c].start
    OBVIOUS
  <1>2. PICK settled : settled = H!Settled(at)
    OBVIOUS
  <1>3. PICK deaths : deaths = H!Deaths(start, at)
    OBVIOUS
  <1>4. PICK call :
          /\ call = [pc |-> "events", at |-> at, start |-> start, clock |-> h_clock,
                     settled |-> settled, deaths |-> deaths]
          /\ h_calls' = [h_calls EXCEPT ![c] = call]
    BY <1>1, <1>2, <1>3 DEF H!ReadDeaths, CallsInv
  <1>5. /\ at \in Nat /\ start \in Nat
        /\ start = IF at > Window THEN at - Window ELSE 0
    BY <1>1, StartOfWindow DEF H!ReadDeaths, CallsInv, AnswerInv
  <1>6. settled \in BOOLEAN
    BY <1>2 DEF H!Settled
  <1>7. ASSUME settled = TRUE, deaths = {} PROVE Quiet(start, at)
    <2>1. at <= h_clock /\ h_work.pc # "fire"
      BY <1>2, <1>7 DEF H!Settled
    <2>2. ASSUME NEW s \in h_pending PROVE FallsDue[s] >= at
      <3>1. h_clock \in Nat /\ FallsDue[s] \in Nat /\ FallsDue[s] >= h_clock
        BY <2>1 DEF ClockInv, H!ChronicleAssumption
      <3>2. QED
        BY <1>5, <2>1, <3>1
    <2>3. ASSUME NEW m \in Mortals PROVE h_died[m] \notin start .. at - 1
      <3>1. ~(h_died[m] >= start /\ h_died[m] < at)
        BY <1>3, <1>7 DEF H!Deaths
      <3>2. h_died[m] \in Int
        BY DEF ClockInv
      <3>3. QED
        BY <1>5, <3>1, <3>2
    <2>4. QED
      BY <2>2, <2>3 DEF Quiet
  <1>8. h_clock \in Nat
    BY DEF ClockInv
  <1>9. AnswerInv(call)
    BY <1>4, <1>5, <1>6, <1>7, <1>8 DEF AnswerInv
  <1>10. QED
    BY <1>4, <1>9, CallMoves DEF H!ReadDeaths

LEMMA ReadEventsAndLivesKeeps ==
    ASSUME ChronicleInv, NEW c \in Calls, H!ReadEventsAndLives(c)
    PROVE  ChronicleInv'
  <1> USE DEF ChronicleInv
  <1>1. PICK call :
          /\ \E salient : call = [pc |-> "save", at |-> h_calls[c].at, start |-> h_calls[c].start,
                                  clock |-> h_calls[c].clock, settled |-> h_calls[c].settled,
                                  deaths |-> h_calls[c].deaths, living |-> h_alive,
                                  salient |-> salient]
          /\ h_calls' = [h_calls EXCEPT ![c] = call]
    BY DEF H!ReadEventsAndLives, CallsInv
  <1>2. /\ call.pc = "save" /\ call.at = h_calls[c].at /\ call.start = h_calls[c].start
        /\ call.clock = h_calls[c].clock /\ call.settled = h_calls[c].settled
        /\ call.deaths = h_calls[c].deaths
    BY <1>1
  <1>3. AnswerInv(h_calls[c]) /\ h_calls[c].pc = "events"
    BY DEF H!ReadEventsAndLives, CallsInv
  <1>4. AnswerInv(call)
    BY <1>2, <1>3 DEF AnswerInv
  <1>5. QED
    BY <1>1, <1>4, CallMoves DEF H!ReadEventsAndLives

\* What is told of a longer log begins with what was told of it.
LEMMA ToldFirst ==
    ASSUME NEW span, NEW l \in Nat, NEW k \in 0..l
    PROVE  H!TellsFirst(Told(span, l), Told(span, k))
  <1> DEFINE In(length) == {n \in 1..length : h_log[n].at >= span.start /\ h_log[n].at < span.end}
  <1>1. In(k) \subseteq In(l) /\ \A n \in In(l) : n <= k => n \in In(k)
    OBVIOUS
  <1>2. \A n \in In(l) \cup In(k) : n \in Nat
    OBVIOUS
  <1>3. \A n \in In(k) : n <= k
    OBVIOUS
  <1> HIDE DEF In
  <1>4. ASSUME NEW n \in In(k) PROVE {j \in In(k) : j < n} = {j \in In(l) : j < n}
    <2>1. n <= k /\ n \in Nat
      BY <1>2, <1>3
    <2>2. ASSUME NEW j \in In(l), j < n PROVE j \in In(k)
      <3>1. j <= k
        BY <1>2, <2>1, <2>2
      <3>2. QED
        BY <1>1, <3>1
    <2>3. QED
      BY <1>1, <2>2
  <1>5. /\ Told(span, k) = H!Oldest(In(k), MaxEraEvents)
        /\ Told(span, l) = H!Oldest(In(l), MaxEraEvents)
    BY DEF Told, In
  <1>6. \A n \in In(k) : n \in H!Oldest(In(k), MaxEraEvents) <=> n \in H!Oldest(In(l), MaxEraEvents)
    BY <1>1, <1>4 DEF H!Oldest
  <1>7. /\ H!Oldest(In(k), MaxEraEvents) \subseteq In(k)
        /\ H!Oldest(In(l), MaxEraEvents) \subseteq In(l)
    BY DEF H!Oldest
  <1>8. ASSUME NEW n \in Told(span, l) \ Told(span, k), NEW j \in Told(span, k) PROVE j < n
    <2>1. n \in In(l) /\ n \notin In(k) /\ j \in In(k)
      BY <1>5, <1>6, <1>7, <1>8
    <2>2. n \in Nat /\ j \in Nat /\ j <= k /\ ~(n <= k)
      BY <1>1, <1>2, <1>3, <2>1
    <2>3. QED
      BY <2>2
  <1>9. QED
    BY <1>5, <1>6, <1>7, <1>8 DEF H!TellsFirst

LEMMA PriorErasAreCounted ==
    ASSUME ErasInv, NEW span
    PROVE  /\ IsFiniteSet({n \in DOMAIN h_eras : h_eras[n].span = span})
           /\ H!Prior(span) = Cardinality({n \in DOMAIN h_eras : h_eras[n].span = span})
           /\ H!Prior(span) \in Nat
  <1>1. Len(h_eras) \in Nat /\ DOMAIN h_eras = 1..Len(h_eras)
    BY DEF ErasInv
  <1>2. IsFiniteSet(DOMAIN h_eras)
    BY <1>1, FS_Interval
  <1>3. {n \in DOMAIN h_eras : h_eras[n].span = span} \subseteq DOMAIN h_eras
    OBVIOUS
  <1>4. H!Prior(span) = Cardinality({n \in DOMAIN h_eras : h_eras[n].span = span})
    BY DEF H!Prior, H!Cardinality, Cardinality
  <1>5. QED
    BY <1>2, <1>3, <1>4, FS_Subset, FS_CardinalityType

LEMMA ReadWindowKeeps ==
    ASSUME ChronicleInv, NEW c \in Calls, H!ReadWindow(c)
    PROVE  ChronicleInv'
  <1> USE DEF ChronicleInv
  <1>1. PICK span \in Spans : span = h_calls[c].span
    BY DEF CallsInv, AnswerInv, H!ReadWindow
  <1>2. PICK call :
          /\ call = [pc |-> "insert", span |-> span, after |-> Len(h_eras),
                     events |-> H!Sources(span), memories |-> H!Owned(span),
                     version |-> H!Prior(span) + 1]
          /\ h_calls' = [h_calls EXCEPT ![c] = call]
    BY <1>1 DEF H!ReadWindow, CallsInv
  <1>3. /\ Len(h_eras) \in Nat /\ DOMAIN h_eras = 1..Len(h_eras)
        /\ Len(h_log) \in Nat /\ DOMAIN h_log = 1..Len(h_log)
    BY DEF ErasInv, LogInv
  <1>4. H!Prior(span) \in Nat
    BY PriorErasAreCounted
  <1>5. H!Sources(span) = Told(span, Len(h_log))
    BY <1>3 DEF H!Sources, H!Inside, Told
  <1>6. H!Owned(span) \in SUBSET Nat
    <2>1. h_memories \in Seq(Nat)
      BY DEF ClockInv
    <2>2. \A k \in DOMAIN h_memories : h_memories[k] \in Nat
      BY <2>1
    <2>3. QED
      BY <2>2 DEF H!Owned, H!Oldest
  <1>7. ASSUME NEW m \in 1..Len(h_eras), h_eras[m].span = span
        PROVE  h_eras[m].version < H!Prior(span) + 1 /\ H!TellsFirst(H!Sources(span), h_eras[m].events)
    <2>1. EraInv(h_eras[m]) /\ h_eras[m].version <= H!Prior(span) /\ h_eras[m].version \in Nat
      BY <1>3, <1>7 DEF ErasInv, EraInv
    <2>2. PICK k \in 0..Len(h_log) : h_eras[m].events = Told(span, k)
      BY <1>7, <2>1 DEF EraInv
    <2>3. H!TellsFirst(H!Sources(span), h_eras[m].events)
      BY <1>3, <1>5, <2>2, ToldFirst
    <2>4. h_eras[m].version < H!Prior(span) + 1
      BY <1>4, <2>1
    <2>5. QED
      BY <2>3, <2>4
  <1>8. EraInv(call)
    <2>1. /\ call.span = span /\ call.version = H!Prior(span) + 1 /\ call.after = Len(h_eras)
          /\ call.events = H!Sources(span)
      BY <1>2
    <2>2. call.version \in Nat /\ call.after \in 0..Len(h_eras)
      BY <1>3, <1>4, <2>1
    <2>3. \E k \in 0..Len(h_log) : call.events = Told(span, k)
      BY <1>3, <1>5, <2>1
    <2>4. QED
      BY <1>7, <2>1, <2>2, <2>3 DEF EraInv
  <1>9. AnswerInv(call)
    BY <1>2, <1>4, <1>6, <1>8 DEF AnswerInv
  <1>10. QED
    BY <1>2, <1>9, CallMoves DEF H!ReadWindow

LEMMA InsertEraKeeps ==
    ASSUME ChronicleInv, NEW c \in Calls, H!InsertEra(c)
    PROVE  ChronicleInv'
  <1> USE DEF ChronicleInv
  <1>1. PICK row :
          /\ row = [span |-> h_calls[c].span, events |-> h_calls[c].events,
                    memories |-> h_calls[c].memories, version |-> h_calls[c].version,
                    after |-> h_calls[c].after]
          /\ h_eras' = Append(h_eras, row)
    BY DEF H!InsertEra
  <1>2. /\ h_calls' = [h_calls EXCEPT ![c] = H!Idle]
        /\ UNCHANGED <<h_clock, h_status, h_row, h_store, h_log, h_pending, h_died, h_memories, h_work,
                       h_evidence>>
    BY DEF H!InsertEra, H!world, H!rest
  <1>3. /\ EraInv(h_calls[c]) /\ h_calls[c].version <= H!Prior(h_calls[c].span) + 1
        /\ h_calls[c].memories \in SUBSET Nat
    BY DEF CallsInv, AnswerInv, H!InsertEra
  <1>4. EraInv(row) /\ row.version <= H!Prior(row.span) + 1
    BY <1>1, <1>3 DEF EraInv
  <1>5. /\ Len(h_eras) \in Nat /\ DOMAIN h_eras = 1..Len(h_eras)
        /\ Len(h_log) \in Nat
    BY DEF ErasInv, LogInv
  <1>6. row \in EraRow
    <2>1. h_calls[c].span \in Spans /\ h_calls[c].version \in Nat /\ h_calls[c].after \in Nat
      BY <1>3, <1>5 DEF EraInv
    <2>2. h_calls[c].events \in SUBSET Nat
      BY <1>3, <1>5 DEF EraInv, Told, H!Oldest
    <2>3. QED
      BY <1>1, <1>3, <2>1, <2>2 DEF EraRow
  <1>7. /\ h_eras' \in Seq(EraRow) /\ Len(h_eras') = Len(h_eras) + 1
        /\ DOMAIN h_eras' = 1..Len(h_eras) + 1
        /\ \A n \in 1..Len(h_eras) : h_eras'[n] = h_eras[n]
        /\ h_eras'[Len(h_eras) + 1] = row
    BY <1>1, <1>5, <1>6 DEF ErasInv
  <1>8. ASSUME NEW era, EraInv(era) PROVE EraInv(era)'
    <2>1. era.after \in 0..Len(h_eras) /\ era.after \in 0..Len(h_eras')
      BY <1>5, <1>7, <1>8 DEF EraInv
    <2>2. \A m \in 1..era.after : h_eras'[m] = h_eras[m]
      BY <1>5, <1>7, <2>1
    <2>3. \A k : Told(era.span, k)' = Told(era.span, k)
      BY <1>2 DEF Told, H!Oldest
    <2>4. QED
      BY <1>2, <1>8, <2>1, <2>2, <2>3 DEF EraInv, H!TellsFirst
  <1>9. ASSUME NEW span
        PROVE  H!Prior(span)' \in Nat /\ H!Prior(span) \in Nat
               /\ H!Prior(span)' = IF row.span = span THEN H!Prior(span) + 1 ELSE H!Prior(span)
    <2> DEFINE P == {n \in DOMAIN h_eras : h_eras[n].span = span}
    <2>1. IsFiniteSet(P) /\ H!Prior(span) = Cardinality(P) /\ H!Prior(span) \in Nat
      BY PriorErasAreCounted
    <2>2. {n \in DOMAIN h_eras' : h_eras'[n].span = span}
          = IF row.span = span THEN P \cup {Len(h_eras) + 1} ELSE P
      BY <1>5, <1>7
    <2>3. Len(h_eras) + 1 \notin P
      BY <1>5
    <2>4. H!Prior(span)' = Cardinality({n \in DOMAIN h_eras' : h_eras'[n].span = span})
      BY DEF H!Prior, H!Cardinality, Cardinality
    <2> HIDE DEF P
    <2>5. Cardinality(P \cup {Len(h_eras) + 1}) = Cardinality(P) + 1
      BY <2>1, <2>3, FS_AddElement
    <2>6. CASE row.span = span
      <3>1. H!Prior(span)' = H!Prior(span) + 1
        BY <2>1, <2>2, <2>4, <2>5, <2>6
      <3>2. QED
        BY <2>1, <2>6, <3>1
    <2>7. CASE row.span # span
      <3>1. H!Prior(span)' = H!Prior(span)
        BY <2>1, <2>2, <2>4, <2>7
      <3>2. QED
        BY <2>1, <2>7, <3>1
    <2>8. QED
      BY <2>6, <2>7
  <1>10. ASSUME NEW n \in DOMAIN h_eras'
         PROVE  \E era : era = h_eras'[n] /\ EraInv(era)' /\ era.version <= H!Prior(era.span)'
    <2>1. CASE n \in DOMAIN h_eras
      <3>1. PICK era : era = h_eras[n] /\ EraInv(era) /\ era.version <= H!Prior(era.span) /\ era.version \in Nat
        BY <2>1 DEF ErasInv, EraInv
      <3>2. h_eras'[n] = era
        BY <1>5, <1>7, <2>1, <3>1
      <3>3. era.version <= H!Prior(era.span)'
        <4>1. PICK p, q \in Nat : p = H!Prior(era.span) /\ q = H!Prior(era.span)' /\ (q = p + 1 \/ q = p)
          BY <1>9
        <4>2. QED
          BY <3>1, <4>1
      <3>4. QED
        BY <1>8, <3>1, <3>2, <3>3
    <2>2. CASE n = Len(h_eras) + 1
      <3>1. h_eras'[n] = row /\ row.version \in Nat
        BY <1>4, <1>7, <2>2 DEF EraInv
      <3>2. row.version <= H!Prior(row.span)'
        BY <1>4, <1>9, <3>1
      <3>3. QED
        BY <1>4, <1>8, <3>1, <3>2
    <2>3. QED
      BY <1>5, <1>7, <2>1, <2>2
  <1>11. ErasInv'
    BY <1>7, <1>10 DEF ErasInv
  <1>12. \A start, at : Quiet(start, at)' <=> Quiet(start, at)
    BY <1>2 DEF Quiet
  <1>13. ASSUME NEW a, AnswerInv(a) PROVE AnswerInv(a)'
    <2>1. a.pc = "insert" => a.version <= H!Prior(a.span)' + 1
      <3>1. a.pc = "insert" => a.version \in Nat /\ a.version <= H!Prior(a.span) + 1
        BY <1>13 DEF AnswerInv, EraInv
      <3>2. QED
        BY <1>9, <3>1
    <2>2. QED
      BY <1>8, <1>12, <1>13, <2>1 DEF AnswerInv
  <1>14. CallsInv'
    <2>1. AnswerInv(H!Idle)'
      BY DEF AnswerInv, H!Idle
    <2>2. QED
      BY <1>2, <1>13, <2>1 DEF CallsInv
  <1>15. WorkInv' /\ ClockInv' /\ LogInv'
    BY <1>2 DEF WorkInv, ClockInv, LogInv, Ended, H!EndedIsStill
  <1>16. EvidenceInv'
    BY <1>2, <1>12 DEF EvidenceInv, H!Satisfied, H!Peaceful
  <1>17. QED
    BY <1>11, <1>14, <1>15, <1>16

\* A peace is found where the request spans the window, and in what is quiet.
LEMMA VerdictsHold ==
    ASSUME H!ChronicleAssumption, ChronicleInv, NEW c \in Calls, h_calls[c].pc = "save"
    PROVE  \E a, b \in EvidenceRow :
              /\ H!Verdicts(h_calls[c]) = <<a, b>>
              /\ \A e \in {a, b} : H!Peaceful(e) => e.at - e.start = Window /\ Quiet(e.start, e.at)
  <1> USE DEF ChronicleInv
  <1>1. PICK call : call = h_calls[c]
    OBVIOUS
  <1>2. /\ call.at \in Nat /\ call.start = IF call.at > Window THEN call.at - Window ELSE 0
        /\ call.settled \in BOOLEAN /\ call.clock \in Nat
        /\ call.settled = TRUE /\ call.deaths = {} => Quiet(call.start, call.at)
    BY <1>1 DEF CallsInv, AnswerInv
  <1>3. call.start \in Nat /\ Window \in Nat /\ LastDayStart \in Nat
    BY <1>1, StartOfWindow DEF H!ChronicleAssumption
  <1>4. ASSUME NEW kind \in {"eradicated", "peace", "day"}, NEW start \in Nat, NEW satisfied \in BOOLEAN
        PROVE  /\ H!Evidence(call, kind, start, satisfied) \in EvidenceRow
               /\ H!Evidence(call, kind, start, satisfied).kind = kind
               /\ H!Evidence(call, kind, start, satisfied).at = call.at
               /\ H!Evidence(call, kind, start, satisfied).start = start
               /\ H!Evidence(call, kind, start, satisfied).satisfied = satisfied
               /\ H!Evidence(call, kind, start, satisfied).settled = call.settled
    BY <1>2 DEF H!Evidence, EvidenceRow
  <1>5. PICK peace : peace = (H!FullWindow(call) /\ call.deaths = {} /\ call.salient = {})
    OBVIOUS
  <1>6. PICK late : late = (call.at >= LastDayStart)
    OBVIOUS
  <1>7. PICK day \in Nat : day = IF call.at < LastDayStart THEN call.at ELSE LastDayStart
    BY <1>2, <1>3
  <1>8. peace \in BOOLEAN /\ late \in BOOLEAN
    BY <1>5, <1>6
  <1>9. PICK a : a = IF call.living = {} THEN H!Evidence(call, "eradicated", call.at, TRUE)
                     ELSE H!Evidence(call, "peace", call.start, peace)
    OBVIOUS
  <1>10. PICK b : b = H!Evidence(call, "day", day, late)
    OBVIOUS
  <1>11. H!Verdicts(call) = <<a, b>>
    BY <1>5, <1>6, <1>7, <1>9, <1>10 DEF H!Verdicts
  <1>12. a \in EvidenceRow /\ b \in EvidenceRow /\ b.kind = "day"
    <2>1. H!Evidence(call, "eradicated", call.at, TRUE) \in EvidenceRow
      BY <1>2, <1>4
    <2>2. H!Evidence(call, "peace", call.start, peace) \in EvidenceRow
      BY <1>3, <1>4, <1>8
    <2>3. b \in EvidenceRow /\ b.kind = "day"
      BY <1>4, <1>7, <1>8, <1>10
    <2>4. QED
      BY <1>9, <2>1, <2>2, <2>3
  <1>13. ASSUME H!Peaceful(a) PROVE a.at - a.start = Window /\ Quiet(a.start, a.at)
    <2>1. a = H!Evidence(call, "peace", call.start, peace)
      BY <1>2, <1>4, <1>9, <1>13 DEF H!Peaceful
    <2>2. a.at = call.at /\ a.start = call.start
      BY <1>3, <1>4, <1>8, <2>1
    <2>3. peace = TRUE /\ call.settled = TRUE
      BY <1>2, <1>3, <1>4, <1>8, <1>13, <2>1 DEF H!Peaceful
    <2>4. call.at - call.start >= Window /\ call.deaths = {}
      BY <1>5, <2>3 DEF H!FullWindow
    <2>5. call.at - call.start = Window
      BY <1>2, <1>3, <2>4
    <2>6. QED
      BY <1>2, <2>2, <2>3, <2>4, <2>5
  <1>14. ~H!Peaceful(b)
    BY <1>12 DEF H!Peaceful
  <1>15. QED
    BY <1>1, <1>11, <1>12, <1>13, <1>14

LEMMA SaveEndingsKeeps ==
    ASSUME H!ChronicleAssumption, ChronicleInv, NEW c \in Calls, H!SaveEndings(c)
    PROVE  ChronicleInv'
  <1> USE DEF ChronicleInv
  <1>1. PICK a, b \in EvidenceRow :
          /\ H!Verdicts(h_calls[c]) = <<a, b>>
          /\ \A e \in {a, b} : H!Peaceful(e) => e.at - e.start = Window /\ Quiet(e.start, e.at)
    BY VerdictsHold DEF H!SaveEndings
  <1>2. /\ h_calls[c].pc = "save" /\ h_evidence' = h_evidence \o <<a, b>>
        /\ h_calls' = [h_calls EXCEPT ![c] = H!Idle]
        /\ UNCHANGED <<h_clock, h_pending, h_died, h_memories, h_work, h_eras>>
    BY <1>1 DEF H!SaveEndings, H!rest
  <1>3. /\ Len(h_evidence) \in Nat /\ DOMAIN h_evidence = 1..Len(h_evidence)
        /\ h_evidence' \in Seq(EvidenceRow) /\ DOMAIN h_evidence' = 1..Len(h_evidence) + 2
        /\ \A n \in 1..Len(h_evidence) : h_evidence'[n] = h_evidence[n]
        /\ h_evidence'[Len(h_evidence) + 1] = a /\ h_evidence'[Len(h_evidence) + 2] = b
    <2>1. h_evidence \in Seq(EvidenceRow) /\ <<a, b>> \in Seq(EvidenceRow)
      BY DEF EvidenceInv
    <2>2. Len(<<a, b>>) = 2 /\ <<a, b>>[1] = a /\ <<a, b>>[2] = b
      OBVIOUS
    <2>3. Len(h_evidence') = Len(h_evidence) + 2
      BY <1>2, <2>1, <2>2, LenOfConcat
    <2>4. h_evidence' \in Seq(EvidenceRow)
      BY <1>2, <2>1
    <2>5. Len(h_evidence) \in Nat /\ DOMAIN h_evidence = 1..Len(h_evidence)
          /\ DOMAIN h_evidence' = 1..Len(h_evidence) + 2
      BY <2>1, <2>3, <2>4
    <2>6. \A n \in 1..Len(h_evidence) : h_evidence'[n] = h_evidence[n]
      BY <1>2, <2>1
    <2>7. h_evidence'[Len(h_evidence) + 1] = a
      BY <1>2, <2>1, <2>2, <2>5
    <2>8. h_evidence'[Len(h_evidence) + 2] = b
      BY <1>2, <2>1, <2>2, <2>5
    <2>9. QED
      BY <2>4, <2>5, <2>6, <2>7, <2>8
  <1>4. \A n : n \in DOMAIN h_evidence' <=>
                  n \in DOMAIN h_evidence \/ n = Len(h_evidence) + 1 \/ n = Len(h_evidence) + 2
    BY <1>3
  <1>5. H!Satisfied(<<a, b>>) <=> a.satisfied \/ b.satisfied
    <2>1. DOMAIN <<a, b>> = {1, 2} /\ <<a, b>>[1] = a /\ <<a, b>>[2] = b
      OBVIOUS
    <2>2. QED
      BY <2>1 DEF H!Satisfied
  <1>6. H!Satisfied(h_evidence)' <=> H!Satisfied(h_evidence) \/ H!Satisfied(<<a, b>>)
    BY <1>3, <1>4, <1>5 DEF H!Satisfied
  <1>7. \/ /\ H!Satisfied(<<a, b>>) /\ h_status = "active"
           /\ h_status' = "ended" /\ h_row' = h_row + 1 /\ h_store' = h_store
           /\ h_log' = Append(h_log, H!Event("ended", h_calls[c].at))
        \/ /\ h_status # "active" \/ ~H!Satisfied(<<a, b>>)
           /\ UNCHANGED <<h_status, h_row, h_store, h_log>>
    BY <1>1 DEF H!SaveEndings, H!MarkEnded, H!StillActive
  <1>8. h_status \in {"active", "ended"} /\ (h_status = "ended" <=> H!Satisfied(h_evidence))
    BY DEF ClockInv, EvidenceInv
  <1>9. h_status' = "ended" <=> H!Satisfied(h_evidence)'
    BY <1>6, <1>7, <1>8
  <1>10. \A start, at : Quiet(start, at)' <=> Quiet(start, at)
    BY <1>2 DEF Quiet
  <1>11. EvidenceInv'
    <2>1. ASSUME NEW n \in DOMAIN h_evidence', H!Peaceful(h_evidence[n])'
          PROVE  /\ h_evidence'[n].at - h_evidence'[n].start = Window
                 /\ \E e : e = h_evidence'[n] /\ Quiet(e.start, e.at)
      <3>1. PICK e : e = h_evidence'[n] /\ H!Peaceful(e)
        BY <2>1 DEF H!Peaceful
      <3>2. e \in {a, b} \/ \E k \in DOMAIN h_evidence : e = h_evidence[k]
        BY <1>3, <1>4, <3>1
      <3>3. e.at - e.start = Window /\ Quiet(e.start, e.at)
        BY <1>1, <3>1, <3>2 DEF EvidenceInv
      <3>4. QED
        BY <3>1, <3>3
    <2>2. ASSUME NEW n \in DOMAIN h_evidence', H!Peaceful(h_evidence[n])'
          PROVE  Quiet(h_evidence[n].start, h_evidence[n].at)'
      BY <1>2, <2>1, <2>2 DEF Quiet
    <2>3. QED
      BY <1>3, <1>9, <2>1, <2>2 DEF EvidenceInv
  <1>12. ClockInv'
    BY <1>2, <1>7 DEF ClockInv
  <1>13. LogInv' /\ LogGrows
    <2>1. CASE UNCHANGED <<h_status, h_log>>
      BY <2>1 DEF LogInv, LogGrows, Ended, H!EndedIsStill
    <2>2. CASE /\ h_status = "active" /\ h_status' = "ended"
               /\ h_log' = Append(h_log, H!Event("ended", h_calls[c].at))
      <3>1. h_calls[c].at \in Nat
        BY <1>2, StartOfWindow
      <3>2. H!Event("ended", h_calls[c].at) \in H!EventRow /\ H!Event("ended", h_calls[c].at).type = "ended"
        BY <3>1 DEF H!Event, H!EventRow
      <3>3. /\ LogGrows /\ DOMAIN h_log = 1..Len(h_log) /\ DOMAIN h_log' = 1..Len(h_log) + 1
            /\ Len(h_log) \in Nat /\ h_log'[Len(h_log) + 1].type = "ended"
        BY <2>2, <3>2, OneMore
      <3>4. ASSUME NEW n \in DOMAIN h_log, n # Len(h_log) + 1
            PROVE  h_log'[n].type # "ended"
        BY <2>2, <3>3, <3>4 DEF LogInv, LogGrows, Ended
      <3>5. \A n \in DOMAIN h_log' : Ended(n)' <=> n = Len(h_log) + 1
        BY <3>3, <3>4 DEF Ended
      <3>6. Len(h_log) + 1 \in DOMAIN h_log'
        BY <3>3
      <3>7. \A m, n \in DOMAIN h_log' : Ended(m)' /\ h_log'[n].type = "ticked" => n < m
        BY <3>3, <3>5
      <3>8. ~(\A n \in DOMAIN h_log' : ~Ended(n)')
        BY <3>5, <3>6
      <3>9. \A m, n \in DOMAIN h_log' : Ended(m)' /\ Ended(n)' => m = n
        BY <3>5
      <3>10. H!EndedIsStill'
        BY <3>7 DEF H!EndedIsStill, Ended
      <3>11. QED
        BY <2>2, <3>3, <3>8, <3>9, <3>10 DEF LogInv, LogGrows
    <2>3. QED
      BY <1>7, <2>1, <2>2
  <1>14. \A era : EraInv(era) => EraInv(era)'
    BY <1>2, <1>13, EraStays
  <1>15. \A span : H!Prior(span)' = H!Prior(span)
    BY <1>2 DEF H!Prior
  <1>16. ErasInv'
    BY <1>2, <1>14, <1>15 DEF ErasInv
  <1>17. ASSUME NEW call, AnswerInv(call) PROVE AnswerInv(call)'
    BY <1>10, <1>14, <1>15, <1>17 DEF AnswerInv
  <1>18. CallsInv'
    <2>1. AnswerInv(H!Idle)'
      BY DEF AnswerInv, H!Idle
    <2>2. QED
      BY <1>2, <1>17, <2>1 DEF CallsInv
  <1>19. WorkInv'
    BY <1>2 DEF WorkInv
  <1>20. QED
    BY <1>11, <1>12, <1>13, <1>16, <1>18, <1>19

LEMMA ChronicleStep ==
    ASSUME H!ChronicleAssumption, ChronicleInv, [H!Next]_(H!vars)
    PROVE  ChronicleInv'
  <1>1. CASE UNCHANGED H!vars
    <2>1. UNCHANGED <<h_clock, h_status, h_row, h_store, h_log, h_pending, h_died, h_memories, h_work,
                      h_calls, h_evidence, h_eras>>
      BY <1>1 DEF H!vars
    <2>2. WorkInv' /\ ClockInv' /\ LogInv' /\ LogGrows
      BY <2>1 DEF ChronicleInv, WorkInv, ClockInv, LogInv, LogGrows, Ended, H!EndedIsStill
    <2>3. \A start : \A at \in Nat : Quiet(start, at) => Quiet(start, at)'
      BY <2>1 DEF Quiet
    <2>4. QED
      BY <2>1, <2>2, <2>3, WorldMoves DEF ChronicleInv
  <1>2. QED
    BY <1>1, BeginsWork, CommitClockKeeps, FireKeeps, OverrideKeeps, AskKeeps, ReadDeathsKeeps,
       ReadEventsAndLivesKeeps, SaveEndingsKeeps, ReadWindowKeeps, InsertEraKeeps, AbandonsCall
       DEF H!Next

LEMMA ChronicleIsHeld == ChronicleInv => H!ChronicleHolds
  <1> SUFFICES ASSUME ChronicleInv PROVE H!ChronicleHolds
    OBVIOUS
  <1> USE DEF ChronicleInv
  <1>1. H!PeaceHolds
    BY DEF EvidenceInv, Quiet, H!PeaceHolds
  <1>2. H!EndedOnce
    <2> DEFINE endings == {n \in DOMAIN h_log : h_log[n].type = "ended"}
    <2>1. H!Cardinality(endings) = Cardinality(endings)
      BY DEF H!Cardinality, Cardinality
    <2>2. CASE h_status = "ended"
      <3>1. PICK n \in DOMAIN h_log : h_log[n].type = "ended"
        BY <2>2 DEF LogInv, Ended
      <3>2. endings = {n}
        BY <3>1 DEF LogInv, Ended
      <3>3. Cardinality(endings) = 1
        BY <3>2, FS_Singleton
      <3>4. QED
        BY <2>1, <2>2, <3>3 DEF H!EndedOnce, EvidenceInv
    <2>3. CASE h_status = "active"
      <3>1. endings = {}
        BY <2>3 DEF LogInv, Ended
      <3>2. Cardinality(endings) = 0
        BY <3>1, FS_EmptySet
      <3>3. QED
        BY <2>1, <2>3, <3>2 DEF H!EndedOnce, EvidenceInv
    <2>4. QED
      BY <2>2, <2>3 DEF ClockInv
  <1>3. H!ErasAccumulate
    BY DEF ErasInv, EraInv, H!ErasAccumulate
  <1>4. QED
    BY <1>1, <1>2, <1>3 DEF LogInv, H!ChronicleHolds

\* A settled peace spans the window with no death in it, a world ends once and its
\* clock stands still then, and an era tells first what the one before it told
\* (endings.py, eras.py): for any schedules, periods, spans, requests and overrides,
\* whatever is fired between what an evaluation reads.
THEOREM ChronicleHoldsAlways == Spec => []ChronicleHolds
  <1>1. ChronicleInv /\ [Next]_vars => ChronicleInv'
    BY ChronicleStep, ComponentsStep, UpkeepAssumption DEF UpkeepAssumption
  <1>2. Init => ChronicleInv
    BY ChronicleInit, ComponentsBegin, UpkeepAssumption DEF UpkeepAssumption
  <1>3. QED
    BY <1>1, <1>2, ChronicleIsHeld, PTL DEF Spec, ChronicleHolds
=============================================================================
