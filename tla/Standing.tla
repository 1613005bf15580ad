------------------------------ MODULE Standing ------------------------------
(***************************************************************************)
(* What characters hold of each other and of the world, and what they      *)
(* carry: beliefs folded from claims (application/commands/knowledge.py),  *)
(* relationships folded from evidence (relationships.py) and items         *)
(* (inventory.py), by the Stage 2 routes and by the settlement of scenes.  *)
(*                                                                         *)
(* A call reads a row and folds into what it read.  The save method reads  *)
(* the row again and refuses when its version is not the one that was read *)
(* (save_item, save_relationship, save_belief); its UPDATE is by id alone, *)
(* and the transaction commits later: what another call committed in       *)
(* between is overwritten.  Reading, comparing and committing are one step *)
(* each, of all rows of a call.                                            *)
(***************************************************************************)
EXTENDS Integers, Sequences, SequencesExt, FiniteSets

CONSTANTS
    Characters,  \* the living
    PlaceOf,     \* character -> where it is
    Anywhere,    \* the audience of a claim to everybody
    Items,       \* item -> its first owner
    Absent,      \* no row
    Calls,       \* concurrent calls
    Wishes,      \* requests of the routes
    Intents,     \* settled verbs: intent -> request
    MaxCalls     \* bound: calls made

StandingAssumption ==
    /\ MaxCalls \in Nat
    /\ DOMAIN PlaceOf = Characters
    /\ DOMAIN Intents = 1..Len(Intents)
    /\ \A i \in DOMAIN Intents : Intents[i].kind \in {"claim", "handover"}

VARIABLES
    rows,     \* beliefs, relationships and items by key: value and version
    gates,    \* intents whose settle-gate command exists
    claims,   \* texts of the claims by number
    call,     \* what each call is doing
    made,     \* calls made
    done,     \* history: relationship or item -> the saves of it that committed
    settled,  \* history: intent -> settlements of it that committed
    torn      \* history: rows that were overwritten unseen

vars == <<rows, gates, claims, call, made, done, settled, torn>>

BeliefRow(holder, text) == <<"belief", holder, text>>
TieRow(source, target) == <<"tie", source, target>>
ItemRow(i) == <<"item", i>>

\* Confidence in thousandths; the code keeps a float.
FirstHearing == 500
SpeakerHold == 900
Reinforce(c) == IF c + 150 < 900 THEN c + 150 ELSE 900
Contradict(c) == IF c \div 2 > 100 THEN c \div 2 ELSE 100
Clamp(total) == IF total > 100 THEN 100 ELSE IF total < -100 THEN -100 ELSE total

\* fold, reinforce, contradict, move_item: an operation on the value of a row.
Apply(value, op) ==
    CASE op.does = "hold" -> SpeakerHold
      [] op.does = "hear" -> IF value = Absent THEN FirstHearing ELSE Reinforce(value)
      [] op.does = "refute" -> IF value = Absent THEN Absent ELSE Contradict(value)
      [] op.does = "fold" -> Clamp((IF value = Absent THEN 0 ELSE value) + op.delta)
      [] op.does = "move" -> op.to

Outcome(value, ops) == FoldLeft(Apply, value, ops)

\* fold_claim: who hears a claim holds its text, and then doubts what it refutes.
Listeners(audience) == {c \in Characters : audience = Anywhere \/ PlaceOf[c] = audience}
Heard(req) == {BeliefRow(l, req.text) : l \in Listeners(req.audience)}
Doubted(req) ==
    IF req.refutes = 0 THEN {} ELSE {BeliefRow(l, claims[req.refutes]) : l \in Listeners(req.audience)}
Hearing(req, r) ==
    IF r \in Heard(req) THEN <<[does |-> IF r[2] = req.who THEN "hold" ELSE "hear"]>> ELSE <<>>
Doubting(req, r) == IF r \in Doubted(req) THEN <<[does |-> "refute"]>> ELSE <<>>

\* What a request does to each row that it touches, in order.
Operations(req) ==
    CASE req.kind = "claim" ->
            [r \in Heard(req) \union Doubted(req) |-> Hearing(req, r) \o Doubting(req, r)]
      [] req.kind = "evidence" ->
            [r \in {TieRow(req.who, req.target)} |-> <<[does |-> "fold", delta |-> req.delta]>>]
      [] req.kind \in {"transfer", "handover"} ->
            [r \in {ItemRow(req.item)} |-> <<[does |-> "move", to |-> req.target]>>]

\* The rows: what was said, what is held of it with what confidence, how one
\* stands to another, whose an item is.
ClaimRow == {req.text : req \in {w \in Wishes \union ToSet(Intents) : w.kind = "claim"}}
Holding(r) ==
    /\ CASE r[1] = "belief" -> rows[r].value \in 100..900 /\ r[3] \in ClaimRow
         [] r[1] = "tie" -> rows[r].value \in -100..100
         [] r[1] = "item" -> rows[r].value \in Characters
    /\ rows[r].version \in Nat \ {0}

TypeOK ==
    /\ ToSet(claims) \subseteq ClaimRow
    /\ \A r \in DOMAIN rows : Holding(r)
    /\ gates \subseteq DOMAIN Intents
    /\ \A c \in Calls : call[c].pc \in {"idle", "save", "write"}
    /\ made \in 0..MaxCalls /\ torn \subseteq DOMAIN rows

NoRow == [value |-> Absent, version |-> 0]
Row(r) == IF r \in DOMAIN rows THEN rows[r] ELSE NoRow
Idle == [pc |-> "idle"]

\* give_item has run for each item.
FirstRows == [r \in {ItemRow(i) : i \in DOMAIN Items} |-> [value |-> Items[r[2]], version |-> 1]]

Init ==
    /\ rows = FirstRows
    /\ gates = {} /\ claims = <<>>
    /\ call = [c \in Calls |-> Idle] /\ made = 0
    /\ done = [r \in {} |-> <<>>] /\ settled = [i \in DOMAIN Intents |-> 0] /\ torn = {}

-----------------------------------------------------------------------------
(* A handover of a scene checks ownership and shared ground; a transfer of *)
(* the route neither, and it does nothing when the target has the item.    *)
\* Without the ownership check (a mutant).
Acceptable_Unowned(req) ==
    /\ req.kind = "claim" => req.refutes <= Len(claims)
    /\ req.kind = "handover" => PlaceOf[req.who] = PlaceOf[req.target]
    /\ req.kind = "transfer" => Row(ItemRow(req.item)).value # req.target
Acceptable(req) ==
    /\ req.kind = "claim" => req.refutes <= Len(claims)
    /\ req.kind = "handover" => /\ Row(ItemRow(req.item)).value = req.who
                                /\ PlaceOf[req.who] = PlaceOf[req.target]
    /\ req.kind = "transfer" => Row(ItemRow(req.item)).value # req.target

Seen(req) == [r \in DOMAIN Operations(req) |-> Row(r)]

Read(c, req, intent) ==
    /\ call[c] = Idle /\ made < MaxCalls
    /\ made' = made + 1
    /\ call' = [call EXCEPT ![c] =
                 IF Acceptable(req)
                 THEN [pc |-> "save", req |-> req, intent |-> intent, ops |-> Operations(req), seen |-> Seen(req)]
                 ELSE Idle]
    /\ UNCHANGED <<rows, gates, claims, done, settled, torn>>

NoIntent == 0
Ask(c, kind) == \E req \in {w \in Wishes : w.kind = kind} : Read(c, req, NoIntent)
VoiceClaim(c) == Ask(c, "claim")
RecordEvidence(c) == Ask(c, "evidence")
TransferItem(c) == Ask(c, "transfer")

\* The insert of the gate is the settlement's first statement: it fails on a gate
\* that is there, and waits for a settlement that has inserted its own.
\* Without a look at the gate (a mutant).
Gated_Never(i) == FALSE
Gated(i) == i \in gates \/ \E c \in Calls : call[c] # Idle /\ call[c].intent = i
Settle(c) == \E i \in DOMAIN Intents : ~Gated(i) /\ Read(c, Intents[i], i)

-----------------------------------------------------------------------------
(* The save methods read the rows again.                                   *)
\* A belief that nobody holds is not refuted.
Written(k) == {r \in DOMAIN k.seen : Outcome(k.seen[r].value, k.ops[r]) # Absent}

\* _hold_belief reads the version anew, long after the confidence was folded.
Guarded(k, r) == k.ops[r][1].does \in {"refute", "fold", "move"}

\* With whatever version (a mutant).
Stale_Never(k) == FALSE
Stale(k) == \E r \in Written(k) : Guarded(k, r) /\ Row(r).version # k.seen[r].version

\* The versions that the saves will count from.
Reread(k) == [r \in DOMAIN k.seen |-> [value |-> k.seen[r].value, version |-> Row(r).version]]
Compared(k) == [k EXCEPT !.pc = "write", !.seen = Reread(k)]

Save(c) ==
    /\ call[c].pc = "save"
    /\ call' = [call EXCEPT ![c] =
                 IF Stale(call[c]) THEN Idle ELSE Compared(call[c])]
    /\ UNCHANGED <<rows, gates, claims, made, done, settled, torn>>

-----------------------------------------------------------------------------
(* The transaction commits, unless a key it inserts is there by now.       *)
\* The unique keys of beliefs and of relationships.
Collides(k) == \E r \in Written(k) : k.seen[r].version = 0 /\ r \in DOMAIN rows

\* A first relationship is added and then saved.
Saved(k, r) ==
    [value |-> Outcome(k.seen[r].value, k.ops[r]),
     version |-> k.seen[r].version + Len(k.ops[r])
                 + IF r[1] = "tie" /\ k.seen[r].version = 0 THEN 1 ELSE 0]

AddClaim(req) == claims' = IF req.kind = "claim" THEN Append(claims, req.text) ELSE claims

Kept(r) == r[1] \in {"tie", "item"}
Entry(k, r) == [req |-> k.req, from |-> k.seen[r].value, left |-> Saved(k, r).value]
Log(r) == IF r \in DOMAIN done THEN done[r] ELSE <<>>

Write(c) ==
    LET k == call[c] IN
    /\ k.pc = "write" /\ ~Collides(k)
    /\ rows' = [r \in DOMAIN rows \union Written(k) |-> IF r \in Written(k) THEN Saved(k, r) ELSE rows[r]]
    /\ gates' = gates \union ({k.intent} \ {NoIntent})
    /\ AddClaim(k.req)
    /\ settled' = [i \in DOMAIN Intents |-> IF i = k.intent THEN settled[i] + 1 ELSE settled[i]]
    /\ done' = [r \in DOMAIN done \union {w \in Written(k) : Kept(w)} |->
                  IF r \in Written(k) THEN Append(Log(r), Entry(k, r)) ELSE done[r]]
    /\ torn' = torn \union {r \in Written(k) : k.seen[r].version # Row(r).version}
    /\ call' = [call EXCEPT ![c] = Idle]
    /\ UNCHANGED made

\* A key that is taken, a deadlock, a lost connection: nothing of the transaction stays.
Abandon(c) ==
    /\ call[c] # Idle
    /\ call' = [call EXCEPT ![c] = Idle]
    /\ UNCHANGED <<rows, gates, claims, made, done, settled, torn>>

Next == \E c \in Calls :
          \/ VoiceClaim(c) \/ RecordEvidence(c) \/ TransferItem(c) \/ Settle(c)
          \/ Save(c) \/ Write(c) \/ Abandon(c)
Spec == Init /\ [][Next]_vars

-----------------------------------------------------------------------------
\* A verb that a scene settles is settled once, whoever repeats the phase and
\* however the repetitions overlap ("a crash between scenes can never
\* double-apply a bout, claim, or handoff", stage1.py:1553).
VerbsSettleOnce == \A i \in DOMAIN Intents : settled[i] <= 1

\* The versions do their work up to the comparison: unless a row was overwritten
\* between another call's comparison and its commit, every save of a relationship
\* or an item that committed was reckoned from what the one before it left, a
\* handover took the item from whom it was left with ("handover needs ownership",
\* stage1.py:1679), and the row is what the last one left.
First(r) == IF r \in DOMAIN FirstRows THEN FirstRows[r].value ELSE Absent
Before(r, n) == IF n = 1 THEN First(r) ELSE done[r][n - 1].left
SavesFollow ==
    \A r \in DOMAIN done \ torn :
        /\ rows[r].value = done[r][Len(done[r])].left
        /\ \A n \in DOMAIN done[r] :
              /\ done[r][n].from = Before(r, n)
              /\ done[r][n].req.kind = "handover" => Before(r, n) = done[r][n].req.who

\* "Evidence is the canon; the projection is a fold" (domain/relationships.py:3).
ProjectionIsFold ==
    \A r \in DOMAIN done : r[1] = "tie" =>
        rows[r].value = FoldLeft(LAMBDA v, e : Apply(v, Operations(e.req)[r][1]), Absent, done[r])
=============================================================================
