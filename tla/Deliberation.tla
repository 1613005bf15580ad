---------------------------- MODULE Deliberation ----------------------------
(***************************************************************************)
(* The model calls of one phase (the decision methods of                   *)
(* orchestration/stage1.py over application/graphs, tracing/service.py and *)
(* model_gateway/): director, then every character at once, then for the   *)
(* scene its reactions, resolution and narration, then the accounts of the *)
(* day.  A decision asks through three layers: the graph with its repairs, *)
(* the audit that opens and closes a row around each call, and the bounded *)
(* retry.  What an answer is worth is Judgement.                           *)
(*                                                                         *)
(* The phase has one scene with every character in it.  A call may raise,  *)
(* the process may die, and the phase may be asked for again; decisions of *)
(* a gather whose sibling raised go on by themselves beside the new call.  *)
(* Task rows of decisions are audit only and never read: left out.         *)
(***************************************************************************)
EXTENDS Judgement

CONSTANTS
    Stages,        \* sets of decisions <<role, who, ...>>, in order
    Replies,       \* texts a provider may give to each role
    Attempts,      \* MAX_ATTEMPTS of the retrying gateway
    MaxCalls,      \* model.max_calls_per_phase
    Index,         \* of the phase
    Sources,       \* of the day's accounts
    PlayerActions, \* what a player may have asked a character to do
    MaxRuns        \* bound: calls of advance for the phase, the last undisturbed

Decisions == UNION Range(Stages)
Runs == 1..MaxRuns
Final == Len(Stages)

Role(d) == d[1]
Who(d) == d[2]

Roles == {"director", "character", "reaction", "resolver", "narrator", "summary"}
Targeting == {"move", "communicate", "spar", "appeal", "transfer"}
Families == Targeting \cup {"wait", "rest", "observe"}

ASSUME DeliberationAssumption ==
    /\ {Attempts, MaxCalls, Index, MaxRuns} \subseteq Nat \ {0}
    /\ Stages \in Seq(SUBSET Decisions) /\ IsFiniteSet(Decisions)
    /\ \A i, j \in 1..Final : i # j => Stages[i] \cap Stages[j] = {}

\* A stage asks one role; a scene is resolved when there are intents; only some
\* families of action have a field for a target (ActionBase forbids others).
ASSUME RolesAssumption ==
    /\ \A d \in Decisions : Role(d) \in Roles
    /\ \A i \in 1..Final : \A d, e \in Stages[i] : Role(d) = Role(e)
    /\ \A i \in 1..Final : (\E d \in Stages[i] : Role(d) = "resolver") =>
          \E j \in 1..(i - 1) : \E e \in Stages[j] : Role(e) = "character"
    /\ \A a \in Replies["character"] \cup PlayerActions :
          a.family \in Families /\ (a.family \notin Targeting => a.to = Nobody)

\* Roles whose graph is invoked without a handler: an exception ends the phase.
Fatal == {"character", "reaction", "resolver"}
\* Roles whose graph repairs what the check denies, not only what fails to parse.
RepairsDenials == {"resolver", "narrator"}

VARIABLES
    run,      \* the call of advance at work, the last of those so far
    stage,    \* its stage; 0 when it broke off, Final + 1 when it returned
    th,       \* decision threads of every call
    product,  \* what the decisions of this call came to
    over,     \* whether this call found its budget spent
    rows,     \* model_call rows: started ones with a thread, and how many others
    kept      \* durable: director.last_absolute, hooks, narrated, completed

vars == <<run, stage, th, product, over, rows, kept>>

Idle == [pc |-> "idle", n |-> 0, tries |-> 0, reply |-> NoReply]
Done == [Idle EXCEPT !.pc = "done"]
\* What a decision came to: nothing as yet, or a value.
None == [made |-> FALSE]
Made(value) == [made |-> TRUE, value |-> value]

Intents == {product[d].value : d \in {x \in Decisions : Role(x) = "character" /\ product[x].made}}
Envelopes == {Envelope(a) : a \in Intents}
Facts == {a.family : a \in Intents}

\* list_for_phase_run: the rows of all calls of this phase count.
Calls == Cardinality(rows.open) + rows.past
OverBudget == Calls >= MaxCalls

Thread ==
    [pc : {"idle", "open", "asked", "pause", "close", "judge", "done"}, n : Nat, tries : 0..Attempts,
     reply : {NoReply, Broken} \cup UNION {Replies[Role(d)] : d \in Decisions}]

TypeOK ==
    /\ run \in Runs /\ stage \in 0..(Final + 1) /\ over \in BOOLEAN
    /\ \A r \in Runs, d \in Decisions : th[r][d] \in Thread
    /\ DOMAIN product = Decisions
    /\ rows.open \subseteq Runs \X Decisions \X Nat /\ rows.past \in 0..MaxCalls
    /\ kept.last \in {0, Index} /\ kept.hooks \in Nat /\ {kept.narrated, kept.completed} \subseteq BOOLEAN

Init ==
    /\ run = 1 /\ stage = 1
    /\ th = [r \in Runs |-> [d \in Decisions |-> Idle]]
    /\ product = [d \in Decisions |-> None]
    /\ over = FALSE
    /\ rows = [open |-> {}, past |-> 0]
    /\ kept = [last |-> 0, hooks |-> 0, narrated |-> FALSE, completed |-> FALSE]

-----------------------------------------------------------------------------
(* What the graph makes of a reply. *)

Denied(d, reply) ==
    \/ Role(d) = "resolver" /\ ~EffectsValid(reply, Packet(Envelopes))
    \/ Role(d) = "narrator" /\ ~BeatsValid(reply.beats, Facts, Characters)

RepairsAllowed(d) ==
    IF Role(d) = "reaction" THEN ReactionRepairs(BeatBudget) ELSE RepairBudget

Repairable(d, reply, n) ==
    /\ reply # NoReply /\ n < RepairsAllowed(d)
    /\ ~reply.ok \/ (Role(d) \in RepairsDenials /\ Denied(d, reply))

Answer(d, reply) ==
    CASE Role(d) = "director" -> DirectorAnswer(kept.hooks, reply)
      [] Role(d) = "character" -> CharacterAnswer(Who(d), reply)
      [] Role(d) = "reaction" -> ReactionAnswer(reply)
      [] Role(d) = "resolver" -> ResolverAnswer(Envelopes, reply)
      [] Role(d) = "narrator" -> NarratorAnswer(Facts, Characters, reply)
      [] Role(d) = "summary" -> SummaryAnswer(Sources, reply)

\* What a finished decision leaves behind: accept_decision, save_narration.
Keep(d, answer) ==
    CASE Role(d) = "director" ->
            [kept EXCEPT !.last = Index, !.hooks = @ + Cardinality(answer)]
      [] Role(d) = "narrator" -> [kept EXCEPT !.narrated = TRUE]
      [] OTHER -> kept

\* A decision of a call that was abandoned or broke off returns to nobody.
Awaited(r) == r = run /\ stage # 0

Conclude(r, d, answer) ==
    /\ th' = [th EXCEPT ![r][d] = IF Awaited(r) THEN Done ELSE Idle]
    /\ product' = IF Awaited(r) THEN [product EXCEPT ![d] = Made(answer)] ELSE product
    /\ kept' = Keep(d, answer)

\* The graph raises: the phase ends, unless the method goes on without an answer.
Raise(r, d) ==
    IF Role(d) \notin Fatal THEN
        /\ th' = [th EXCEPT ![r][d] = Done]
        /\ UNCHANGED <<stage, product>>
    ELSE
        /\ th' = [th EXCEPT ![r][d] = Idle]
        /\ stage' = IF r = run THEN 0 ELSE stage
        /\ product' = IF r = run THEN [x \in Decisions |-> None] ELSE product

-----------------------------------------------------------------------------
(* The steps of one decision. *)

Set(r, d, f) == th' = [th EXCEPT ![r][d] = f]

\* Decisions that are taken without asking a model: within the cooldown, by who
\* may not react, for a determined scene, for a scene that has its narration, in
\* a quiet phase or over the budget, and for a day without sources.
DirectorRests(d) == Role(d) = "director" /\ ~ShouldTrigger(Index, kept.last)
ReactorRests(d) == Role(d) = "reaction" /\ ~Eligible(d[3], Who(d), BeatBudget, Characters)
ResolverRests(d) == Role(d) = "resolver" /\ Automatic(Envelopes)
NarratorRests(d) == Role(d) = "narrator" /\ (over \/ kept.narrated \/ Facts = {"wait"})
SummaryRests(d) == Role(d) = "summary" /\ Sources = {}

Unasked(d) ==
    DirectorRests(d) \/ ReactorRests(d) \/ ResolverRests(d) \/ NarratorRests(d) \/ SummaryRests(d)

EnterSilently(d) ==
    /\ Unasked(d)
    /\ product' = [product EXCEPT ![d] =
          IF Role(d) \in {"director", "reaction", "summary"} \/ (Role(d) = "narrator" /\ kept.narrated)
          THEN None ELSE Made(Answer(d, NoReply))]
    /\ kept' = IF Role(d) = "narrator" THEN [kept EXCEPT !.narrated = TRUE] ELSE kept
    /\ Set(run, d, Done)
    /\ UNCHANGED stage

\* A player's action takes the place of the model; a denied one fails the phase.
EnterPlayer(d) ==
    /\ Role(d) = "character"
    /\ \E a \in PlayerActions :
          /\ a.who = Who(d)
          /\ \/ Precheck(a) /\ Conclude(run, d, a) /\ UNCHANGED stage
             \/ ~Precheck(a) /\ Raise(run, d) /\ UNCHANGED kept

EnterGraph(d) ==
    /\ ~Unasked(d)
    /\ Set(run, d, [Idle EXCEPT !.pc = "open"])
    /\ UNCHANGED <<stage, product, kept>>

Enter(d) ==
    /\ stage \in 1..Final /\ d \in Stages[stage] /\ th[run][d].pc = "idle"
    /\ EnterSilently(d) \/ EnterPlayer(d) \/ EnterGraph(d)
    /\ UNCHANGED <<run, over, rows>>

\* start_call: the row is committed before anything is asked.
StartCall(r, d) == rows' = [rows EXCEPT !.open = @ \cup {<<r, d, th[r][d].n>>}]

OpenRow(r, d) ==
    /\ th[r][d].pc = "open" /\ StartCall(r, d)
    /\ Set(r, d, [th[r][d] EXCEPT !.pc = "asked", !.tries = 1])
    /\ UNCHANGED <<run, stage, product, over, kept>>

ReplyText(r, d) ==
    /\ th[r][d].pc = "asked"
    /\ \E text \in Replies[Role(d)] \cup {Broken} :
          Set(r, d, [th[r][d] EXCEPT !.pc = "close", !.reply = text])
    /\ UNCHANGED <<run, stage, product, over, rows, kept>>

\* A refusal or a malformed response: never retried.
ReplyFinal(r, d) ==
    /\ th[r][d].pc = "asked"
    /\ Set(r, d, [th[r][d] EXCEPT !.pc = "close", !.reply = NoReply])
    /\ UNCHANGED <<run, stage, product, over, rows, kept>>

\* Rate limits, timeouts and transport failures: wait and try again, thrice.
ReplyBusy(r, d) ==
    /\ th[r][d].pc = "asked"
    /\ IF th[r][d].tries < Attempts
       THEN Set(r, d, [th[r][d] EXCEPT !.pc = "pause"])
       ELSE Set(r, d, [th[r][d] EXCEPT !.pc = "close", !.reply = NoReply])
    /\ UNCHANGED <<run, stage, product, over, rows, kept>>

\* Rows that nobody will touch again are only counted, up to MaxCalls.
Left(gone) ==
    [open |-> rows.open \ gone,
     past |-> LET n == rows.past + Cardinality(gone) IN IF n < MaxCalls THEN n ELSE MaxCalls]

\* A response whose usage is no number raises what no handler of the audit catches.
ReplyGarbled(r, d) ==
    /\ th[r][d].pc = "asked" /\ run < MaxRuns
    /\ Raise(r, d)
    /\ rows' = Left({<<r, d, th[r][d].n>>})
    /\ UNCHANGED <<run, over, kept>>

AskAgain(r, d) ==
    /\ th[r][d].pc = "pause"
    /\ Set(r, d, [th[r][d] EXCEPT !.pc = "asked", !.tries = @ + 1])
    /\ UNCHANGED <<run, stage, product, over, rows, kept>>

\* finish_call with the cost row, or fail_call.
CloseRow_OnSuccess(r, d) ==
    /\ th[r][d].pc = "close"
    /\ rows' = IF th[r][d].reply = NoReply THEN rows ELSE Left({<<r, d, th[r][d].n>>})
    /\ Set(r, d, [th[r][d] EXCEPT !.pc = "judge", !.tries = 0])
    /\ UNCHANGED <<run, stage, product, over, kept>>

CloseRow(r, d) ==
    /\ th[r][d].pc = "close"
    /\ rows' = Left({<<r, d, th[r][d].n>>})
    /\ Set(r, d, [th[r][d] EXCEPT !.pc = "judge", !.tries = 0])
    /\ UNCHANGED <<run, stage, product, over, kept>>

Judge(r, d) ==
    /\ th[r][d].pc = "judge"
    /\ IF Repairable(d, th[r][d].reply, th[r][d].n)
       THEN /\ Set(r, d, [Idle EXCEPT !.pc = "open", !.n = th[r][d].n + 1])
            /\ UNCHANGED <<product, kept>>
       ELSE Conclude(r, d, Answer(d, th[r][d].reply))
    /\ UNCHANGED <<run, stage, over, rows>>

Step(r, d) ==
    \/ OpenRow(r, d) \/ AskAgain(r, d) \/ CloseRow(r, d) \/ Judge(r, d)
    \/ ReplyText(r, d) \/ ReplyFinal(r, d) \/ ReplyBusy(r, d) \/ ReplyGarbled(r, d)

-----------------------------------------------------------------------------
(* The phase around them. *)

RoleOf(s) == {Role(d) : d \in Stages[s]}

Proceed_First ==
    /\ stage \in 1..Final
    /\ \E d \in Stages[stage] : th[run][d].pc = "done"
    /\ stage' = stage + 1
    /\ UNCHANGED <<run, th, product, over, rows, kept>>

\* Intents stay with the phase, the rest is consumed; the budget is
\* read when the scene is begun; COMPLETED precedes the accounts.
Proceed ==
    /\ stage \in 1..Final
    /\ \A d \in Stages[stage] : th[run][d].pc = "done"
    /\ stage' = stage + 1
    /\ over' = IF RoleOf(stage) = {"character"} THEN OverBudget ELSE over
    /\ kept' = [kept EXCEPT !.completed = @ \/ RoleOf(stage) = {"narrator"}]
    /\ product' = [d \in Decisions |-> IF Role(d) = "character" THEN product[d] ELSE None]
    /\ UNCHANGED <<run, th, rows>>

\* The process dies: no thread survives, and open rows stay open.
Crash ==
    /\ stage \in 1..Final /\ run < MaxRuns
    /\ stage' = 0
    /\ th' = [r \in Runs |-> [d \in Decisions |-> Idle]]
    /\ product' = [d \in Decisions |-> None]
    /\ rows' = Left(rows.open)
    /\ UNCHANGED <<run, over, kept>>

Retry ==
    /\ stage = 0 /\ run < MaxRuns
    /\ run' = run + 1
    /\ stage' = IF kept.completed THEN Final + 1 ELSE 1
    /\ over' = FALSE
    /\ UNCHANGED <<th, product, rows, kept>>

Next ==
    \/ Proceed \/ Crash \/ Retry
    \/ \E d \in Decisions : Enter(d)
    \/ \E r \in Runs, d \in Decisions : Step(r, d)

Spec == Init /\ [][Next]_vars

\* asyncio runs every thread that can go on, and the client's timeout answers
\* for a provider that does not; nobody is bound to ask for a phase again.
Fairness ==
    /\ WF_vars(Proceed)
    /\ \A d \in Decisions : WF_vars(Enter(d))
    /\ \A r \in Runs, d \in Decisions : WF_vars(Step(r, d))

FairSpec == Spec /\ Fairness

-----------------------------------------------------------------------------

\* Whatever a provider says, what the phase builds on is what the rules allow:
\* intents name characters and places that exist, a resolution stays within the
\* envelopes of its scene, beats cite its facts, accounts their sources, and the
\* director opens no more hooks than it may.
AnswersLawful ==
    /\ \A d \in Decisions : product[d].made =>
          /\ Role(d) = "character" => product[d].value.to \in Characters \cup Places \cup {Nobody}
          /\ Role(d) = "resolver" =>
                /\ product[d].value.outcome \in {"success"} \cup UNION {e.outcomes : e \in Envelopes}
                /\ {e.whom : e \in product[d].value.effects} \subseteq UNION {e.touched : e \in Envelopes}
                /\ Automatic(Envelopes) => product[d].value = Merged(Envelopes)
          /\ Role(d) = "narrator" =>
                /\ UNION {b.cited : b \in Range(product[d].value)} \subseteq Facts
                /\ Len(product[d].value) <= (IF BeatBudget > 1 THEN BeatBudget ELSE 1)
          /\ Role(d) = "summary" => product[d].value \subseteq Sources
    /\ kept.hooks <= MaxHooks

\* The audit accounts for every call: the rows that are still started are those
\* of the calls in flight, of this call of advance or of one that was abandoned,
\* in each order of threads, repairs, retries and failures (rows of calls that
\* raised or died stay started for good and are counted in past).
RowsAccounted ==
    rows.open = {<<x[1], x[2], th[x[1]][x[2]].n>> : x \in
                    {y \in Runs \X Decisions : th[y[1]][y[2]].pc \in {"asked", "pause", "close"}}}

\* Decisions of a stage are complete before the next begins, also while those of
\* an abandoned call go on beside it, and every call of the phase ends.
Oracle == INSTANCE PhaseOracle
             WITH given <- {d \in IF stage \in 1..Final THEN Stages[stage] ELSE {} :
                               th[run][d].pc = "done"}
OracleSpec == Oracle!Spec

\* The docstring of _director_phase: an outage leaves the last run of the
\* director as it was, so that the next phase tries again.
OutageRetries ==
    [][\A d \in Decisions :
          (Role(d) = "director" /\ th[run][d].pc = "judge" /\ th[run][d].reply = NoReply)
             => kept'.last = kept.last]_vars
=============================================================================
