------------------------------ MODULE SceneTail ------------------------------
(***************************************************************************)
(* What _commit_scene of orchestration/stage1.py does once a scene's event *)
(* is committed: narrate, recruit and fight by the tags of the narration,  *)
(* settle the spars; with the party routes beside it                       *)
(* (application/commands/party.py), the roster and the monster pools.      *)
(*                                                                         *)
(* The phase's scenes are committed in order and a repeated call finds     *)
(* their events again (PhaseStage1 has what else may become of it).  A     *)
(* database transaction is one step, except where it decides by rows it    *)
(* read without a lock.  One call of advance at a time.                    *)
(***************************************************************************)
EXTENDS Bout

CONSTANTS
    Scenes,      \* number of scenes of the phase
    Narrations,  \* tag sequences a narrator may write: [recruits, tags]
    Sparring,    \* scene -> sequence of spars <<author, target>>
    Founders,    \* sheets seated before the phase, a function of names
    Newcomers,   \* sheets the begin route may seat
    Streams,     \* streams of random numbers
    Companion,   \* the sheet recruit_sheet builds for a tag and the highest level seen
    MaxLevel,    \* no sheet and no tag names a higher level
    MaxFaults,   \* bound: deaths of the phase's call
    MaxLinks     \* bound: links by the route

ASSUME TailAssumption ==
    /\ Scenes \in Nat \ {0} /\ {MaxFaults, MaxLinks} \subseteq Nat
    /\ IsFiniteSet(DOMAIN Founders) /\ Cardinality(DOMAIN Founders) <= MaxParty
    /\ DOMAIN Sparring = 1..Scenes /\ \A s \in 1..Scenes : DOMAIN Sparring[s] \subseteq Nat
    /\ \A s \in Streams : s \in Seq(0..19) /\ s # <<>>

\* A sheet under its name, of a level that a tag can ask for.
SheetOf(sheet, name) == Sound(sheet) /\ sheet.name = name /\ sheet.level <= MaxLevel

ASSUME SheetsAssumption ==
    /\ MaxLevel \in Nat \ {0}
    /\ \A n \in DOMAIN Founders : SheetOf(Founders[n], n)
    /\ \A n \in DOMAIN Newcomers : SheetOf(Newcomers[n], n)
    /\ \A n \in Narrations :
          /\ n.tags \in Seq(ToSet(n.tags)) /\ n.recruits \in Seq(ToSet(n.recruits))
          /\ \A tag \in ToSet(n.tags) : Parsed(tag)
          /\ \A tag \in ToSet(n.recruits), top \in 1..MaxLevel :
                SheetOf(Companion[tag, top], tag.name)

VARIABLES
    party,    \* roster rows by name: sheet, version
    pools,    \* monster rows by name: hp, max, version
    told,     \* scene -> its saved narration; Untold without one
    bouts,    \* scenes whose combat event exists
    gates,    \* settle-gate commands
    rolls,    \* scene -> the random numbers its event seeds
    call,     \* the phase's call
    route,    \* the begin request of a player at work
    spent,    \* deaths and links so far
    past      \* history: blows dealt per scene, joins that overlapped, scenes cut short

tail == <<party, pools, told, bouts, gates, rolls, call, route, spent, past>>

Untold == [written |-> FALSE]
Told(n) == [written |-> TRUE, recruits |-> n.recruits, tags |-> n.tags]

AtScene(s) == [pc |-> "narrate", scene |-> s, seen |-> [n |-> 0, top |-> 1],
               roster |-> <<>>, live |-> <<>>, tries |-> 0, todo |-> <<>>,
               report |-> [outcomes |-> 0]]
Asleep == [AtScene(1) EXCEPT !.pc = "idle"]
NoRoute == [pc |-> "idle", seats |-> 0]

Names == DOMAIN party
\* list_for_world orders by name; the order of joining stands for it.
Row(sheet) == [sheet |-> sheet, version |-> 0]
SheetsOf(roster) == [i \in DOMAIN roster |-> roster[i].sheet]
Roster == LET names == SetToSeq(Names) IN [i \in DOMAIN names |-> party[names[i]]]

TailInit ==
    /\ party = [n \in DOMAIN Founders |-> Row(Founders[n])]
    /\ pools = [k \in {} |-> 0]
    /\ told = [s \in 1..Scenes |-> Untold]
    /\ bouts = {} /\ gates = {}
    /\ rolls \in [1..Scenes -> Streams]
    /\ call = Asleep /\ route = NoRoute
    /\ spent = [faults |-> 0, links |-> 0]
    /\ past = [dealt |-> [s \in 1..Scenes |-> 0], overlaps |-> 0, cut |-> {}]

CallSteps == {"idle", "narrate", "recruit", "join", "load", "reckon", "fight", "settle", "done"}

TailTypeOK ==
    /\ \A n \in Names : party[n].sheet.name = n /\ party[n].version \in Nat
    /\ \A k \in DOMAIN pools : {pools[k].hp, pools[k].max, pools[k].version} \subseteq Nat
    /\ \A s \in 1..Scenes : told[s] = Untold \/ told[s] \in {Told(n) : n \in Narrations}
    /\ bouts \subseteq 1..Scenes
    /\ \A g \in gates : g[1] \in 1..Scenes /\ g[2] \in DOMAIN Sparring[g[1]]
    /\ rolls \in [1..Scenes -> Streams]
    /\ call.pc \in CallSteps /\ call.scene \in 1..Scenes /\ call.tries \in 0..1
    /\ route.pc = "seat" => route.name \in DOMAIN Newcomers /\ route.seats \in 0..(MaxParty - 1)
    /\ spent \in [faults : 0..MaxFaults, links : 0..MaxLinks]
    /\ past.dealt \in [1..Scenes -> Nat] /\ past.overlaps \in Nat /\ past.cut \subseteq 1..Scenes

At(pc) == call.pc = pc
Goto(pc) == [call EXCEPT !.pc = pc]
Here == call.scene

\* An exception leaves _commit_scene: the phase fails and is asked for again.
Fails == /\ call' = Asleep
         /\ past' = [past EXCEPT !.cut = @ \union {Here}]

Begin ==
    /\ At("idle")
    /\ call' = AtScene(1)
    /\ UNCHANGED <<party, pools, told, bouts, gates, rolls, route, spent, past>>

-----------------------------------------------------------------------------
(* Narration and its recruits. *)

\* A second narration of a scene runs into its key (a mutant).
SkipNarration_Refused ==
    /\ At("narrate") /\ told[Here].written
    /\ Fails
    /\ UNCHANGED <<party, pools, told, bouts, gates, rolls, route, spent>>
\* A narration that is there already ends _narrate_scene, tags or not.
SkipNarration ==
    /\ At("narrate") /\ told[Here].written
    /\ call' = Goto("settle")
    /\ UNCHANGED <<party, pools, told, bouts, gates, rolls, route, spent, past>>

\* The model's beats are saved before their tags are read; a phase that
\* skips the model saves its own, which carry none.
SaveNarration ==
    /\ At("narrate") /\ ~told[Here].written
    /\ \E n \in Narrations :
        /\ told' = [told EXCEPT ![Here] = Told(n)]
        /\ call' = [call EXCEPT !.pc = IF Names = {} \/ n.recruits = <<>> THEN "load" ELSE "recruit",
                                !.todo = n.recruits]
    /\ UNCHANGED <<party, pools, bouts, gates, rolls, route, spent, past>>

NarratorFails ==
    /\ At("narrate") /\ ~told[Here].written
    /\ call' = Goto("settle")
    /\ UNCHANGED <<party, pools, told, bouts, gates, rolls, route, spent, past>>

NextRecruit ==
    [call EXCEPT !.todo = Tail(@), !.pc = IF Tail(call.todo) = <<>> THEN "load" ELSE "recruit"]

Highest == IF Names = {} THEN 1 ELSE Max({party[n].sheet.level : n \in Names})
Full_Late(seats) == seats > MaxParty   \* a mutant
Full(seats) == seats >= MaxParty

\* recruit_companion: a known name is passed over before the cap is looked at.
MeetRecruit ==
    /\ At("recruit")
    /\ LET known == Head(call.todo).name \in Names IN
        \/ known /\ call' = NextRecruit /\ UNCHANGED past
        \/ ~known /\ Full(Cardinality(Names)) /\ Fails
        \/ /\ ~known /\ ~Full(Cardinality(Names))
           /\ call' = [call EXCEPT !.pc = "join",
                                   !.seen = [n |-> Cardinality(Names), top |-> Highest]]
           /\ UNCHANGED past
    /\ UNCHANGED <<party, pools, told, bouts, gates, rolls, route, spent>>

Overlapped(seats) == IF Cardinality(Names) > seats THEN 1 ELSE 0

SeatRecruit ==
    /\ At("join")
    /\ LET tag == Head(call.todo) IN
        \/ tag.name \in Names /\ Fails /\ UNCHANGED party     \* uq_party_member_world_name
        \/ /\ tag.name \notin Names
           /\ party' = Over(party, [n \in {tag.name} |-> Row(Companion[tag, call.seen.top])])
           /\ call' = NextRecruit
           /\ past' = [past EXCEPT !.overlaps = @ + Overlapped(call.seen.n)]
    /\ UNCHANGED <<pools, told, bouts, gates, rolls, route, spent>>

-----------------------------------------------------------------------------
(* Combat by tags: one transaction over rows read before it. *)

Load ==
    /\ At("load")
    /\ call' = [call EXCEPT !.pc = IF Names = {} THEN "settle" ELSE "reckon", !.tries = 0,
                            !.roster = Roster, !.live = pools, !.todo = told[Here].tags,
                            !.report = Opening(SheetsOf(Roster), pools)]
    /\ UNCHANGED <<party, pools, told, bouts, gates, rolls, route, spent, past>>

\* One tag of resolve_narration_tags, in the order they are written.
Reckon ==
    /\ At("reckon")
    /\ IF call.todo = <<>> THEN call' = Goto("fight")
       ELSE call' = [call EXCEPT !.todo = Tail(@), !.report =
                        ResolveTag(@, Head(call.todo), SheetsOf(call.roster), rolls[Here])]
    /\ UNCHANGED <<party, pools, told, bouts, gates, rolls, route, spent, past>>

Silent(r) == r.outcomes = 0 /\ r.unresolved = 0

\* Pools to write: new ones, and those that changed or were spawned again.
Saved(r) == {k \in r.changed : k \notin DOMAIN call.live \/ k \in r.spawned
                               \/ r.pools[k].hp # call.live[k].hp \/ r.pools[k].max # call.live[k].max}

VersionsHold(r) ==
    /\ \A p \in r.touched : party[call.roster[p].sheet.name].version = call.roster[p].version
    /\ \A k \in Saved(r) \intersect DOMAIN call.live : pools[k].version = call.live[k].version
\* An identity of its own for every fight (a mutant).
Fresh_Drawn(s) == TRUE
\* The identity of a combat event is derived from the scene's event.
Fresh(s) == s \notin bouts
\* uq_monster_world_name, and the event's key.
KeysFree(r) ==
    /\ \A k \in Saved(r) \ DOMAIN call.live : k \notin DOMAIN pools
    /\ Fresh(Here)

\* What the transaction writes; a pool keeps the maximum it was made with.
Struck(r) ==
    [n \in Names |->
        LET at == {p \in r.touched : call.roster[p].sheet.name = n} IN
        IF at = {} THEN party[n]
        ELSE LET p == Min(at) IN
             [sheet |-> [call.roster[p].sheet EXCEPT !.hp = r.hp[p], !.conditions = r.conditions[p]],
              version |-> party[n].version + 1]]

MonsterRow(hp, max) == [hp |-> hp, max |-> max, version |-> 0]

Rewritten(r) ==
    [k \in Saved(r) |->
        IF k \in DOMAIN call.live
        THEN [pools[k] EXCEPT !.hp = r.pools[k].hp, !.version = @ + 1]
        ELSE MonsterRow(r.pools[k].hp, r.pools[k].max)]

NoTags ==
    /\ At("fight") /\ Silent(call.report)
    /\ call' = Goto("settle")
    /\ UNCHANGED <<party, pools, told, bouts, gates, rolls, route, spent, past>>

Fight ==
    LET r == call.report IN
    /\ At("fight") /\ ~Silent(r) /\ VersionsHold(r) /\ KeysFree(r)
    /\ party' = Struck(r) /\ pools' = Over(Rewritten(r), pools)
    /\ bouts' = bouts \union {Here}
    /\ call' = Goto("settle")
    /\ past' = [past EXCEPT !.dealt[Here] = @ + 1]
    /\ UNCHANGED <<told, gates, rolls, route, spent>>

\* No second attempt after a version conflict (a mutant).
FightConflicts_Once ==
    LET r == call.report IN
    /\ At("fight") /\ ~Silent(r) /\ ~VersionsHold(r)
    /\ call' = Goto("settle")
    /\ UNCHANGED <<party, pools, told, bouts, gates, rolls, route, spent, past>>

\* The roster is read again, the monsters are not; the second conflict is the last.
FightConflicts ==
    LET r == call.report IN
    /\ At("fight") /\ ~Silent(r) /\ ~VersionsHold(r)
    /\ call' = IF call.tries = 1 THEN Goto("settle")
               ELSE [call EXCEPT !.pc = "reckon", !.tries = 1, !.roster = Roster, !.todo = told[Here].tags,
                                 !.report = Opening(SheetsOf(Roster), call.live)]
    /\ UNCHANGED <<party, pools, told, bouts, gates, rolls, route, spent, past>>

FightCollides ==
    LET r == call.report IN
    /\ At("fight") /\ ~Silent(r) /\ VersionsHold(r) /\ ~KeysFree(r)
    /\ Fails
    /\ UNCHANGED <<party, pools, told, bouts, gates, rolls, route, spent>>

-----------------------------------------------------------------------------
(* Spars: gate, blow and combat event in one transaction each. *)

Unsettled(s) == {i \in DOMAIN Sparring[s] : <<s, i>> \notin gates}
NextGate == <<Here, Min(Unsettled(Here))>>
Pair(g) == Sparring[g[1]][g[2]]
Able(pair) ==
    /\ {pair[1], pair[2]} \subseteq Names
    /\ party[pair[1]].sheet.weapons # <<>>

Spar ==
    /\ At("settle") /\ Unsettled(Here) # {}
    /\ LET g == NextGate
           pair == Pair(g) IN
        \/ /\ Able(pair) /\ Fresh(Here)
           /\ gates' = gates \union {g}
           /\ bouts' = bouts \union {Here}
           /\ party' = [party EXCEPT
                ![pair[2]].sheet.hp = Exchange(party[pair[1]].sheet, party[pair[2]].sheet, rolls[Here]),
                ![pair[2]].version = @ + 1]
           /\ past' = [past EXCEPT !.dealt[Here] = @ + 1]
           /\ UNCHANGED call
        \/ /\ ~Able(pair) \/ ~Fresh(Here)
           /\ Fails
           /\ UNCHANGED <<gates, bouts, party>>
    /\ UNCHANGED <<pools, told, rolls, route, spent>>

NextScene ==
    /\ At("settle") /\ Unsettled(Here) = {}
    /\ call' = IF Here = Scenes THEN Goto("done") ELSE AtScene(Here + 1)
    /\ UNCHANGED <<party, pools, told, bouts, gates, rolls, route, spent, past>>

-----------------------------------------------------------------------------
(* The party routes, and deaths. *)

\* begin_adventure looks at the cap before it looks for the name.
AskSeat ==
    /\ route.pc = "idle" /\ ~Full(Cardinality(Names))
    /\ \E n \in DOMAIN Newcomers \ Names :
        route' = [pc |-> "seat", name |-> n, seats |-> Cardinality(Names)]
    /\ UNCHANGED <<party, pools, told, bouts, gates, rolls, call, spent, past>>

Seat ==
    /\ route.pc = "seat"
    /\ route' = NoRoute
    /\ \/ route.name \in Names /\ UNCHANGED <<party, past>>
       \/ /\ route.name \notin Names
          /\ party' = Over(party, [n \in {route.name} |-> Row(Newcomers[n])])
          /\ past' = [past EXCEPT !.overlaps = @ + Overlapped(route.seats)]
    /\ UNCHANGED <<pools, told, bouts, gates, rolls, call, spent>>

\* link_member binds a row to a character: for the others, a new version.
Link ==
    /\ spent.links < MaxLinks
    /\ spent' = [spent EXCEPT !.links = @ + 1]
    /\ \E n \in Names : party' = [party EXCEPT ![n].version = @ + 1]
    /\ UNCHANGED <<pools, told, bouts, gates, rolls, call, route, past>>

CallDies ==
    /\ call.pc \notin {"idle", "done"} /\ spent.faults < MaxFaults
    /\ spent' = [spent EXCEPT !.faults = @ + 1]
    /\ Fails
    /\ UNCHANGED <<party, pools, told, bouts, gates, rolls, route>>

CallStep ==
    \/ Begin \/ SkipNarration \/ SaveNarration \/ NarratorFails \/ MeetRecruit \/ SeatRecruit
    \/ Load \/ Reckon \/ NoTags \/ Fight \/ FightConflicts \/ FightCollides \/ Spar \/ NextScene
TailNext == CallStep \/ AskSeat \/ Seat \/ Link \/ CallDies

TailSpec == TailInit /\ [][TailNext]_tail
\* A failed phase is asked for again, and a call that lives goes on: weak
\* fairness of CallStep, which is enabled until the call is done, written out
\* (TLC computes ENABLED of the dice too slowly).
FairTail == TailSpec /\ ([]<>At("done") \/ []<><<CallStep>>_tail)

-----------------------------------------------------------------------------
(* Whatever is struck, cured, spawned, reloaded or retried, every hit      *)
(* point total stays between nothing and its owner's maximum               *)
(* (combat_resolve.py, _settle_spar).                                      *)
VitalsInRange ==
    /\ \A n \in Names : party[n].sheet.hp \in Span(party[n].sheet.max)
    /\ \A k \in DOMAIN pools : pools[k].hp \in 0..pools[k].max

(* A committed event deals its blows once, by tags or by a spar, however   *)
(* often the phase is called: the identity of the combat event is derived  *)
(* from the event (derive_combat_event_id, _resolve_combat_tags).          *)
DealtOnce == \A s \in 1..Scenes : past.dealt[s] <= 1 /\ (past.dealt[s] = 1 <=> s \in bouts)

(* A fight leaves the world as one fight would have: its blows fall once,  *)
(* and within what each body can take.                                     *)
FightsHold == VitalsInRange /\ DealtOnce

(* One link that races a fight never costs a narration its combat: where   *)
(* there is a party, a call that has gone past a scene without dying or    *)
(* raising there has fought what its narration tells (the loop of          *)
(* _resolve_combat_tags).                                                  *)
ToldIsFought ==
    DOMAIN Founders # {} => \A s \in 1..Scenes :
        (/\ told[s].written /\ told[s].tags # <<>> /\ s \notin past.cut /\ spent.links <= 1
         /\ (At("done") \/ (~At("idle") /\ s < Here))) => s \in bouts

(* The party outgrows its cap only by joins that overlapped, one for each  *)
(* (_check_cap reads the roster in a statement before the insert).         *)
CapHolds == Cardinality(Names) <= MaxParty + past.overlaps

\* A spar that does not settle: its scene has had its fight, or it lacks a sheet or a weapon.
Stuck == /\ At("settle") /\ Unsettled(Here) # {}
         /\ Here \in bouts \/ ~Able(Pair(NextGate))

(* A phase that is asked for again and again gets to its end, whatever its *)
(* narrations ask for, unless it meets a spar that cannot be settled again *)
(* and again (_settle_scene_verbs: "the phase fails loud for a safe retry"). *)
TailHeals == <>At("done") \/ []<>Stuck
=============================================================================
