------------------------------ MODULE Remembering ------------------------------
(***************************************************************************)
(* What characters perceive, keep and are shown: the observations and      *)
(* memories of a committed scene (stage1.py _perceive_scene,               *)
(* domain/rules/perception.py), the summaries and digests of a night, and  *)
(* the context that is assembled for a character's next decision.          *)
(*                                                                         *)
(* One process runs a world's phases.  The perception of a phase goes by   *)
(* the places its snapshot sealed, while characters may be moved before    *)
(* its scenes commit; the night's accounts are written after the phase is  *)
(* COMPLETED.  A text is the set of records it was made from.              *)
(***************************************************************************)
EXTENDS Integers, Sequences, FiniteSetsExt

CONSTANTS
    Characters,    \* the living, in the order of their identifiers: a sequence
    Places, Home,  \* character -> where it begins
    Ties,          \* relationships: <<source, target>>
    Nobody,
    Intents,       \* attempts: [author, told], told being addressed or Nobody
    PhasesPerDay, RecentPhases, HalfLife,
    Floor, Threshold, MinAge, MaxPerDay, MaxTotal,
    MaxSalience, CiteBump,
    Newest,        \* observations that a summary looks at
    Room,          \* entries that fit a section
    LastPhase,     \* bound: phases
    MaxScenes,     \* bound: scenes
    MaxMoves       \* bound: moves between a seal and a commit

RememberingAssumption ==
    /\ {PhasesPerDay, HalfLife, Room} \subseteq Nat \ {0}
    /\ {RecentPhases, Floor, Threshold, MinAge, MaxPerDay, MaxTotal, MaxSalience, CiteBump,
        Newest, LastPhase, MaxScenes, MaxMoves} \subseteq Nat
    /\ \A n \in DOMAIN Characters : Characters[n] # Nobody

VARIABLES
    phase,     \* the phase that runs or ran last
    pc,        \* "idle", "play" or "night"
    at,        \* character -> where it is
    sealed,    \* phase -> places of its snapshot
    events,    \* attempts that were committed: [author, told, group, phase]
    records,   \* observation or memory -> its salience
    digests,   \* [owner, day, offered, sources]
    summaries, \* whose day has an account: <<owner, day>>
    todo,      \* accounts of this night still to be written
    moves

vars == <<phase, pc, at, sealed, events, records, digests, summaries, todo, moves>>

People == {Characters[n] : n \in DOMAIN Characters}
FreshSalience == 1
DigestWeight == 5      \* DIGEST_SCORE, doubled as every weight is

\* The rows: a record names its owner and its event, a digest and an account
\* name their owner's day and what they were made from.
ObservableEvent ==
    [author : People, told : People \union {Nobody}, group : SUBSET People, phase : 1..LastPhase]
RecordRow == [class : {"observations", "memories"}, owner : People, event : DOMAIN events]
DigestRow ==
    [owner : People, day : Nat, offered : SUBSET DOMAIN records, sources : SUBSET DOMAIN records]
SummaryRow == People \X Nat

TypeOK ==
    /\ phase \in 0..LastPhase /\ pc \in {"idle", "play", "night"}
    /\ at \in [People -> Places] /\ Len(sealed) = phase
    /\ \A n \in DOMAIN events : events[n] \in ObservableEvent
    /\ DOMAIN records \subseteq RecordRow
    /\ \A r \in DOMAIN records : records[r] \in FreshSalience..MaxSalience
    /\ \A n \in DOMAIN digests : digests[n] \in DigestRow
    /\ summaries \subseteq SummaryRow
    /\ moves \in 0..MaxMoves

Init ==
    /\ phase = 0 /\ pc = "idle"
    /\ at = Home /\ sealed = <<>>
    /\ events = <<>> /\ records = [r \in {} |-> 0] /\ digests = <<>> /\ summaries = {}
    /\ todo = <<>> /\ moves = 0

-----------------------------------------------------------------------------
(* Perception.                                                             *)
Everyone(members) == (UNION {{i.author, i.told} : i \in members}) \ {Nobody}

\* An attempt is a scene fact that nothing conceals; who is addressed has it
\* disclosed, wherever that is.
Perceives(event, observer, places) ==
    \/ observer = event.told
    \/ observer \in event.group
    \/ places[observer] = places[event.author]

Observation(owner, n) == [class |-> "observations", owner |-> owner, event |-> n]
Memory(owner, n) == [class |-> "memories", owner |-> owner, event |-> n]
HappenedIn(r) == events[r.event].phase

\* By where they are when the scene commits (a mutant).
Vantage_Live == at
Vantage == sealed[phase]

\* What every observer perceives of each attempt; and the participants' memories,
\* each of its own attempt, or of the scene.
Perceived(happened, first) ==
    LET Seen == {p \in People \X DOMAIN happened : Perceives(happened[p[2]], p[1], Vantage)}
        Mine(o) == LET own == {k \in DOMAIN happened : happened[k].author = o}
                   IN IF own = {} THEN 1 ELSE Min(own)
    IN {Observation(p[1], first + p[2]) : p \in Seen}
       \union {Memory(o, first + Mine(o)) : o \in happened[1].group}
Remember(new) ==
    records' = [r \in DOMAIN records \union new |->
                   IF r \in DOMAIN records THEN records[r] ELSE FreshSalience]

\* Who meets is decided by where they are after the decisions, by where they go,
\* and by what they share or want: any two of different authors may.  The intents
\* of a scene are sorted by their identifiers.
Sorted(pair) == CHOOSE s \in pair \X pair : s[1] # s[2]
Scenes ==
    {<<i>> : i \in Intents}
    \union {s \in Intents \X Intents : s[1].author # s[2].author /\ s = Sorted({s[1], s[2]})}

-----------------------------------------------------------------------------
(* A phase.                                                                *)
IsNight == phase % PhasesPerDay = PhasesPerDay - 1
Day == phase \div PhasesPerDay + 1
DayOf(r) == HappenedIn(r) \div PhasesPerDay + 1
Today(r) == DayOf(r) = Day

\* _summarize_day, then _promote_memories: an owner at a time.
Night == [k \in DOMAIN Characters |-> <<"summary", Characters[k]>>]
         \o [k \in DOMAIN Characters |-> <<"digest", Characters[k]>>]

Seal ==
    /\ pc = "idle" /\ phase < LastPhase
    /\ phase' = phase + 1 /\ pc' = "play"
    /\ sealed' = Append(sealed, at)
    /\ UNCHANGED <<at, events, records, digests, summaries, todo, moves>>

Move ==
    /\ moves < MaxMoves /\ moves' = moves + 1
    /\ \E c \in People, p \in Places : at[c] # p /\ at' = [at EXCEPT ![c] = p]
    /\ UNCHANGED <<phase, pc, sealed, events, records, digests, summaries, todo>>

Complete ==
    /\ pc' = IF IsNight THEN "night" ELSE "idle"
    /\ todo' = IF IsNight THEN Night ELSE <<>>

Play ==
    /\ pc = "play" /\ Len(events) < MaxScenes
    /\ \E s \in Scenes :
        LET group == Everyone({s[k] : k \in DOMAIN s})
            happened == [k \in DOMAIN s |-> [author |-> s[k].author, told |-> s[k].told,
                                             group |-> group, phase |-> phase]]
        IN /\ events' = events \o happened
           /\ Remember(Perceived(happened, Len(events)))
    /\ Complete
    /\ UNCHANGED <<phase, at, sealed, digests, summaries, moves>>

PlayQuietly ==
    /\ pc = "play" /\ Complete
    /\ UNCHANGED <<phase, at, sealed, events, records, digests, summaries, moves>>

-----------------------------------------------------------------------------
(* The night: a summary of each owner's day, then a digest of what it kept *)
(* for long.  The model cites some of the sources, or none, which counts   *)
(* as all of them; or it fails and the owner goes without.                 *)
Writing(kind) == pc = "night" /\ Head(todo)[1] = kind
Owner == Head(todo)[2]
NextOwner == todo' = Tail(todo) /\ pc' = IF Len(todo) = 1 THEN "idle" ELSE "night"

Of(owner, class) == {r \in DOMAIN records : r.owner = owner /\ r.class = class}
\* The latest rows, ties being broken at random.
Latest(S, limit) ==
    {T \in SUBSET S : /\ Cardinality(T) = Min({limit, Cardinality(S)})
                      /\ \A r \in T, q \in S \ T : HappenedIn(q) <= HappenedIn(r)}
DaySources ==
    {{r \in newest \union Of(Owner, "memories") : Today(r)} :
        newest \in Latest(Of(Owner, "observations"), Newest)}

\* The graph refuses citations of what was not offered; bound: one citation.
Citations(offered) == {{}} \union {{r} : r \in offered}
Raised(salience) == Min({MaxSalience, salience + CiteBump})
Bumped(cited) == [r \in DOMAIN records |-> IF r \in cited THEN Raised(records[r]) ELSE records[r]]

\* Its version is one more than those of the day: two of one day never differ.
Summary == <<Owner, Day>>

Summarize ==
    /\ Writing("summary")
    /\ \E sources \in DaySources \ {{}} : \E cited \in Citations(sources) :
        records' = Bumped(cited)
    /\ summaries' = summaries \union {Summary}
    /\ NextOwner
    /\ UNCHANGED <<phase, at, sealed, events, digests, moves>>

OwnDigests == {k \in DOMAIN digests : digests[k].owner = Owner}
TodaysDigests == {k \in OwnDigests : digests[k].day = Day}
MayPromote == Cardinality(TodaysDigests) < MaxPerDay /\ Cardinality(OwnDigests) < MaxTotal

\* What has a digest gets another (a mutant).
Digested_Never == {}
Digested == UNION {digests[k].sources : k \in OwnDigests}
Enduring ==
    {r \in Of(Owner, "observations") \union Of(Owner, "memories") :
        records[r] >= Threshold /\ phase - HappenedIn(r) >= MinAge}

\* A digest that cites nothing is made of all that was offered.
Digest(offered, cited) ==
    [owner |-> Owner, day |-> Day, offered |-> offered, sources |-> IF cited = {} THEN offered ELSE cited]

Promote ==
    /\ Writing("digest") /\ MayPromote
    /\ LET offered == Enduring \ Digested
       IN /\ offered # {}
          /\ \E cited \in Citations(offered) :
                digests' = Append(digests, Digest(offered, cited))
    /\ NextOwner
    /\ UNCHANGED <<phase, at, sealed, events, records, summaries, moves>>

\* Nothing to tell, no room for another digest, or a model that fails.
GoWithout ==
    /\ pc = "night" /\ NextOwner
    /\ UNCHANGED <<phase, at, sealed, events, records, digests, summaries, moves>>

\* The process dies in the night: the phase is COMPLETED and asked for again it
\* is only reported.
LoseNight ==
    /\ pc = "night" /\ pc' = "idle" /\ todo' = <<>>
    /\ UNCHANGED <<phase, at, sealed, events, records, digests, summaries, moves>>

Next == Seal \/ Move \/ Play \/ PlayQuietly \/ Summarize \/ Promote \/ GoWithout \/ LoseNight
Spec == Init /\ [][Next]_vars

-----------------------------------------------------------------------------
(* The context of a decision (_context_for, context/assembler.py).         *)
Recent(r) == HappenedIn(r) >= phase - RecentPhases \/ records[r] >= Floor

Candidate(id, class, owner, weight, age, events_) ==
    [id |-> id, class |-> class, owner |-> owner, weight |-> weight, age |-> age, of |-> events_]

Candidates(c) ==
    {Candidate(r, r.class, c, 2 * records[r], phase - HappenedIn(r), {r.event}) :
        r \in {q \in DOMAIN records : q.owner = c /\ Recent(q)}}
    \union {Candidate([digest |-> k], "memories", c, DigestWeight, 0, {r.event : r \in digests[k].offered}) :
                k \in {j \in DOMAIN digests : digests[j].owner = c}}
    \union {Candidate([source |-> t[1], target |-> t[2]], "relationships", t[1], 3, 0, {}) :
                t \in {u \in Ties : c \in {u[1], u[2]}}}

\* Whatever the query returns is shown (a mutant).
Permitted_All(candidate, actor) == TRUE
Permitted(candidate, actor) == candidate.owner = actor

\* score_salience halves a weight every HalfLife phases; its powers compare as
\* the scores do.
Outranks(a, b) == a.weight ^ HalfLife * 2 ^ b.age > b.weight ^ HalfLife * 2 ^ a.age

\* What finds room, whichever of the entries of one score comes first.
Section(c, class) ==
    LET permitted == {x \in Candidates(c) : x.class = class /\ Permitted(x, c)}
    IN IF class = "relationships" THEN permitted
       ELSE {x \in permitted : Cardinality({y \in permitted : Outranks(y, x)}) < Room}

Envelope(c) == UNION {Section(c, class) : class \in {"observations", "memories", "relationships"}}

-----------------------------------------------------------------------------
\* What a character is shown for its decision, even by way of a digest, comes
\* from attempts it took part in, was told, or stood by when their phase was
\* sealed, and from its own side of its relationships ("Owner-scoped; never
\* another character's", assembler.py:36).
ShownOnlyWhatItWitnessed ==
    \A c \in People : \A x \in Envelope(c) :
        /\ x.class = "relationships" => x.id.source = c
        /\ \A n \in x.of : LET e == events[n] IN
              c \in e.group \/ sealed[e.phase][c] = sealed[e.phase][e.author]

\* A record is the source of one digest at most, over any number of nights,
\* failures and deaths.
DigestedOnce ==
    \A j, k \in DOMAIN digests : j # k => digests[j].sources \cap digests[k].sources = {}

\* "Record one versioned summary per owner with same-day sources"
\* (_summarize_day): once the next day runs, everybody's day has been told.
DaysAreTold ==
    \A r \in DOMAIN records : DayOf(r) < Day => <<r.owner, DayOf(r)>> \in summaries
=============================================================================
