--------------------------- MODULE CanonicalCommit ---------------------------
(***************************************************************************)
(* The canonical transaction and the writers that bypass it, over one      *)
(* world.  Each writer is one database transaction under READ COMMITTED:   *)
(* its reads see committed rows, its row locks and its uncommitted unique  *)
(* keys block others until it ends, and its writes appear at its commit.   *)
(*                                                                         *)
(*   Requests  CanonicalTransaction.commit                                 *)
(*   Appliers  the macro engine's fire transaction applying a death        *)
(*   Enders    evaluate_endings marking the world ENDED                    *)
(***************************************************************************)
EXTENDS Integers, FiniteSets

CONSTANTS
    Requests, Appliers, Enders,
    Aggregates,    \* aggregate ids, numbered in canonical order
    World,         \* the world's own aggregate
    Keys, NoWriter,
    KeyOf,         \* idempotency key of a request
    InputOf,       \* input hash of a request
    Writes,        \* aggregates that get a new row version
    Reads          \* aggregates a request validates without writing

Writers == Requests \cup Appliers \cup Enders

ASSUME CommitAssumption ==
    /\ IsFiniteSet(Writers)
    /\ IsFiniteSet(Aggregates) /\ Aggregates \subseteq Nat
    /\ World \in Aggregates
    /\ Requests \cap (Appliers \cup Enders) = {} /\ Appliers \cap Enders = {}
    /\ NoWriter \notin Writers
    /\ KeyOf \in [Requests -> Keys]
    /\ Writes \in [Writers -> SUBSET Aggregates]
    /\ Reads \in [Requests -> SUBSET Aggregates]
    /\ \A p \in Appliers : \E a \in Aggregates \ {World} : Writes[p] = {a}
    \* A character dies once: a second death returns without a write.
    /\ \A p, q \in Appliers : Writes[p] = Writes[q] => p = q
    /\ \A e \in Enders : Writes[e] = {World}

VARIABLES
    pc,            \* the next statement of each writer
    expected,      \* versions each writer read before it took its locks
    number,        \* the event sequence each writer is about to use
    storeLocks,    \* aggregate_version rows each writer has locked
    rowLocks,      \* world and character_state rows each writer has locked
    store,         \* committed aggregate_version.version
    rows,          \* committed world.version and character_state.version
    commands,      \* committed user_command rows: the request behind each key
    events         \* committed world_event rows: sequence and writer

vars == <<pc, expected, number, storeLocks, rowLocks, store, rows, commands, events>>
locks == <<storeLocks, rowLocks>>
committed == <<store, rows, commands, events>>

Ended == {"committed", "duplicate", "conflict", "failed"}
Statements == {"idle", "lookup", "insert", "race", "lock", "number", "append",
               "read", "project", "sync", "commit"} \cup Ended

Versions == [Aggregates -> Nat]
Event == [seq : Nat, by : Writers]

TypeOK ==
    /\ pc \in [Writers -> Statements]
    /\ expected \in [Writers -> Versions]
    /\ number \in [Writers -> Nat]
    /\ storeLocks \in [Writers -> SUBSET Aggregates]
    /\ rowLocks \in [Writers -> SUBSET Aggregates]
    /\ store \in Versions
    /\ rows \in Versions
    /\ commands \in [Keys -> Requests \cup {NoWriter}]
    /\ events \subseteq Event

Init ==
    /\ pc = [w \in Writers |-> "idle"]
    /\ expected = [w \in Writers |-> [a \in Aggregates |-> 0]]
    /\ number = [w \in Writers |-> 0]
    /\ storeLocks = [w \in Writers |-> {}]
    /\ rowLocks = [w \in Writers |-> {}]
    /\ store = [a \in Aggregates |-> 0]
    /\ rows = [a \in Aggregates |-> 0]
    /\ commands = [k \in Keys |-> NoWriter]
    /\ events = {}

-----------------------------------------------------------------------------
(* Transactions                                                            *)

Goto(w, step) == pc' = [pc EXCEPT ![w] = step]

\* Mutant: the connection goes back to its pool with the locks.
End_KeepsLocks(w, how) == Goto(w, how) /\ UNCHANGED locks

\* The transaction ends: locks and uncommitted keys are gone.
End(w, how) ==
    /\ Goto(w, how)
    /\ storeLocks' = [storeLocks EXCEPT ![w] = {}]
    /\ rowLocks' = [rowLocks EXCEPT ![w] = {}]

Touched(r) == Writes[r] \cup Reads[r]

\* The lowest of a set of ids: locks are taken in canonical order.
Lowest(S) == CHOOSE a \in S : \A b \in S : a <= b

\* Mutant: what is only validated is locked before what is written.
NextLock_ReadsFirst(r) ==
    LET reads == Reads[r] \ storeLocks[r]
    IN  Lowest(IF reads # {} THEN reads ELSE Writes[r] \ storeLocks[r])

NextLock(r) == Lowest(Touched(r) \ storeLocks[r])
NextRow(w) == Lowest(Writes[w] \ rowLocks[w])

\* Uncommitted unique keys a writer holds.
InsertedKey(w) ==
    IF w \in Requests /\ pc[w] \in {"lock", "number", "append", "project", "commit"}
    THEN {KeyOf[w]} ELSE {}

AppendedNumber(w) ==
    IF pc[w] \in {"read", "project", "sync", "commit"} THEN {number[w]} ELSE {}

\* An uncommitted command or event refers to the world: the foreign key
\* holds the world's row FOR KEY SHARE, which FOR UPDATE waits for.
RefersToWorld(w) == InsertedKey(w) # {} \/ AppendedNumber(w) # {}

\* The writers that keep w's next statement waiting.
Blockers(w) ==
    {v \in Writers \ {w} :
        \/ pc[w] = "insert" /\ KeyOf[w] \in InsertedKey(v)
        \/ pc[w] = "append" /\ number[w] \in AppendedNumber(v)
        \/ pc[w] \in {"insert", "append"} /\ World \in rowLocks[v]
        \/ /\ pc[w] = "lock" /\ Touched(w) # storeLocks[w]
           /\ NextLock(w) \in storeLocks[v]
        \/ /\ pc[w] = "project" /\ Writes[w] # rowLocks[w]
           /\ \/ NextRow(w) \in rowLocks[v]
              \/ NextRow(w) = World /\ RefersToWorld(v)
        \/ pc[w] = "sync" /\ Writes[w] \cap storeLocks[v] # {}}

Runs(w, step) == pc[w] = step /\ Blockers(w) = {}

LastSequence ==
    IF events = {} THEN 0
    ELSE CHOOSE n \in {e.seq : e \in events} : \A e \in events : e.seq <= n

-----------------------------------------------------------------------------
(* CanonicalTransaction.commit                                             *)

\* The caller reads the versions it will expect, from the projection rows or
\* from the version store.
Prepare(r) ==
    /\ pc[r] = "idle"
    /\ \E seen \in {rows, store} : expected' = [expected EXCEPT ![r] = seen]
    /\ Goto(r, "lookup")
    /\ UNCHANGED <<number, locks, committed>>

\* get_by_key, at the start and again after a lost insert race.
Lookup(r) ==
    /\ pc[r] \in {"lookup", "race"}
    /\ LET first == commands[KeyOf[r]]
       IN  Goto(r, IF first # NoWriter
                   THEN IF InputOf[first] = InputOf[r] THEN "duplicate" ELSE "conflict"
                   ELSE IF pc[r] = "lookup" THEN "insert" ELSE "failed")
    /\ UNCHANGED <<expected, number, locks, committed>>

\* Mutant: the command row is committed by itself.
Insert_Commits(r) ==
    /\ Runs(r, "insert")
    /\ IF commands[KeyOf[r]] # NoWriter
       THEN Goto(r, "race") /\ UNCHANGED commands
       ELSE Goto(r, "lock") /\ commands' = [commands EXCEPT ![KeyOf[r]] = r]
    /\ UNCHANGED <<expected, number, locks, store, rows, events>>

\* commands.add waits for an uncommitted row with the key and fails on a
\* committed one.
Insert(r) ==
    /\ Runs(r, "insert")
    /\ Goto(r, IF commands[KeyOf[r]] # NoWriter THEN "race" ELSE "lock")
    /\ UNCHANGED <<expected, number, locks, committed>>

\* versions.check locks row by row ...
LockStore(r) ==
    /\ Runs(r, "lock")
    /\ Touched(r) # storeLocks[r]
    /\ storeLocks' = [storeLocks EXCEPT ![r] = @ \cup {NextLock(r)}]
    /\ UNCHANGED <<pc, expected, number, rowLocks, committed>>

\* Mutant: the comparison does not keep its locks.
Check_Unlocked(r) ==
    /\ Runs(r, "lock")
    /\ Touched(r) = storeLocks[r]
    /\ IF \A a \in Touched(r) : store[a] = expected[r][a]
       THEN Goto(r, "number") /\ storeLocks' = [storeLocks EXCEPT ![r] = {}]
            /\ UNCHANGED rowLocks
       ELSE End(r, "failed")
    /\ UNCHANGED <<expected, number, committed>>

\* ... and compares once it has them all.
Check(r) ==
    /\ Runs(r, "lock")
    /\ Touched(r) = storeLocks[r]
    /\ IF \A a \in Touched(r) : store[a] = expected[r][a]
       THEN Goto(r, "number") /\ UNCHANGED locks
       ELSE End(r, "failed")
    /\ UNCHANGED <<expected, number, committed>>

\* max_sequence and append_event are two statements, for every writer.
TakeNumber(w, after) ==
    /\ pc[w] = "number"
    /\ number' = [number EXCEPT ![w] = LastSequence + 1]
    /\ Goto(w, after)
    /\ UNCHANGED <<expected, locks, committed>>

\* Mutant: uq_event_world_sequence is missing.
AppendEvent_NotUnique(w, after) ==
    /\ Runs(w, "append")
    /\ Goto(w, after)
    /\ UNCHANGED <<expected, number, locks, committed>>

AppendEvent(w, after) ==
    /\ Runs(w, "append")
    /\ IF \E e \in events : e.seq = number[w]
       THEN End(w, "failed")
       ELSE Goto(w, after) /\ UNCHANGED locks
    /\ UNCHANGED <<expected, number, committed>>

\* Mutant: the row is overwritten whatever its version.
SaveRow_Blind(w, after) ==
    /\ Runs(w, "project")
    /\ IF Writes[w] = rowLocks[w]
       THEN Goto(w, after) /\ UNCHANGED locks
       ELSE /\ rowLocks' = [rowLocks EXCEPT ![w] = @ \cup {NextRow(w)}]
            /\ UNCHANGED <<pc, storeLocks>>
    /\ UNCHANGED <<expected, number, committed>>

\* save and save_state: lock the next row and compare its version.
SaveRow(w, after) ==
    /\ Runs(w, "project")
    /\ IF Writes[w] = rowLocks[w]
       THEN Goto(w, after) /\ UNCHANGED locks
       ELSE IF rows[NextRow(w)] = expected[w][NextRow(w)]
            THEN /\ rowLocks' = [rowLocks EXCEPT ![w] = @ \cup {NextRow(w)}]
                 /\ UNCHANGED <<pc, storeLocks>>
            ELSE End(w, "failed")
    /\ UNCHANGED <<expected, number, committed>>

\* Mutant: the bump has the wrong sign.
Bumped_Down(versions, w, S) ==
    [a \in Aggregates |-> IF a \in S THEN expected[w][a] - 1 ELSE versions[a]]

Bumped(versions, w, S) ==
    [a \in Aggregates |-> IF a \in S THEN expected[w][a] + 1 ELSE versions[a]]

\* Rows, store, command, event and the rest of the commit appear at once.
Commit(r) ==
    /\ pc[r] = "commit"
    /\ rows' = Bumped(rows, r, Writes[r])
    /\ store' = Bumped(store, r, Writes[r])
    /\ commands' = [commands EXCEPT ![KeyOf[r]] = r]
    /\ events' = events \cup {[seq |-> number[r], by |-> r]}
    /\ End(r, "committed")
    /\ UNCHANGED <<expected, number>>

\* The caller tries again with the same command after a failure.
Retry(r) ==
    /\ pc[r] = "failed"
    /\ Goto(r, "idle")
    /\ UNCHANGED <<expected, number, locks, committed>>

RequestStep(r) ==
    \/ Prepare(r) \/ Lookup(r) \/ Insert(r) \/ LockStore(r) \/ Check(r)
    \/ TakeNumber(r, "append") \/ AppendEvent(r, "project")
    \/ SaveRow(r, "commit") \/ Commit(r)

-----------------------------------------------------------------------------
(* _fire_due_schedules with a death: event first, then the character's     *)
(* row, then sync_version of its store entry.                              *)

BeginFire(p) ==
    /\ pc[p] \in {"idle", "failed"}
    /\ Goto(p, "number")
    /\ UNCHANGED <<expected, number, locks, committed>>

ReadVictim(p) ==
    /\ pc[p] = "read"
    /\ expected' = [expected EXCEPT ![p] = rows]
    /\ Goto(p, "project")
    /\ UNCHANGED <<number, locks, committed>>

SyncVersion(p) ==
    /\ Runs(p, "sync")
    /\ storeLocks' = [storeLocks EXCEPT ![p] = Writes[p]]
    /\ Goto(p, "commit")
    /\ UNCHANGED <<expected, number, rowLocks, committed>>

\* Mutant: sync_version is forgotten.
CommitFire_NoSync(p) ==
    /\ pc[p] = "commit"
    /\ rows' = Bumped(rows, p, Writes[p])
    /\ events' = events \cup {[seq |-> number[p], by |-> p]}
    /\ End(p, "committed")
    /\ UNCHANGED <<expected, number, store, commands>>

CommitFire(p) ==
    /\ pc[p] = "commit"
    /\ rows' = Bumped(rows, p, Writes[p])
    /\ store' = Bumped(store, p, Writes[p])
    /\ events' = events \cup {[seq |-> number[p], by |-> p]}
    /\ End(p, "committed")
    /\ UNCHANGED <<expected, number, commands>>

ApplierStep(p) ==
    \/ BeginFire(p) \/ TakeNumber(p, "append") \/ AppendEvent(p, "read")
    \/ ReadVictim(p) \/ SaveRow(p, "sync") \/ SyncVersion(p) \/ CommitFire(p)

-----------------------------------------------------------------------------
(* evaluate_endings: the world row is saved, the version store is not.     *)

ReadWorld(e) ==
    /\ pc[e] \in {"idle", "failed"}
    /\ \A f \in Enders : pc[f] # "committed"    \* the world is ACTIVE
    /\ expected' = [expected EXCEPT ![e] = rows]
    /\ Goto(e, "number")
    /\ UNCHANGED <<number, locks, committed>>

CommitEnding(e) ==
    /\ pc[e] = "commit"
    /\ rows' = Bumped(rows, e, Writes[e])
    /\ events' = events \cup {[seq |-> number[e], by |-> e]}
    /\ End(e, "committed")
    /\ UNCHANGED <<expected, number, store, commands>>

EnderStep(e) ==
    \/ ReadWorld(e) \/ TakeNumber(e, "append") \/ AppendEvent(e, "project")
    \/ SaveRow(e, "commit") \/ CommitEnding(e)

-----------------------------------------------------------------------------
\* A statement raises, or the process dies: the database rolls back.
Abort(w) ==
    /\ pc[w] \notin Ended \cup {"idle"}
    /\ End(w, "failed")
    /\ UNCHANGED <<expected, number, committed>>

\* Writers that wait for each other in a ring.
Waiting == {w \in Writers : Blockers(w) # {}}
Rings == {C \in (SUBSET Waiting) \ {{}} : \A w \in C : Blockers(w) \cap C # {}}

\* PostgreSQL's deadlock detector cancels a writer of the ring.
BreakRing(w) ==
    /\ \E C \in Rings : w \in C
    /\ End(w, "failed")
    /\ UNCHANGED <<expected, number, committed>>

WriterStep(w) ==
    \/ w \in Requests /\ RequestStep(w)
    \/ w \in Appliers /\ ApplierStep(w)
    \/ w \in Enders /\ EnderStep(w)

Next ==
    \/ \E r \in Requests : RequestStep(r) \/ Retry(r)
    \/ \E p \in Appliers : ApplierStep(p)
    \/ \E e \in Enders : EnderStep(e)
    \/ \E w \in Writers : Abort(w) \/ BreakRing(w)

Spec == Init /\ [][Next]_vars

\* PostgreSQL queues the waiters of a lock, so a statement that can run
\* again and again does run; the deadlock detector breaks every ring.
Fairness == \A w \in Writers : SF_vars(WriterStep(w)) /\ WF_vars(BreakRing(w))

FairSpec == Spec /\ Fairness

-----------------------------------------------------------------------------
(* Properties                                                              *)

\* Only evaluate_endings moves a row without its store entry.
WorldRuns == \A e \in Enders : pc[e] # "committed"

\* "The row/store lockstep invariant" (versions.py:102): until the world has
\* ended, committed rows and the version store agree, so every caller expects
\* what check will compare.
Lockstep == WorldRuns => rows = store

\* A commit that passed versions.check is not refused by a row: nobody moves
\* a row of a running world while its store entry is locked.
CheckedCommitsLand ==
    WorldRuns =>
        \A r \in Requests :
            pc[r] \in {"number", "append", "project", "commit"} =>
                \A a \in Writes[r] : rows[a] = expected[r][a]

\* Event sequences have no gap and no double, whoever appends them.
SequenceIsDense == {e.seq : e \in events} = 1..Cardinality(events)

\* A key has a result exactly if one of its requests wrote exactly one event
\* (canonical.py:3-7), however often and however concurrently it is sent.
ExactlyOnce ==
    \A k \in Keys :
        LET own == {e \in events : e.by \in Requests /\ KeyOf[e.by] = k}
        IN  IF commands[k] = NoWriter THEN own = {}
            ELSE Cardinality(own) = 1 /\ \A e \in own : e.by = commands[k]

\* "Concurrent writers serialize instead of deadlocking" (versions.py:3-4).
WritersSerialize == Rings = {}

\* What the canonical order does guarantee (ports/repositories.py:60-63):
\* requests never wait in a ring for each other's version store locks alone.
StoreLocksSerialize ==
    \A C \in Rings : C \subseteq Requests => \E r \in C : pc[r] # "lock"

\* Every commit call returns: with its result, a duplicate or an error.
CallsReturn == \A r \in Requests : pc[r] = "lookup" ~> pc[r] \in Ended

\* The committed tables implement the serial ledger.
Serial == INSTANCE Ledger WITH
    history <- [n \in {e.seq : e \in events} |->
                    (CHOOSE e \in events : e.seq = n).by],
    spent   <- {k \in Keys : commands[k] # NoWriter},
    version <- rows,
    Spends  <- [w \in Writers |-> IF w \in Requests THEN {KeyOf[w]} ELSE {}]

SerialSpec == Serial!Spec
=============================================================================
