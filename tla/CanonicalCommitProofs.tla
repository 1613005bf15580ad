------------------------ MODULE CanonicalCommitProofs ------------------------
(***************************************************************************)
(* Proofs about the canonical transaction and the writers that bypass it,  *)
(* for any set of writers, keys and aggregates.  Each section strengthens  *)
(* one promise to an inductive invariant:                                  *)
(*   TypeInv    locks are within what their writer touches and the event   *)
(*              numbers are bounded: Lowest and LastSequence exist.        *)
(*   StoreInv   what versions.check accepted stays true under its locks.   *)
(*   OrderInv   what is locked comes before what is still to be locked.    *)
(*   RowInv     a locked row has the version its writer read.              *)
(*   NumberInv  one writer at a time appends, and appends the next number. *)
(*   KeyInv     one request at a time has a key inserted, and is the first.*)
(* The last section puts them together: every commit is a step of Ledger.  *)
(***************************************************************************)
EXTENDS CanonicalCommit, FiniteSetTheorems, WellFoundedInduction, TLAPS

-----------------------------------------------------------------------------
(* The choices of the module exist.                                        *)

LEMMA LeastExists ==
    ASSUME NEW S, S \subseteq Nat, S # {}
    PROVE  \E n \in S : \A m \in S : n <= m
  <1> DEFINE Downs == {0..k : k \in S}
  <1>1. Downs \subseteq FiniteSubsetsOf(Nat) /\ Downs # {}
    <2>1. ASSUME NEW k \in S PROVE 0..k \in FiniteSubsetsOf(Nat)
      <3>1. k \in Int /\ 0 \in Int /\ 0..k \subseteq Nat
        OBVIOUS
      <3>2. IsFiniteSet(0..k)
        BY <3>1, FS_Interval
      <3>3. QED
        BY <3>1, <3>2 DEF FiniteSubsetsOf
    <2>2. QED
      BY <2>1
  <1>2. IsWellFoundedOn(StrictSubsetOrdering(Nat), FiniteSubsetsOf(Nat))
    BY FS_StrictSubsetOrderingWellFounded
  <1> HIDE DEF Downs
  <1>3. PICK D \in Downs : \A E \in Downs : ~(<<E, D>> \in StrictSubsetOrdering(Nat))
    BY <1>1, <1>2, WFMin
  <1>4. PICK n \in S : D = 0..n
    BY DEF Downs
  <1>5. ASSUME NEW m \in S, m < n PROVE FALSE
    <2>1. 0..m \in Downs
      BY DEF Downs
    <2>2. 0..m \subseteq 0..n /\ n \in 0..n /\ n \notin 0..m
      BY <1>5
    <2>3. <<0..m, 0..n>> \in StrictSubsetOrdering(Nat)
      BY <2>2 DEF StrictSubsetOrdering
    <2>4. QED
      BY <1>3, <1>4, <2>1, <2>3
  <1>6. QED
    BY <1>5

LEMMA LowestIs ==
    ASSUME NEW S, S \subseteq Nat, S # {}
    PROVE  Lowest(S) \in S
  BY LeastExists DEF Lowest

\* The number of the last event bounds all of them.
Bounded == \E n \in Nat : \A e \in events : e.seq <= n

LEMMA LastSequenceIs ==
    ASSUME TypeOK, Bounded
    PROVE  /\ LastSequence \in Nat
           /\ \A e \in events : e.seq <= LastSequence
           /\ events # {} => \E e \in events : e.seq = LastSequence
  <1>1. CASE events = {}
    BY <1>1 DEF LastSequence
  <1>2. CASE events # {}
    <2> DEFINE Bounds == {n \in Nat : \A e \in events : e.seq <= n}
    <2>1. \A e \in events : e.seq \in Nat
      BY DEF TypeOK, Event
    <2>2. Bounds \subseteq Nat /\ Bounds # {}
      BY DEF Bounded
    <2> HIDE DEF Bounds
    <2>3. PICK n \in Bounds : \A m \in Bounds : n <= m
      BY <2>2, LeastExists
    <2>4. n \in Nat /\ \A e \in events : e.seq <= n
      BY <2>3 DEF Bounds
    <2>5. \E e \in events : e.seq = n
      <3>1. SUFFICES ASSUME \A e \in events : e.seq # n PROVE FALSE
        OBVIOUS
      <3>2. \A e \in events : e.seq <= n - 1
        BY <2>1, <2>4, <3>1
      <3>3. n - 1 \in Nat
        BY <1>2, <2>1, <2>4, <3>2
      <3>4. n - 1 \in Bounds
        BY <3>2, <3>3 DEF Bounds
      <3>5. QED
        BY <2>3, <2>4, <3>4
    <2>6. \E k \in {e.seq : e \in events} : \A e \in events : e.seq <= k
      BY <2>4, <2>5
    <2>7. LastSequence \in {e.seq : e \in events}
          /\ \A e \in events : e.seq <= LastSequence
      BY <1>2, <2>6 DEF LastSequence
    <2>8. QED
      BY <2>1, <2>7
  <1>3. QED
    BY <1>1, <1>2

-----------------------------------------------------------------------------
(* Types                                                                   *)

\* No writer locks what it does not touch.
LocksWithin ==
    /\ \A r \in Requests : storeLocks[r] \subseteq Touched(r)
    /\ \A w \in Writers : rowLocks[w] \subseteq Writes[w]

TypeInv == TypeOK /\ LocksWithin /\ Bounded

LEMMA InitType == Init => TypeInv
  <1> SUFFICES ASSUME Init PROVE TypeInv
    OBVIOUS
  <1>1. TypeOK
    BY CommitAssumption DEF Init, TypeOK, Versions, Statements, Event
  <1>2. LocksWithin
    BY CommitAssumption DEF Init, LocksWithin, Writers
  <1>3. Bounded
    <2>1. 0 \in Nat /\ \A e \in events : e.seq <= 0
      BY DEF Init
    <2>2. QED
      BY <2>1 DEF Bounded
  <1>4. QED
    BY <1>1, <1>2, <1>3 DEF TypeInv

LEMMA BumpedType ==
    ASSUME TypeOK, NEW w \in Writers, NEW S, NEW versions \in Versions
    PROVE  Bumped(versions, w, S) \in Versions
  BY DEF TypeOK, Versions, Bumped

\* Statements that only read or lock.
LEMMA EndType ==
    ASSUME TypeInv, NEW w \in Writers, NEW how \in Ended, End(w, how),
           UNCHANGED <<expected, number, committed>>
    PROVE  TypeInv'
  <1>1. TypeOK'
    BY DEF TypeInv, TypeOK, End, Goto, committed, Statements
  <1>2. LocksWithin'
    BY DEF TypeInv, TypeOK, LocksWithin, End, Touched
  <1>3. QED
    BY <1>1, <1>2 DEF TypeInv, Bounded, committed

LEMMA GotoType ==
    ASSUME TypeInv, NEW w \in Writers, NEW step \in Statements, Goto(w, step),
           UNCHANGED <<locks, committed>>, 
           expected' = expected \/ \E seen \in Versions : expected' = [expected EXCEPT ![w] = seen],
           number' = number \/ \E n \in Nat : number' = [number EXCEPT ![w] = n]
    PROVE  TypeInv'
  <1>1. TypeOK'
    BY DEF TypeInv, TypeOK, Goto, committed, locks
  <1>2. LocksWithin' /\ Bounded'
    BY DEF TypeInv, LocksWithin, Bounded, Touched, committed, locks
  <1>3. QED
    BY <1>1, <1>2 DEF TypeInv

LEMMA SaveRowType ==
    ASSUME TypeInv, NEW w \in Writers, NEW after \in Statements, SaveRow(w, after)
    PROVE  TypeInv'
  <1> USE DEF SaveRow, Runs
  <1>1. CASE Writes[w] = rowLocks[w]
    BY <1>1, GotoType
  <1>2. CASE /\ Writes[w] # rowLocks[w]
             /\ rows[NextRow(w)] # expected[w][NextRow(w)]
    BY <1>2, EndType DEF Ended
  <1>3. CASE /\ Writes[w] # rowLocks[w]
             /\ rows[NextRow(w)] = expected[w][NextRow(w)]
    <2>1. Writes[w] \subseteq Aggregates /\ Aggregates \subseteq Nat
      BY CommitAssumption
    <2>2. Writes[w] \ rowLocks[w] # {}
      BY <1>3 DEF TypeInv, LocksWithin
    <2>3. NextRow(w) \in Writes[w]
      BY <2>1, <2>2, LowestIs DEF NextRow
    <2>4. rowLocks' = [rowLocks EXCEPT ![w] = @ \cup {NextRow(w)}]
      BY <1>3
    <2>5. TypeOK'
      BY <1>3, <2>1, <2>3, <2>4 DEF TypeInv, TypeOK, committed
    <2>6. LocksWithin' /\ Bounded'
      BY <1>3, <2>3, <2>4 DEF TypeInv, TypeOK, LocksWithin, Bounded, Touched, committed
    <2>7. QED
      BY <2>5, <2>6 DEF TypeInv
  <1>4. QED
    BY <1>1, <1>2, <1>3

LEMMA AppendType ==
    ASSUME TypeInv, NEW w \in Writers, NEW after \in Statements, AppendEvent(w, after)
    PROVE  TypeInv'
  <1>1. CASE \E e \in events : e.seq = number[w]
    BY <1>1, EndType DEF AppendEvent, Ended
  <1>2. CASE ~\E e \in events : e.seq = number[w]
    BY <1>2, GotoType DEF AppendEvent
  <1>3. QED
    BY <1>1, <1>2

LEMMA NumberType ==
    ASSUME TypeInv, NEW w \in Writers, NEW after \in Statements, TakeNumber(w, after)
    PROVE  TypeInv'
  <1>1. LastSequence + 1 \in Nat
    BY LastSequenceIs DEF TypeInv
  <1>2. QED
    BY <1>1, GotoType DEF TakeNumber

\* A commit appends one event under the writer's number.
Appends(w) == events' = events \cup {[seq |-> number[w], by |-> w]}

LEMMA CommitType ==
    ASSUME TypeInv, NEW w \in Writers, Appends(w), End(w, "committed"),
           UNCHANGED <<expected, number>>,
           rows' \in Versions, store' \in Versions,
           commands' \in [Keys -> Requests \cup {NoWriter}]
    PROVE  TypeInv'
  <1>1. number[w] \in Nat
    BY DEF TypeInv, TypeOK
  <1>2. TypeOK'
    BY <1>1 DEF TypeInv, TypeOK, End, Goto, Statements, Ended, Appends, Event
  <1>3. LocksWithin'
    BY DEF TypeInv, TypeOK, LocksWithin, End, Touched
  <1>4. Bounded'
    <2>1. PICK n \in Nat : \A e \in events : e.seq <= n
      BY DEF TypeInv, Bounded
    <2>2. PICK m \in Nat : n <= m /\ number[w] <= m
      BY <1>1
    <2>3. \A e \in events' : e.seq <= m
      BY <2>1, <2>2, <1>1 DEF Appends, TypeInv, TypeOK, Event
    <2>4. QED
      BY <2>3 DEF Bounded
  <1>5. QED
    BY <1>2, <1>3, <1>4 DEF TypeInv

LEMMA RequestType ==
    ASSUME TypeInv, NEW r \in Requests, RequestStep(r)
    PROVE  TypeInv'
  <1> r \in Writers
    BY DEF Writers
  <1>1. CASE Prepare(r)
    BY <1>1, GotoType DEF Prepare, Statements, TypeInv, TypeOK
  <1>2. CASE Lookup(r)
    BY <1>2, GotoType DEF Lookup, Statements, Ended
  <1>3. CASE Insert(r)
    BY <1>3, GotoType DEF Insert, Statements
  <1>4. CASE LockStore(r)
    <2>1. Touched(r) \subseteq Aggregates /\ Aggregates \subseteq Nat
      BY CommitAssumption DEF Touched
    <2>2. Touched(r) \ storeLocks[r] # {}
      BY <1>4 DEF LockStore, TypeInv, LocksWithin
    <2>3. NextLock(r) \in Touched(r)
      BY <2>1, <2>2, LowestIs DEF NextLock
    <2>4. TypeOK'
      BY <1>4, <2>1, <2>3 DEF LockStore, TypeInv, TypeOK, committed
    <2>5. LocksWithin' /\ Bounded'
      BY <1>4, <2>3 DEF LockStore, TypeInv, TypeOK, LocksWithin, Bounded, Touched, committed
    <2>6. QED
      BY <2>4, <2>5 DEF TypeInv
  <1>5. CASE Check(r)
    <2>1. CASE \A a \in Touched(r) : store[a] = expected[r][a]
      BY <1>5, <2>1, GotoType DEF Check, Statements
    <2>2. CASE ~\A a \in Touched(r) : store[a] = expected[r][a]
      BY <1>5, <2>2, EndType DEF Check, Ended
    <2>3. QED
      BY <2>1, <2>2
  <1>6. CASE TakeNumber(r, "append")
    BY <1>6, NumberType DEF Statements
  <1>7. CASE AppendEvent(r, "project")
    BY <1>7, AppendType DEF Statements
  <1>8. CASE SaveRow(r, "commit")
    BY <1>8, SaveRowType DEF Statements
  <1>9. CASE Commit(r)
    <2>1. rows' \in Versions /\ store' \in Versions
      BY <1>9, BumpedType DEF Commit, TypeInv, TypeOK
    <2>2. commands' \in [Keys -> Requests \cup {NoWriter}]
      BY <1>9, CommitAssumption DEF Commit, TypeInv, TypeOK
    <2>3. QED
      BY <1>9, <2>1, <2>2, CommitType DEF Commit, Appends
  <1>10. QED
    BY <1>1, <1>2, <1>3, <1>4, <1>5, <1>6, <1>7, <1>8, <1>9 DEF RequestStep

LEMMA ApplierType ==
    ASSUME TypeInv, NEW p \in Appliers, ApplierStep(p)
    PROVE  TypeInv'
  <1> p \in Writers
    BY DEF Writers
  <1>1. CASE BeginFire(p)
    BY <1>1, GotoType DEF BeginFire, Statements
  <1>2. CASE TakeNumber(p, "append")
    BY <1>2, NumberType DEF Statements
  <1>3. CASE AppendEvent(p, "read")
    BY <1>3, AppendType DEF Statements
  <1>4. CASE ReadVictim(p)
    BY <1>4, GotoType DEF ReadVictim, Statements, TypeInv, TypeOK
  <1>5. CASE SaveRow(p, "sync")
    BY <1>5, SaveRowType DEF Statements
  <1>6. CASE SyncVersion(p)
    <2>1. Writes[p] \subseteq Aggregates
      BY CommitAssumption
    <2>2. TypeOK'
      BY <1>6, <2>1 DEF SyncVersion, Goto, Statements, TypeInv, TypeOK, committed
    <2>3. LocksWithin' /\ Bounded'
      BY <1>6, CommitAssumption
         DEF SyncVersion, TypeInv, TypeOK, LocksWithin, Bounded, Touched, committed
    <2>4. QED
      BY <2>2, <2>3 DEF TypeInv
  <1>7. CASE CommitFire(p)
    <2>1. rows' \in Versions /\ store' \in Versions
      BY <1>7, BumpedType DEF CommitFire, TypeInv, TypeOK
    <2>2. QED
      BY <1>7, <2>1, CommitType DEF CommitFire, Appends, TypeInv, TypeOK
  <1>8. QED
    BY <1>1, <1>2, <1>3, <1>4, <1>5, <1>6, <1>7 DEF ApplierStep

LEMMA EnderType ==
    ASSUME TypeInv, NEW e \in Enders, EnderStep(e)
    PROVE  TypeInv'
  <1> e \in Writers
    BY DEF Writers
  <1>1. CASE ReadWorld(e)
    BY <1>1, GotoType DEF ReadWorld, Statements, TypeInv, TypeOK
  <1>2. CASE TakeNumber(e, "append")
    BY <1>2, NumberType DEF Statements
  <1>3. CASE AppendEvent(e, "project")
    BY <1>3, AppendType DEF Statements
  <1>4. CASE SaveRow(e, "commit")
    BY <1>4, SaveRowType DEF Statements
  <1>5. CASE CommitEnding(e)
    <2>1. rows' \in Versions
      BY <1>5, BumpedType DEF CommitEnding, TypeInv, TypeOK
    <2>2. QED
      BY <1>5, <2>1, CommitType DEF CommitEnding, Appends, TypeInv, TypeOK
  <1>6. QED
    BY <1>1, <1>2, <1>3, <1>4, <1>5 DEF EnderStep

LEMMA NextType == TypeInv /\ [Next]_vars => TypeInv'
  <1> SUFFICES ASSUME TypeInv, [Next]_vars PROVE TypeInv'
    OBVIOUS
  <1>1. CASE \E r \in Requests : RequestStep(r)
    BY <1>1, RequestType
  <1>2. CASE \E r \in Requests : Retry(r)
    BY <1>2, GotoType DEF Retry, Statements, Writers
  <1>3. CASE \E p \in Appliers : ApplierStep(p)
    BY <1>3, ApplierType
  <1>4. CASE \E e \in Enders : EnderStep(e)
    BY <1>4, EnderType
  <1>5. CASE \E w \in Writers : Abort(w) \/ BreakRing(w)
    BY <1>5, EndType DEF Abort, BreakRing, Ended
  <1>6. CASE UNCHANGED vars
    BY <1>6 DEF vars, TypeInv, TypeOK, LocksWithin, Bounded, Touched
  <1>7. QED
    BY <1>1, <1>2, <1>3, <1>4, <1>5, <1>6 DEF Next

LEMMA AlwaysTypeInv == Spec => []TypeInv
  BY InitType, NextType, PTL DEF Spec

\* Every reachable state of the commit protocol is well-typed: a next lock and
\* a next event number always exist.
THEOREM CommitTypeCorrect == Spec => []TypeOK
  BY AlwaysTypeInv, PTL DEF TypeInv

-----------------------------------------------------------------------------
(* The version store                                                       *)

Checked == {"number", "append", "project", "commit"}

\* What versions.check compared stays as it was compared.
CheckHolds ==
    \A r \in Requests : pc[r] \in Checked =>
        /\ storeLocks[r] = Touched(r)
        /\ \A a \in Touched(r) : store[a] = expected[r][a]

\* A death is committed under the lock of its store entry.
SyncHolds == \A p \in Appliers : pc[p] = "commit" => storeLocks[p] = Writes[p]

StoreLocksDisjoint ==
    \A v, w \in Writers : v # w => storeLocks[v] \cap storeLocks[w] = {}

StoreInv == CheckHolds /\ SyncHolds /\ StoreLocksDisjoint /\ Lockstep

LEMMA InitStore == Init => StoreInv
  BY DEF Init, StoreInv, CheckHolds, SyncHolds, StoreLocksDisjoint, Lockstep,
     Checked, Writers

\* A writer of a ring waits at a statement of its transaction.
LEMMA RingWaits ==
    ASSUME NEW w \in Writers, BreakRing(w)
    PROVE  pc[w] \in {"insert", "append", "lock", "project", "sync"}
  BY DEF BreakRing, Rings, Waiting, Blockers

\* The end of a transaction without a write.
LEMMA EndStore ==
    ASSUME TypeInv, StoreInv, NEW w \in Writers,
           NEW how \in Ended \ {"committed"}, End(w, how),
           pc[w] # "committed",
           UNCHANGED <<expected, number, committed>>
    PROVE  StoreInv'
  <1> USE DEF TypeInv, TypeOK, StoreInv, End, Goto, committed, Ended
  <1>1. CheckHolds'
    BY DEF CheckHolds, Checked, Touched, Writers
  <1>2. SyncHolds'
    BY DEF SyncHolds, Writers
  <1>3. StoreLocksDisjoint'
    BY DEF StoreLocksDisjoint
  <1>4. Lockstep'
    BY DEF Lockstep, WorldRuns, Writers
  <1>5. QED
    BY <1>1, <1>2, <1>3, <1>4

\* A statement that moves on without a write, a store lock or a comparison.
LEMMA GotoStore ==
    ASSUME TypeInv, StoreInv, NEW w \in Writers, NEW step \in Statements, Goto(w, step),
           UNCHANGED <<storeLocks, committed>>,
           \A v \in Writers : v # w => expected'[v] = expected[v],
           w \in Requests /\ step \in Checked =>
               pc[w] \in Checked /\ expected'[w] = expected[w],
           w \in Appliers => step # "commit",
           pc[w] # "committed"
    PROVE  StoreInv'
  <1> USE DEF TypeInv, TypeOK, StoreInv, Goto, committed
  <1>1. CheckHolds'
    BY DEF CheckHolds, Touched, Writers
  <1>2. SyncHolds'
    BY DEF SyncHolds, Writers
  <1>3. StoreLocksDisjoint'
    BY DEF StoreLocksDisjoint
  <1>4. Lockstep'
    BY DEF Lockstep, WorldRuns, Writers
  <1>5. QED
    BY <1>1, <1>2, <1>3, <1>4

LEMMA SaveRowStore ==
    ASSUME TypeInv, StoreInv, NEW w \in Writers, NEW after \in {"commit", "sync"},
           w \in Appliers => after # "commit",
           SaveRow(w, after)
    PROVE  StoreInv'
  <1> USE DEF SaveRow, Runs
  <1>1. CASE Writes[w] = rowLocks[w]
    BY <1>1, GotoStore DEF locks, Checked, Statements
  <1>2. CASE /\ Writes[w] # rowLocks[w]
             /\ rows[NextRow(w)] # expected[w][NextRow(w)]
    BY <1>2, EndStore DEF Ended
  <1>3. CASE /\ Writes[w] # rowLocks[w]
             /\ rows[NextRow(w)] = expected[w][NextRow(w)]
    BY <1>3 DEF StoreInv, CheckHolds, SyncHolds, StoreLocksDisjoint, Lockstep,
                WorldRuns, Touched, committed
  <1>4. QED
    BY <1>1, <1>2, <1>3

LEMMA AppendStore ==
    ASSUME TypeInv, StoreInv, NEW w \in Writers, NEW after \in {"project", "read"},
           AppendEvent(w, after)
    PROVE  StoreInv'
  <1>1. CASE \E e \in events : e.seq = number[w]
    BY <1>1, EndStore DEF AppendEvent, Runs, Ended
  <1>2. CASE ~\E e \in events : e.seq = number[w]
    BY <1>2, GotoStore DEF AppendEvent, Runs, locks, Checked, Statements
  <1>3. QED
    BY <1>1, <1>2

LEMMA NumberStore ==
    ASSUME TypeInv, StoreInv, NEW w \in Writers, TakeNumber(w, "append")
    PROVE  StoreInv'
  BY GotoStore DEF TakeNumber, locks, Checked, Statements

LEMMA RequestStore ==
    ASSUME TypeInv, StoreInv, NEW r \in Requests, RequestStep(r)
    PROVE  StoreInv'
  <1> r \in Writers /\ r \notin Appliers /\ r \notin Enders
    BY CommitAssumption DEF Writers
  <1>1. CASE Prepare(r)
    <2>1. \A v \in Writers : v # r => expected'[v] = expected[v]
      BY <1>1 DEF Prepare, TypeInv, TypeOK
    <2>2. QED
      BY <1>1, <2>1, GotoStore DEF Prepare, locks, Checked, Statements
  <1>2. CASE Lookup(r)
    BY <1>2, GotoStore DEF Lookup, locks, Checked, Statements, Ended
  <1>3. CASE Insert(r)
    BY <1>3, GotoStore DEF Insert, Runs, locks, Checked, Statements
  <1>4. CASE LockStore(r)
    <2>1. \A v \in Writers \ {r} : NextLock(r) \notin storeLocks[v]
      BY <1>4 DEF LockStore, Runs, Blockers
    <2>2. StoreLocksDisjoint'
      BY <1>4, <2>1 DEF LockStore, StoreInv, StoreLocksDisjoint, TypeInv, TypeOK
    <2>3. CheckHolds'
      BY <1>4 DEF LockStore, Runs, StoreInv, CheckHolds, Checked, Touched,
                  TypeInv, TypeOK, committed
    <2>4. SyncHolds' /\ Lockstep'
      BY <1>4 DEF LockStore, StoreInv, SyncHolds, Lockstep, WorldRuns,
                  TypeInv, TypeOK, committed
    <2>5. QED
      BY <2>2, <2>3, <2>4 DEF StoreInv
  <1>5. CASE Check(r)
    <2>1. CASE \A a \in Touched(r) : store[a] = expected[r][a]
      <3> USE <1>5, <2>1 DEF Check, Runs, Goto, locks, committed, TypeInv, TypeOK, StoreInv
      <3>1. CheckHolds'
        BY DEF CheckHolds, Touched, Writers
      <3>2. SyncHolds' /\ StoreLocksDisjoint' /\ Lockstep'
        BY DEF SyncHolds, StoreLocksDisjoint, Lockstep, WorldRuns, Writers
      <3>3. QED
        BY <3>1, <3>2
    <2>2. CASE ~\A a \in Touched(r) : store[a] = expected[r][a]
      BY <1>5, <2>2, EndStore DEF Check, Runs, Ended
    <2>3. QED
      BY <2>1, <2>2
  <1>6. CASE TakeNumber(r, "append")
    BY <1>6, NumberStore
  <1>7. CASE AppendEvent(r, "project")
    BY <1>7, AppendStore
  <1>8. CASE SaveRow(r, "commit")
    BY <1>8, SaveRowStore
  <1>9. CASE Commit(r)
    <2>1. Writes[r] \subseteq storeLocks[r]
      BY <1>9 DEF Commit, StoreInv, CheckHolds, Checked, Touched
    <2>2. \A v \in Writers \ {r} : \A a \in storeLocks[v] \cap Aggregates : store'[a] = store[a]
      BY <1>9, <2>1 DEF Commit, StoreInv, StoreLocksDisjoint, Bumped
    <2>3. CheckHolds'
      <3> SUFFICES ASSUME NEW q \in Requests, pc'[q] \in Checked
                   PROVE  /\ storeLocks'[q] = Touched(q)
                          /\ \A a \in Touched(q) : store'[a] = expected'[q][a]
        BY DEF CheckHolds, Touched
      <3>1. q \in Writers \ {r} /\ pc[q] \in Checked /\ storeLocks'[q] = storeLocks[q]
        BY <1>9 DEF Commit, End, Goto, Checked, Writers, TypeInv, TypeOK
      <3>2. Touched(q) \subseteq Aggregates
        BY <3>1, CommitAssumption DEF Touched
      <3>3. QED
        BY <1>9, <2>2, <3>1, <3>2 DEF Commit, StoreInv, CheckHolds
    <2>4. SyncHolds' /\ StoreLocksDisjoint'
      BY <1>9 DEF Commit, End, Goto, StoreInv, SyncHolds, StoreLocksDisjoint,
                  TypeInv, TypeOK, Writers
    <2>5. Lockstep'
      BY <1>9 DEF Commit, End, Goto, StoreInv, Lockstep, WorldRuns, Bumped,
                  TypeInv, TypeOK, Writers
    <2>6. QED
      BY <2>3, <2>4, <2>5 DEF StoreInv
  <1>10. QED
    BY <1>1, <1>2, <1>3, <1>4, <1>5, <1>6, <1>7, <1>8, <1>9 DEF RequestStep

LEMMA ApplierStore ==
    ASSUME TypeInv, StoreInv, NEW p \in Appliers, ApplierStep(p)
    PROVE  StoreInv'
  <1> p \in Writers /\ p \notin Requests /\ p \notin Enders
    BY CommitAssumption DEF Writers
  <1>1. CASE BeginFire(p)
    BY <1>1, GotoStore DEF BeginFire, locks, Statements
  <1>2. CASE TakeNumber(p, "append")
    BY <1>2, NumberStore
  <1>3. CASE AppendEvent(p, "read")
    BY <1>3, AppendStore
  <1>4. CASE ReadVictim(p)
    <2>1. \A v \in Writers : v # p => expected'[v] = expected[v]
      BY <1>4 DEF ReadVictim, TypeInv, TypeOK
    <2>2. QED
      BY <1>4, <2>1, GotoStore DEF ReadVictim, locks, Statements
  <1>5. CASE SaveRow(p, "sync")
    BY <1>5, SaveRowStore
  <1>6. CASE SyncVersion(p)
    <2> USE <1>6 DEF SyncVersion, Runs, Goto, committed, TypeInv, TypeOK, StoreInv
    <2>1. \A v \in Writers \ {p} : Writes[p] \cap storeLocks[v] = {}
      BY DEF Blockers
    <2>2. StoreLocksDisjoint'
      BY <2>1 DEF StoreLocksDisjoint
    <2>3. CheckHolds'
      BY DEF CheckHolds, Touched, Writers
    <2>4. SyncHolds' /\ Lockstep'
      BY DEF SyncHolds, Lockstep, WorldRuns, Writers
    <2>5. QED
      BY <2>2, <2>3, <2>4
  <1>7. CASE CommitFire(p)
    <2>1. Writes[p] = storeLocks[p]
      BY <1>7 DEF CommitFire, StoreInv, SyncHolds
    <2>2. \A v \in Writers \ {p} : \A a \in storeLocks[v] \cap Aggregates : store'[a] = store[a]
      BY <1>7, <2>1 DEF CommitFire, StoreInv, StoreLocksDisjoint, Bumped
    <2>3. CheckHolds'
      <3> SUFFICES ASSUME NEW q \in Requests, pc'[q] \in Checked
                   PROVE  /\ storeLocks'[q] = Touched(q)
                          /\ \A a \in Touched(q) : store'[a] = expected'[q][a]
        BY DEF CheckHolds, Touched
      <3>1. q \in Writers \ {p} /\ pc[q] \in Checked /\ storeLocks'[q] = storeLocks[q]
        BY <1>7 DEF CommitFire, End, Goto, Checked, Writers, TypeInv, TypeOK
      <3>2. Touched(q) \subseteq Aggregates
        BY <3>1, CommitAssumption DEF Touched
      <3>3. QED
        BY <1>7, <2>2, <3>1, <3>2 DEF CommitFire, StoreInv, CheckHolds
    <2>4. SyncHolds' /\ StoreLocksDisjoint'
      BY <1>7 DEF CommitFire, End, Goto, StoreInv, SyncHolds, StoreLocksDisjoint,
                  TypeInv, TypeOK, Writers
    <2>5. Lockstep'
      BY <1>7 DEF CommitFire, End, Goto, StoreInv, Lockstep, WorldRuns, Bumped,
                  TypeInv, TypeOK, Writers
    <2>6. QED
      BY <2>3, <2>4, <2>5 DEF StoreInv
  <1>8. QED
    BY <1>1, <1>2, <1>3, <1>4, <1>5, <1>6, <1>7 DEF ApplierStep

LEMMA EnderStore ==
    ASSUME TypeInv, StoreInv, NEW e \in Enders, EnderStep(e)
    PROVE  StoreInv'
  <1> e \in Writers /\ e \notin Requests /\ e \notin Appliers
    BY CommitAssumption DEF Writers
  <1>1. CASE ReadWorld(e)
    <2>1. \A v \in Writers : v # e => expected'[v] = expected[v]
      BY <1>1 DEF ReadWorld, TypeInv, TypeOK
    <2>2. QED
      BY <1>1, <2>1, GotoStore DEF ReadWorld, locks, Statements
  <1>2. CASE TakeNumber(e, "append")
    BY <1>2, NumberStore
  <1>3. CASE AppendEvent(e, "project")
    BY <1>3, AppendStore
  <1>4. CASE SaveRow(e, "commit")
    BY <1>4, SaveRowStore
  <1>5. CASE CommitEnding(e)
    <2> USE <1>5 DEF CommitEnding, End, Goto, StoreInv, TypeInv, TypeOK
    <2>1. CheckHolds'
      BY DEF CheckHolds, Touched, Writers
    <2>2. SyncHolds' /\ StoreLocksDisjoint'
      BY DEF SyncHolds, StoreLocksDisjoint, Writers
    <2>3. ~WorldRuns'
      BY DEF WorldRuns
    <2>4. QED
      BY <2>1, <2>2, <2>3 DEF Lockstep
  <1>6. QED
    BY <1>1, <1>2, <1>3, <1>4, <1>5 DEF EnderStep

LEMMA NextStore == TypeInv /\ StoreInv /\ [Next]_vars => StoreInv'
  <1> SUFFICES ASSUME TypeInv, StoreInv, [Next]_vars PROVE StoreInv'
    OBVIOUS
  <1>1. CASE \E r \in Requests : RequestStep(r)
    BY <1>1, RequestStore
  <1>2. CASE \E r \in Requests : Retry(r)
    BY <1>2, CommitAssumption, GotoStore DEF Retry, Statements, Writers, locks, Checked
  <1>3. CASE \E p \in Appliers : ApplierStep(p)
    BY <1>3, ApplierStore
  <1>4. CASE \E e \in Enders : EnderStep(e)
    BY <1>4, EnderStore
  <1>5. CASE \E w \in Writers : Abort(w) \/ BreakRing(w)
    BY <1>5, RingWaits, EndStore DEF Abort, BreakRing, Ended
  <1>6. CASE UNCHANGED vars
    BY <1>6 DEF vars, StoreInv, CheckHolds, SyncHolds, StoreLocksDisjoint, Lockstep,
                WorldRuns, Touched
  <1>7. QED
    BY <1>1, <1>2, <1>3, <1>4, <1>5, <1>6 DEF Next

LEMMA AlwaysStoreInv == Spec => []StoreInv
  BY AlwaysTypeInv, InitStore, NextStore, PTL DEF Spec

\* Until the world has ended, every committed row has the version its store
\* entry says, whatever writers run and whichever of them die.
THEOREM LockstepHolds == Spec => []Lockstep
  BY AlwaysStoreInv, PTL DEF StoreInv

\* What versions.check accepted cannot be refused by a row of a world that
\* runs: the locks keep every other writer away from both.
THEOREM CheckedCommitsLandHolds == Spec => []CheckedCommitsLand
  <1>1. StoreInv => CheckedCommitsLand
    BY DEF StoreInv, CheckHolds, Lockstep, CheckedCommitsLand, Checked, Touched
  <1>2. QED
    BY <1>1, AlwaysStoreInv, PTL

-----------------------------------------------------------------------------
(* The order of the locks                                                  *)

\* Among finitely many numbers there is a greatest.
LEMMA GreatestExists ==
    ASSUME NEW S, S \subseteq Nat, S # {}, IsFiniteSet(S)
    PROVE  \E n \in S : \A m \in S : m <= n
  <1> DEFINE Above(k) == {m \in S : k <= m}
             Tops == {Above(k) : k \in S}
  <1>1. Tops \subseteq FiniteSubsetsOf(S) /\ Tops # {}
    <2>1. ASSUME NEW k \in S PROVE Above(k) \in FiniteSubsetsOf(S)
      <3>1. Above(k) \subseteq S
        OBVIOUS
      <3>2. QED
        BY <3>1, FS_Subset DEF FiniteSubsetsOf
    <2>2. QED
      BY <2>1
  <1>2. IsWellFoundedOn(StrictSubsetOrdering(S), FiniteSubsetsOf(S))
    BY FS_StrictSubsetOrderingWellFounded
  <1> HIDE DEF Tops
  <1>3. PICK D \in Tops : \A E \in Tops : ~(<<E, D>> \in StrictSubsetOrdering(S))
    BY <1>1, <1>2, WFMin
  <1>4. PICK n \in S : D = Above(n)
    BY DEF Tops
  <1>5. ASSUME NEW m \in S, n < m PROVE FALSE
    <2>1. Above(m) \in Tops
      BY DEF Tops
    <2>2. Above(m) \subseteq Above(n) /\ n \in Above(n) /\ n \notin Above(m) /\ Above(n) \subseteq S
      <3>1. n \in Nat /\ m \in Nat /\ \A k \in S : k \in Nat
        OBVIOUS
      <3>2. n \in Above(n) /\ n \notin Above(m)
        BY <1>5, <3>1
      <3>3. \A k \in S : m <= k => n <= k
        BY <1>5, <3>1
      <3>4. QED
        BY <3>2, <3>3
    <2>3. <<Above(m), Above(n)>> \in StrictSubsetOrdering(S)
      BY <2>2 DEF StrictSubsetOrdering
    <2>4. QED
      BY <1>3, <1>4, <2>1, <2>3
  <1>6. QED
    BY <1>5

\* What a request has locked comes before what it has still to lock.
OrderInv ==
    \A r \in Requests : \A a \in storeLocks[r], b \in Touched(r) \ storeLocks[r] : a < b

LEMMA StepLocks ==
    ASSUME TypeInv, [Next]_vars, NEW r \in Requests
    PROVE  \/ storeLocks'[r] \in {storeLocks[r], {}}
           \/ LockStore(r)
  <1> USE DEF TypeInv, TypeOK, Writers
  <1>1. ASSUME NEW w \in Writers, NEW how, End(w, how)
        PROVE  storeLocks'[r] \in {storeLocks[r], {}}
    BY <1>1 DEF End
  <1>2. ASSUME NEW w \in Writers, NEW after, SaveRow(w, after) \/ AppendEvent(w, after)
        PROVE  storeLocks'[r] \in {storeLocks[r], {}}
    BY <1>1, <1>2 DEF SaveRow, AppendEvent, locks
  <1>3. CASE \E q \in Requests : RequestStep(q) \/ Retry(q)
    <2> PICK q \in Requests : RequestStep(q) \/ Retry(q)
      BY <1>3
    <2>1. CASE LockStore(q)
      BY <2>1 DEF LockStore
    <2>2. CASE Check(q) \/ Commit(q)
      BY <2>2, <1>1 DEF Check, Commit, locks
    <2>3. CASE SaveRow(q, "commit") \/ AppendEvent(q, "project")
      BY <2>3, <1>2
    <2>4. CASE Prepare(q) \/ Lookup(q) \/ Insert(q) \/ TakeNumber(q, "append") \/ Retry(q)
      BY <2>4 DEF Prepare, Lookup, Insert, TakeNumber, Retry, locks
    <2>5. QED
      BY <2>1, <2>2, <2>3, <2>4 DEF RequestStep
  <1>4. CASE \E p \in Appliers : ApplierStep(p)
    <2> PICK p \in Appliers : ApplierStep(p)
      BY <1>4
    <2>1. CASE SyncVersion(p)
      BY <2>1, CommitAssumption DEF SyncVersion
    <2>2. CASE SaveRow(p, "sync") \/ AppendEvent(p, "read")
      BY <2>2, <1>2
    <2>3. CASE CommitFire(p)
      BY <2>3, <1>1 DEF CommitFire
    <2>4. CASE BeginFire(p) \/ TakeNumber(p, "append") \/ ReadVictim(p)
      BY <2>4 DEF BeginFire, TakeNumber, ReadVictim, locks
    <2>5. QED
      BY <2>1, <2>2, <2>3, <2>4 DEF ApplierStep
  <1>5. CASE \E e \in Enders : EnderStep(e)
    <2> PICK e \in Enders : EnderStep(e)
      BY <1>5
    <2>1. CASE SaveRow(e, "commit") \/ AppendEvent(e, "project")
      BY <2>1, <1>2
    <2>2. CASE CommitEnding(e)
      BY <2>2, <1>1 DEF CommitEnding
    <2>3. CASE ReadWorld(e) \/ TakeNumber(e, "append")
      BY <2>3 DEF ReadWorld, TakeNumber, locks
    <2>4. QED
      BY <2>1, <2>2, <2>3 DEF EnderStep
  <1>6. CASE \E w \in Writers : Abort(w) \/ BreakRing(w)
    BY <1>6, <1>1 DEF Abort, BreakRing
  <1>7. CASE UNCHANGED vars
    BY <1>7 DEF vars
  <1>8. QED
    BY <1>3, <1>4, <1>5, <1>6, <1>7 DEF Next

LEMMA LockKeepsOrder ==
    ASSUME TypeInv, OrderInv, NEW r \in Requests, LockStore(r)
    PROVE  \A a \in storeLocks'[r], b \in Touched(r) \ storeLocks'[r] : a < b
  <1> DEFINE left == Touched(r) \ storeLocks[r]
  <1>1. r \in Writers /\ Touched(r) \subseteq Aggregates /\ Aggregates \subseteq Nat
    BY CommitAssumption DEF Touched, Writers
  <1>2. storeLocks[r] \subseteq Touched(r) /\ left # {}
    BY <1>1 DEF LockStore, TypeInv, LocksWithin
  <1>3. NextLock(r) \in left /\ \A b \in left : NextLock(r) <= b
    BY <1>1, <1>2, LeastExists DEF NextLock, Lowest
  <1>4. storeLocks'[r] = storeLocks[r] \cup {NextLock(r)}
    BY <1>1 DEF LockStore, TypeInv, TypeOK
  <1>5. \A a \in storeLocks[r], b \in left : a < b
    BY DEF OrderInv
  <1>6. left \subseteq Nat
    BY <1>1
  <1>7. QED
    BY <1>3, <1>4, <1>5, <1>6

LEMMA NextOrder == TypeInv /\ OrderInv /\ [Next]_vars => OrderInv'
  <1> SUFFICES ASSUME TypeInv, OrderInv, [Next]_vars, NEW r \in Requests
               PROVE  \A a \in storeLocks'[r], b \in Touched(r) \ storeLocks'[r] : a < b
    BY DEF OrderInv, Touched
  <1>1. CASE storeLocks'[r] \in {storeLocks[r], {}}
    BY <1>1 DEF OrderInv
  <1>2. CASE LockStore(r)
    BY <1>2, LockKeepsOrder
  <1>3. QED
    BY <1>1, <1>2, StepLocks

\* The one that waits for the greatest entry waits for nobody who waits.
LEMMA NoRingOfLocks == TypeInv /\ OrderInv => StoreLocksSerialize
  <1> SUFFICES ASSUME TypeInv, OrderInv, NEW C \in Rings, C \subseteq Requests,
                      \A r \in C : pc[r] = "lock"
               PROVE  FALSE
    BY DEF StoreLocksSerialize
  <1> DEFINE wanted == {NextLock(r) : r \in C}
  <1>1. C # {} /\ \A r \in C : Blockers(r) \cap C # {}
    BY DEF Rings
  <1>2. ASSUME NEW r \in C
        PROVE  /\ NextLock(r) \in Touched(r) \ storeLocks[r]
               /\ NextLock(r) \in Aggregates
               /\ \E v \in C : NextLock(r) \in storeLocks[v]
    <2>1. PICK v \in C : v \in Blockers(r)
      BY <1>1
    <2>2. Touched(r) # storeLocks[r] /\ NextLock(r) \in storeLocks[v]
      BY <2>1 DEF Blockers
    <2>3. r \in Writers /\ Touched(r) \subseteq Aggregates /\ Aggregates \subseteq Nat
      BY CommitAssumption DEF Touched, Writers
    <2>4. storeLocks[r] \subseteq Touched(r)
      BY <2>3 DEF TypeInv, LocksWithin
    <2>5. NextLock(r) \in Touched(r) \ storeLocks[r]
      BY <2>2, <2>3, <2>4, LowestIs DEF NextLock
    <2>6. QED
      BY <2>2, <2>3, <2>5
  <1>3. wanted \subseteq Aggregates /\ wanted # {}
    BY <1>1, <1>2
  <1>4. wanted \subseteq Nat /\ IsFiniteSet(wanted)
    BY <1>3, CommitAssumption, FS_Subset
  <1>5. PICK r \in C : \A q \in C : NextLock(q) <= NextLock(r)
    <2> HIDE DEF wanted
    <2>1. PICK n \in wanted : \A m \in wanted : m <= n
      BY <1>3, <1>4, GreatestExists
    <2>2. QED
      BY <2>1 DEF wanted
  <1>6. PICK v \in C : NextLock(r) \in storeLocks[v]
    BY <1>2
  <1>7. NextLock(r) < NextLock(v)
    BY <1>2, <1>6 DEF OrderInv
  <1>8. NextLock(v) <= NextLock(r) /\ NextLock(r) \in Nat /\ NextLock(v) \in Nat
    BY <1>2, <1>5, CommitAssumption
  <1>9. QED
    BY <1>7, <1>8

\* Requests never wait in a ring for each other's version store locks
\* (ports/repositories.py:60-63), whatever sets of aggregates they touch: each
\* locks in canonical order what it writes and what it only validates.
THEOREM StoreLocksSerializeHolds == Spec => []StoreLocksSerialize
  <1>1. Init => OrderInv
    BY DEF Init, OrderInv, Writers
  <1>2. QED
    BY <1>1, NextOrder, NoRingOfLocks, AlwaysTypeInv, PTL DEF Spec

-----------------------------------------------------------------------------
(* The projection rows                                                     *)

RowsHeld ==
    \A w \in Writers :
        /\ pc[w] \notin {"project", "sync", "commit"} => rowLocks[w] = {}
        /\ pc[w] \in {"sync", "commit"} => rowLocks[w] = Writes[w]
        /\ \A a \in rowLocks[w] : rows[a] = expected[w][a]

RowLocksDisjoint ==
    \A v, w \in Writers : v # w => rowLocks[v] \cap rowLocks[w] = {}

RowInv == RowsHeld /\ RowLocksDisjoint

LEMMA InitRow == Init => RowInv
  BY DEF Init, RowInv, RowsHeld, RowLocksDisjoint

LEMMA EndRow ==
    ASSUME TypeInv, RowInv, NEW w \in Writers, NEW how \in Ended, End(w, how),
           UNCHANGED <<expected, committed>>
    PROVE  RowInv'
  BY DEF TypeInv, TypeOK, RowInv, RowsHeld, RowLocksDisjoint, End, Goto, Ended, committed

LEMMA GotoRow ==
    ASSUME TypeInv, RowInv, NEW w \in Writers,
           NEW step \in Statements \ {"sync", "commit"}, Goto(w, step),
           pc[w] \notin {"project", "sync", "commit"},
           UNCHANGED <<rowLocks, committed>>,
           \A v \in Writers : v # w => expected'[v] = expected[v]
    PROVE  RowInv'
  BY DEF TypeInv, TypeOK, RowInv, RowsHeld, RowLocksDisjoint, Goto, committed

LEMMA SaveRowRow ==
    ASSUME TypeInv, RowInv, NEW w \in Writers, NEW after \in {"commit", "sync"},
           SaveRow(w, after)
    PROVE  RowInv'
  <1> USE DEF SaveRow, Runs
  <1>1. CASE Writes[w] = rowLocks[w]
    BY <1>1 DEF TypeInv, TypeOK, RowInv, RowsHeld, RowLocksDisjoint, Goto, committed, locks
  <1>2. CASE /\ Writes[w] # rowLocks[w]
             /\ rows[NextRow(w)] # expected[w][NextRow(w)]
    BY <1>2, EndRow DEF Ended
  <1>3. CASE /\ Writes[w] # rowLocks[w]
             /\ rows[NextRow(w)] = expected[w][NextRow(w)]
    <2>1. \A v \in Writers \ {w} : NextRow(w) \notin rowLocks[v]
      BY <1>3 DEF Blockers
    <2>2. rowLocks' = [rowLocks EXCEPT ![w] = @ \cup {NextRow(w)}]
      BY <1>3
    <2> HIDE DEF SaveRow
    <2>3. RowLocksDisjoint'
      BY <2>1, <2>2 DEF RowInv, RowLocksDisjoint, TypeInv, TypeOK
    <2>4. RowsHeld'
      BY <1>3, <2>2 DEF SaveRow, RowInv, RowsHeld, TypeInv, TypeOK, committed
    <2>5. QED
      BY <2>3, <2>4 DEF RowInv
  <1>4. QED
    BY <1>1, <1>2, <1>3

LEMMA AppendRow ==
    ASSUME TypeInv, RowInv, NEW w \in Writers, NEW after \in {"project", "read"},
           AppendEvent(w, after)
    PROVE  RowInv'
  <1>1. CASE \E e \in events : e.seq = number[w]
    BY <1>1, EndRow DEF AppendEvent, Ended
  <1>2. CASE ~\E e \in events : e.seq = number[w]
    BY <1>2, GotoRow DEF AppendEvent, Runs, locks, Statements
  <1>3. QED
    BY <1>1, <1>2

LEMMA NumberRow ==
    ASSUME TypeInv, RowInv, NEW w \in Writers, TakeNumber(w, "append")
    PROVE  RowInv'
  BY GotoRow DEF TakeNumber, locks, Statements

\* Every commit advances the rows its writer has locked.
LEMMA CommitRow ==
    ASSUME TypeInv, RowInv, NEW w \in Writers, pc[w] = "commit", End(w, "committed"),
           rows' = Bumped(rows, w, Writes[w]), UNCHANGED expected
    PROVE  RowInv'
  <1>1. rowLocks[w] = Writes[w]
    BY DEF RowInv, RowsHeld
  <1>2. \A v \in Writers \ {w} : \A a \in rowLocks[v] : rows'[a] = rows[a]
    BY <1>1 DEF RowInv, RowLocksDisjoint, Bumped, TypeInv, TypeOK
  <1>3. \A v \in Writers : rowLocks'[v] = IF v = w THEN {} ELSE rowLocks[v]
    BY DEF End, TypeInv, TypeOK
  <1>4. \A v \in Writers : pc'[v] = IF v = w THEN "committed" ELSE pc[v]
    BY DEF End, Goto, TypeInv, TypeOK
  <1>5. RowsHeld'
    BY <1>2, <1>3, <1>4 DEF RowInv, RowsHeld
  <1>6. RowLocksDisjoint'
    BY <1>3 DEF RowInv, RowLocksDisjoint
  <1>7. QED
    BY <1>5, <1>6 DEF RowInv

LEMMA RequestRow ==
    ASSUME TypeInv, RowInv, NEW r \in Requests, RequestStep(r)
    PROVE  RowInv'
  <1> r \in Writers
    BY DEF Writers
  <1>1. CASE Prepare(r)
    <2>1. \A v \in Writers : v # r => expected'[v] = expected[v]
      BY <1>1 DEF Prepare, TypeInv, TypeOK
    <2>2. QED
      BY <1>1, <2>1, GotoRow DEF Prepare, locks, Statements
  <1>2. CASE Lookup(r)
    BY <1>2, GotoRow DEF Lookup, locks, Statements, Ended
  <1>3. CASE Insert(r)
    BY <1>3, GotoRow DEF Insert, Runs, locks, Statements
  <1>4. CASE LockStore(r)
    BY <1>4 DEF LockStore, RowInv, RowsHeld, RowLocksDisjoint, committed
  <1>5. CASE Check(r)
    <2>1. CASE \A a \in Touched(r) : store[a] = expected[r][a]
      BY <1>5, <2>1, GotoRow DEF Check, Runs, locks, Statements
    <2>2. CASE ~\A a \in Touched(r) : store[a] = expected[r][a]
      BY <1>5, <2>2, EndRow DEF Check, Ended
    <2>3. QED
      BY <2>1, <2>2
  <1>6. CASE TakeNumber(r, "append")
    BY <1>6, NumberRow
  <1>7. CASE AppendEvent(r, "project")
    BY <1>7, AppendRow
  <1>8. CASE SaveRow(r, "commit")
    BY <1>8, SaveRowRow
  <1>9. CASE Commit(r)
    BY <1>9, CommitRow DEF Commit
  <1>10. QED
    BY <1>1, <1>2, <1>3, <1>4, <1>5, <1>6, <1>7, <1>8, <1>9 DEF RequestStep

LEMMA OtherRow ==
    ASSUME TypeInv, RowInv, NEW w \in Writers, ApplierStep(w) \/ EnderStep(w)
    PROVE  RowInv'
  <1>1. CASE BeginFire(w)
    BY <1>1, GotoRow DEF BeginFire, locks, Statements
  <1>2. CASE TakeNumber(w, "append")
    BY <1>2, NumberRow
  <1>3. CASE AppendEvent(w, "read") \/ AppendEvent(w, "project")
    BY <1>3, AppendRow
  <1>4. CASE ReadVictim(w)
    <2>1. \A v \in Writers : v # w => expected'[v] = expected[v]
      BY <1>4 DEF ReadVictim, TypeInv, TypeOK
    <2>2. QED
      BY <1>4, <2>1, GotoRow DEF ReadVictim, locks, Statements
  <1>5. CASE ReadWorld(w)
    <2>1. \A v \in Writers : v # w => expected'[v] = expected[v]
      BY <1>5 DEF ReadWorld, TypeInv, TypeOK
    <2>2. QED
      BY <1>5, <2>1, GotoRow DEF ReadWorld, locks, Statements
  <1>6. CASE SaveRow(w, "sync") \/ SaveRow(w, "commit")
    BY <1>6, SaveRowRow
  <1>7. CASE SyncVersion(w)
    BY <1>7 DEF SyncVersion, Runs, Goto, RowInv, RowsHeld, RowLocksDisjoint, committed,
                TypeInv, TypeOK
  <1>8. CASE CommitFire(w) \/ CommitEnding(w)
    BY <1>8, CommitRow DEF CommitFire, CommitEnding
  <1>9. QED
    BY <1>1, <1>2, <1>3, <1>4, <1>5, <1>6, <1>7, <1>8 DEF ApplierStep, EnderStep

LEMMA NextRowInv == TypeInv /\ RowInv /\ [Next]_vars => RowInv'
  <1> SUFFICES ASSUME TypeInv, RowInv, [Next]_vars PROVE RowInv'
    OBVIOUS
  <1>1. CASE \E r \in Requests : RequestStep(r)
    BY <1>1, RequestRow
  <1>2. CASE \E r \in Requests : Retry(r)
    BY <1>2, GotoRow DEF Retry, Statements, Writers, locks
  <1>3. CASE (\E p \in Appliers : ApplierStep(p)) \/ (\E e \in Enders : EnderStep(e))
    BY <1>3, OtherRow DEF Writers
  <1>4. CASE \E w \in Writers : Abort(w) \/ BreakRing(w)
    BY <1>4, EndRow DEF Abort, BreakRing, Ended
  <1>5. CASE UNCHANGED vars
    BY <1>5 DEF vars, RowInv, RowsHeld, RowLocksDisjoint
  <1>6. QED
    BY <1>1, <1>2, <1>3, <1>4, <1>5 DEF Next

LEMMA AlwaysRowInv == Spec => []RowInv
  BY AlwaysTypeInv, InitRow, NextRowInv, PTL DEF Spec

-----------------------------------------------------------------------------
(* Event numbers                                                           *)

Appended == {"read", "project", "sync", "commit"}

\* The committed events fill 1..N, each number once; a number in use is free,
\* and only N + 1 can be appended, by one writer at a time.
NumberInv ==
    /\ IsFiniteSet(events)
    /\ {e.seq : e \in events} = 1..Cardinality(events)
    /\ \A e, f \in events : e.seq = f.seq => e = f
    /\ \A w \in Writers :
          /\ pc[w] = "append" => number[w] \in 1..(Cardinality(events) + 1)
          /\ pc[w] \in Appended => number[w] = Cardinality(events) + 1
    /\ \A v, w \in Writers : pc[v] \in Appended /\ pc[w] \in Appended => v = w

LEMMA InitNumber == Init => NumberInv
  <1> SUFFICES ASSUME Init PROVE NumberInv
    OBVIOUS
  <1>1. IsFiniteSet(events) /\ Cardinality(events) = 0
    BY FS_EmptySet DEF Init
  <1>2. {e.seq : e \in events} = 1..Cardinality(events)
    BY <1>1 DEF Init
  <1>3. QED
    BY <1>1, <1>2 DEF Init, NumberInv, Appended

\* Statements after which w has no number, or the number it had.
LEMMA KeepNumber ==
    ASSUME TypeInv, NumberInv, NEW w \in Writers, NEW step \in Statements,
           Goto(w, step), UNCHANGED <<number, events>>,
           step = "append" => pc[w] = "append",
           step \in Appended => pc[w] \in Appended
    PROVE  NumberInv'
  BY DEF TypeInv, TypeOK, NumberInv, Goto

LEMMA SaveRowNumber ==
    ASSUME TypeInv, NumberInv, NEW w \in Writers, NEW after \in {"commit", "sync"},
           SaveRow(w, after)
    PROVE  NumberInv'
  <1> USE DEF SaveRow, Runs, committed, Appended, Statements, Ended
  <1>1. CASE Writes[w] = rowLocks[w]
    BY <1>1, KeepNumber
  <1>2. CASE /\ Writes[w] # rowLocks[w]
             /\ rows[NextRow(w)] # expected[w][NextRow(w)]
    BY <1>2, KeepNumber DEF End
  <1>3. CASE /\ Writes[w] # rowLocks[w]
             /\ rows[NextRow(w)] = expected[w][NextRow(w)]
    BY <1>3 DEF NumberInv
  <1>4. QED
    BY <1>1, <1>2, <1>3

LEMMA TakeNumberNumber ==
    ASSUME TypeInv, NumberInv, NEW w \in Writers, TakeNumber(w, "append")
    PROVE  NumberInv'
  <1>1. Cardinality(events) \in Nat
    BY FS_CardinalityType DEF NumberInv
  <1>2. LastSequence = Cardinality(events)
    <2>1. CASE events = {}
      BY <2>1, FS_EmptySet DEF LastSequence
    <2>2. CASE events # {}
      <3>1. PICK e \in events : TRUE
        BY <2>2
      <3>2. e.seq \in 1..Cardinality(events)
        BY <3>1 DEF NumberInv
      <3>3. Cardinality(events) \in {f.seq : f \in events}
        BY <1>1, <3>2 DEF NumberInv
      <3>4. LastSequence \in 1..Cardinality(events)
        BY <2>2, LastSequenceIs DEF TypeInv, NumberInv
      <3>5. Cardinality(events) <= LastSequence
        BY <3>3, LastSequenceIs DEF TypeInv
      <3>6. QED
        BY <1>1, <3>4, <3>5
    <2>3. QED
      BY <2>1, <2>2
  <1>3. number' = [number EXCEPT ![w] = Cardinality(events) + 1]
    BY <1>2 DEF TakeNumber
  <1>4. QED
    BY <1>1, <1>3 DEF TakeNumber, Goto, NumberInv, Appended, TypeInv, TypeOK, committed

LEMMA AppendNumber ==
    ASSUME TypeInv, NumberInv, NEW w \in Writers, NEW after \in {"project", "read"},
           AppendEvent(w, after)
    PROVE  NumberInv'
  <1>1. CASE \E e \in events : e.seq = number[w]
    BY <1>1, KeepNumber DEF AppendEvent, End, Ended, Statements, Appended, committed
  <1>2. CASE ~\E e \in events : e.seq = number[w]
    <2>1. Cardinality(events) \in Nat
      BY FS_CardinalityType DEF NumberInv
    <2>2. number[w] = Cardinality(events) + 1
      <3>1. number[w] \in 1..(Cardinality(events) + 1)
        BY DEF AppendEvent, Runs, NumberInv
      <3>2. number[w] \notin 1..Cardinality(events)
        BY <1>2 DEF NumberInv
      <3>3. QED
        BY <2>1, <3>1, <3>2
    <2>3. \A v \in Writers : pc[v] \notin Appended
      <3>1. SUFFICES ASSUME NEW v \in Writers, pc[v] \in Appended PROVE FALSE
        OBVIOUS
      <3>2. v # w /\ number[w] \in AppendedNumber(v)
        BY <2>2, <3>1 DEF AppendEvent, Runs, NumberInv, AppendedNumber, Appended
      <3>3. v \in Blockers(w)
        BY <3>2 DEF AppendEvent, Runs, Blockers
      <3>4. QED
        BY <3>3 DEF AppendEvent, Runs
    <2>4. QED
      BY <1>2, <2>2, <2>3
         DEF AppendEvent, Runs, Goto, NumberInv, Appended, TypeInv, TypeOK, committed
  <1>3. QED
    BY <1>1, <1>2

LEMMA CommitNumber ==
    ASSUME TypeInv, NumberInv, NEW w \in Writers, pc[w] = "commit", Appends(w),
           End(w, "committed"), UNCHANGED number
    PROVE  /\ NumberInv'
           /\ number[w] = Cardinality(events) + 1
           /\ Cardinality(events) \in Nat
  <1> DEFINE N == Cardinality(events)
             new == [seq |-> number[w], by |-> w]
  <1>1. N \in Nat
    BY FS_CardinalityType DEF NumberInv
  <1>2. number[w] = N + 1
    BY DEF NumberInv, Appended
  <1>3. new \notin events
    <2>1. new.seq \notin {e.seq : e \in events}
      BY <1>1, <1>2 DEF NumberInv
    <2>2. QED
      BY <2>1
  <1>4. events' = events \cup {new}
    BY DEF Appends
  <1>5. IsFiniteSet(events') /\ Cardinality(events') = N + 1
    BY <1>3, <1>4, FS_AddElement DEF NumberInv
  <1>6. {e.seq : e \in events'} = 1..(N + 1)
    <2> new.seq = N + 1
      BY <1>2
    <2> HIDE DEF new
    <2>1. {e.seq : e \in events'} = {e.seq : e \in events} \cup {N + 1}
      BY <1>4
    <2>2. 1..(N + 1) = (1..N) \cup {N + 1}
      BY <1>1
    <2>3. QED
      BY <2>1, <2>2 DEF NumberInv
  <1>7. \A e, f \in events' : e.seq = f.seq => e = f
    <2>1. \A e \in events : e.seq # N + 1
      BY <1>1 DEF NumberInv
    <2>2. QED
      BY <1>2, <1>4, <2>1 DEF NumberInv
  <1>8. \A v \in Writers : pc'[v] = IF v = w THEN "committed" ELSE pc[v]
    BY DEF End, Goto, TypeInv, TypeOK
  <1>9. \A v \in Writers : pc'[v] = "append" => number'[v] \in 1..(N + 2)
    <2>1. \A v \in Writers : pc[v] = "append" => number[v] \in 1..(N + 1)
      BY DEF NumberInv
    <2>2. 1..(N + 1) \subseteq 1..(N + 2)
      BY <1>1
    <2>3. QED
      BY <1>8, <2>1, <2>2
  <1>10. \A v \in Writers : pc'[v] \notin Appended
    BY <1>8 DEF NumberInv, Appended
  <1>11. Cardinality(events') + 1 = N + 2
    BY <1>1, <1>5
  <1> HIDE DEF N, new
  <1>12. NumberInv'
    BY <1>5, <1>6, <1>7, <1>9, <1>10, <1>11 DEF NumberInv
  <1>13. QED
    BY <1>1, <1>2, <1>12 DEF N

LEMMA RequestNumber ==
    ASSUME TypeInv, NumberInv, NEW r \in Requests, RequestStep(r)
    PROVE  NumberInv'
  <1> r \in Writers
    BY DEF Writers
  <1>1. CASE Prepare(r) \/ Lookup(r) \/ Insert(r)
    BY <1>1, KeepNumber DEF Prepare, Lookup, Insert, Appended, Statements, Ended, committed
  <1>2. CASE LockStore(r)
    BY <1>2 DEF LockStore, NumberInv, committed
  <1>3. CASE Check(r)
    BY <1>3, KeepNumber DEF Check, End, Appended, Statements, Ended, committed
  <1>4. CASE TakeNumber(r, "append")
    BY <1>4, TakeNumberNumber
  <1>5. CASE AppendEvent(r, "project")
    BY <1>5, AppendNumber
  <1>6. CASE SaveRow(r, "commit")
    BY <1>6, SaveRowNumber
  <1>7. CASE Commit(r)
    BY <1>7, CommitNumber DEF Commit, Appends
  <1>8. QED
    BY <1>1, <1>2, <1>3, <1>4, <1>5, <1>6, <1>7 DEF RequestStep

LEMMA OtherNumber ==
    ASSUME TypeInv, NumberInv, NEW w \in Writers, ApplierStep(w) \/ EnderStep(w)
    PROVE  NumberInv'
  <1>1. CASE BeginFire(w) \/ ReadVictim(w) \/ ReadWorld(w)
    BY <1>1, KeepNumber DEF BeginFire, ReadVictim, ReadWorld, Appended, Statements, committed
  <1>2. CASE SyncVersion(w)
    BY <1>2, KeepNumber DEF SyncVersion, Runs, Appended, Statements, committed
  <1>3. CASE TakeNumber(w, "append")
    BY <1>3, TakeNumberNumber
  <1>4. CASE AppendEvent(w, "read") \/ AppendEvent(w, "project")
    BY <1>4, AppendNumber
  <1>5. CASE SaveRow(w, "sync") \/ SaveRow(w, "commit")
    BY <1>5, SaveRowNumber
  <1>6. CASE CommitFire(w) \/ CommitEnding(w)
    BY <1>6, CommitNumber DEF CommitFire, CommitEnding, Appends
  <1>7. QED
    BY <1>1, <1>2, <1>3, <1>4, <1>5, <1>6 DEF ApplierStep, EnderStep

LEMMA NextNumber == TypeInv /\ NumberInv /\ [Next]_vars => NumberInv'
  <1> SUFFICES ASSUME TypeInv, NumberInv, [Next]_vars PROVE NumberInv'
    OBVIOUS
  <1>1. CASE \E r \in Requests : RequestStep(r)
    BY <1>1, RequestNumber
  <1>2. CASE \E r \in Requests : Retry(r)
    BY <1>2, KeepNumber DEF Retry, Statements, Writers, Appended, committed
  <1>3. CASE (\E p \in Appliers : ApplierStep(p)) \/ (\E e \in Enders : EnderStep(e))
    BY <1>3, OtherNumber DEF Writers
  <1>4. CASE \E w \in Writers : Abort(w) \/ BreakRing(w)
    BY <1>4, KeepNumber DEF Abort, BreakRing, End, Ended, Statements, Appended, committed
  <1>5. CASE UNCHANGED vars
    BY <1>5 DEF vars, NumberInv
  <1>6. QED
    BY <1>1, <1>2, <1>3, <1>4, <1>5 DEF Next

LEMMA AlwaysNumberInv == Spec => []NumberInv
  BY AlwaysTypeInv, InitNumber, NextNumber, PTL DEF Spec

\* max_sequence and append_event are two statements, yet the history of a world
\* has no gap and no double, however many writers number their events at once.
THEOREM SequenceIsDenseHolds == Spec => []SequenceIsDense
  BY AlwaysNumberInv, PTL DEF NumberInv, SequenceIsDense

-----------------------------------------------------------------------------
(* Idempotency keys                                                        *)

Inserting == {"lock", "number", "append", "project", "commit"}

KeyInv ==
    \* A request that inserted its key is the only one, and the first.
    /\ \A r \in Requests : pc[r] \in Inserting => commands[KeyOf[r]] = NoWriter
    /\ \A q, r \in Requests :
          pc[q] \in Inserting /\ pc[r] \in Inserting /\ KeyOf[q] = KeyOf[r] => q = r
    \* Commands and the events of requests belong to each other.
    /\ \A e \in events : e.by \in Requests => commands[KeyOf[e.by]] = e.by
    /\ \A k \in Keys : commands[k] # NoWriter =>
          KeyOf[commands[k]] = k /\ \E e \in events : e.by = commands[k]
    /\ \A e, f \in events : e.by = f.by /\ e.by \in Requests => e = f

LEMMA InitKey == Init => KeyInv
  BY CommitAssumption DEF Init, KeyInv, Inserting, Writers

\* Statements that insert no key.
LEMMA KeepKey ==
    ASSUME TypeInv, KeyInv, NEW w \in Writers, NEW step \in Statements,
           Goto(w, step), UNCHANGED <<commands, events>>,
           w \in Requests /\ step \in Inserting => pc[w] \in Inserting
    PROVE  KeyInv'
  BY DEF TypeInv, TypeOK, KeyInv, Goto, Writers

LEMMA SaveRowKey ==
    ASSUME TypeInv, KeyInv, NEW w \in Writers, NEW after \in {"commit", "sync"},
           SaveRow(w, after)
    PROVE  KeyInv'
  <1> USE DEF SaveRow, Runs, committed, Inserting, Statements, Ended
  <1>1. CASE Writes[w] = rowLocks[w]
    BY <1>1, KeepKey
  <1>2. CASE /\ Writes[w] # rowLocks[w]
             /\ rows[NextRow(w)] # expected[w][NextRow(w)]
    BY <1>2, KeepKey DEF End
  <1>3. CASE /\ Writes[w] # rowLocks[w]
             /\ rows[NextRow(w)] = expected[w][NextRow(w)]
    BY <1>3 DEF KeyInv
  <1>4. QED
    BY <1>1, <1>2, <1>3

LEMMA NumberKey ==
    ASSUME TypeInv, KeyInv, NEW w \in Writers, NEW after \in {"project", "read"},
           TakeNumber(w, "append") \/ AppendEvent(w, after)
    PROVE  KeyInv'
  BY KeepKey DEF TakeNumber, AppendEvent, Runs, End, Inserting, Statements, Ended, committed

LEMMA InsertKey ==
    ASSUME TypeInv, KeyInv, NEW r \in Requests, Insert(r)
    PROVE  KeyInv'
  <1> r \in Writers
    BY DEF Writers
  <1>1. CASE commands[KeyOf[r]] # NoWriter
    BY <1>1, KeepKey DEF Insert, Inserting, Statements, committed
  <1>2. CASE commands[KeyOf[r]] = NoWriter
    <2>1. \A q \in Requests \ {r} : pc[q] \in Inserting => KeyOf[q] # KeyOf[r]
      <3>1. SUFFICES ASSUME NEW q \in Requests \ {r}, pc[q] \in Inserting, KeyOf[q] = KeyOf[r]
                     PROVE  FALSE
        OBVIOUS
      <3>2. q \in Blockers(r)
        BY <3>1 DEF Insert, Runs, Blockers, InsertedKey, Inserting, Writers
      <3>3. QED
        BY <3>2 DEF Insert, Runs
    <2>2. \A q \in Requests : pc'[q] = IF q = r THEN "lock" ELSE pc[q]
      BY <1>2 DEF Insert, Goto, TypeInv, TypeOK, Writers
    <2>3. commands' = commands /\ events' = events
      BY DEF Insert, committed
    <2>4. QED
      BY <1>2, <2>1, <2>2, <2>3 DEF KeyInv
  <1>3. QED
    BY <1>1, <1>2

LEMMA CommitKey ==
    ASSUME TypeInv, KeyInv, NEW r \in Requests, Commit(r)
    PROVE  KeyInv'
  <1> DEFINE new == [seq |-> number[r], by |-> r]
  <1>1. r \in Writers /\ NoWriter \notin Requests /\ KeyOf \in [Requests -> Keys]
    BY CommitAssumption DEF Writers
  <1>2. commands[KeyOf[r]] = NoWriter
    BY DEF Commit, KeyInv, Inserting
  <1>3. \A q \in Requests \ {r} : pc[q] \in Inserting => KeyOf[q] # KeyOf[r]
    BY DEF Commit, KeyInv, Inserting
  <1>4. \A e \in events : e.by \in Requests => KeyOf[e.by] # KeyOf[r]
    BY <1>1, <1>2 DEF KeyInv
  <1>5. \A q \in Requests : pc'[q] = IF q = r THEN "committed" ELSE pc[q]
    BY <1>1 DEF Commit, End, Goto, TypeInv, TypeOK, Writers
  <1>6. \A k \in Keys : commands'[k] = IF k = KeyOf[r] THEN r ELSE commands[k]
    BY <1>1 DEF Commit, TypeInv, TypeOK
  <1>7. events' = events \cup {new} /\ new.by = r
    BY DEF Commit
  <1> HIDE DEF new
  <1>8. \A q \in Requests : pc'[q] \in Inserting => commands'[KeyOf[q]] = NoWriter
    BY <1>1, <1>3, <1>5, <1>6 DEF KeyInv, Inserting
  <1>9. \A p, q \in Requests :
           pc'[p] \in Inserting /\ pc'[q] \in Inserting /\ KeyOf[p] = KeyOf[q] => p = q
    BY <1>5 DEF KeyInv, Inserting
  <1>10. \A e \in events' : e.by \in Requests => commands'[KeyOf[e.by]] = e.by
    BY <1>1, <1>4, <1>6, <1>7 DEF KeyInv
  <1>11. \A k \in Keys : commands'[k] # NoWriter =>
            KeyOf[commands'[k]] = k /\ \E e \in events' : e.by = commands'[k]
    BY <1>1, <1>6, <1>7 DEF KeyInv
  <1>12. \A e, f \in events' : e.by = f.by /\ e.by \in Requests => e = f
    BY <1>4, <1>7 DEF KeyInv
  <1>13. QED
    BY <1>8, <1>9, <1>10, <1>11, <1>12 DEF KeyInv

\* Events of the other writers answer no request.
LEMMA OtherCommitKey ==
    ASSUME TypeInv, KeyInv, NEW w \in Writers \ Requests, Appends(w),
           End(w, "committed"), UNCHANGED commands
    PROVE  KeyInv'
  <1> DEFINE new == [seq |-> number[w], by |-> w]
  <1>1. events' = events \cup {new} /\ new.by \notin Requests
    BY DEF Appends
  <1>2. \A q \in Requests : pc'[q] = pc[q]
    BY DEF End, Goto, TypeInv, TypeOK, Writers
  <1> HIDE DEF new
  <1>3. QED
    BY <1>1, <1>2 DEF KeyInv

LEMMA NextKey == TypeInv /\ KeyInv /\ [Next]_vars => KeyInv'
  <1> SUFFICES ASSUME TypeInv, KeyInv, [Next]_vars PROVE KeyInv'
    OBVIOUS
  <1>1. ASSUME NEW r \in Requests, RequestStep(r) \/ Retry(r)
        PROVE  KeyInv'
    <2> r \in Writers
      BY DEF Writers
    <2>1. CASE Prepare(r) \/ Lookup(r) \/ Retry(r)
      BY <2>1, KeepKey DEF Prepare, Lookup, Retry, Inserting, Statements, Ended, committed
    <2>2. CASE Insert(r)
      BY <2>2, InsertKey
    <2>3. CASE LockStore(r)
      BY <2>3 DEF LockStore, KeyInv, committed
    <2>4. CASE Check(r)
      BY <2>4, KeepKey DEF Check, Runs, End, Inserting, Statements, Ended, committed
    <2>5. CASE TakeNumber(r, "append") \/ AppendEvent(r, "project")
      BY <2>5, NumberKey
    <2>6. CASE SaveRow(r, "commit")
      BY <2>6, SaveRowKey
    <2>7. CASE Commit(r)
      BY <2>7, CommitKey
    <2>8. QED
      BY <1>1, <2>1, <2>2, <2>3, <2>4, <2>5, <2>6, <2>7 DEF RequestStep
  <1>2. ASSUME NEW w \in Appliers \cup Enders, ApplierStep(w) \/ EnderStep(w)
        PROVE  KeyInv'
    <2> w \in Writers \ Requests
      BY CommitAssumption DEF Writers
    <2>1. CASE BeginFire(w) \/ ReadVictim(w) \/ SyncVersion(w) \/ ReadWorld(w)
      BY <2>1, KeepKey DEF BeginFire, ReadVictim, SyncVersion, ReadWorld, Statements, committed
    <2>2. CASE TakeNumber(w, "append") \/ AppendEvent(w, "read") \/ AppendEvent(w, "project")
      BY <2>2, NumberKey
    <2>3. CASE SaveRow(w, "sync") \/ SaveRow(w, "commit")
      BY <2>3, SaveRowKey
    <2>4. CASE CommitFire(w) \/ CommitEnding(w)
      BY <2>4, OtherCommitKey DEF CommitFire, CommitEnding, Appends
    <2>5. QED
      BY <1>2, <2>1, <2>2, <2>3, <2>4 DEF ApplierStep, EnderStep
  <1>3. CASE \E w \in Writers : Abort(w) \/ BreakRing(w)
    BY <1>3, KeepKey DEF Abort, BreakRing, End, Inserting, Statements, Ended, committed
  <1>4. CASE UNCHANGED vars
    BY <1>4 DEF vars, KeyInv
  <1>5. QED
    BY <1>1, <1>2, <1>3, <1>4 DEF Next

LEMMA AlwaysKeyInv == Spec => []KeyInv
  BY AlwaysTypeInv, InitKey, NextKey, PTL DEF Spec

LEMMA KeysOnce ==
    ASSUME TypeInv, KeyInv
    PROVE  ExactlyOnce
  <1> SUFFICES ASSUME NEW k \in Keys
               PROVE  LET own == {e \in events : e.by \in Requests /\ KeyOf[e.by] = k}
                      IN  IF commands[k] = NoWriter THEN own = {}
                          ELSE Cardinality(own) = 1 /\ \A e \in own : e.by = commands[k]
    BY DEF ExactlyOnce
  <1> DEFINE own == {e \in events : e.by \in Requests /\ KeyOf[e.by] = k}
  <1>1. NoWriter \notin Requests
    BY CommitAssumption DEF Writers
  <1>2. \A e \in own : e.by = commands[k]
    BY DEF KeyInv
  <1>3. CASE commands[k] = NoWriter
    BY <1>1, <1>2, <1>3
  <1>4. CASE commands[k] # NoWriter
    <2>1. commands[k] \in Requests
      BY <1>4 DEF TypeInv, TypeOK
    <2>2. PICK e \in own : TRUE
      BY <1>4, <2>1 DEF KeyInv
    <2>3. own = {e}
      BY <1>2, <2>2 DEF KeyInv
    <2>4. Cardinality(own) = 1
      BY <2>3, FS_Singleton
    <2>5. QED
      BY <1>2, <1>4, <2>4
  <1>5. QED
    BY <1>3, <1>4

\* However often a command is sent, and by however many callers at once, its
\* key stands for one event of one of them.
THEOREM ExactlyOnceHolds == Spec => []ExactlyOnce
  BY AlwaysTypeInv, AlwaysKeyInv, KeysOnce, PTL

-----------------------------------------------------------------------------
(* The committed tables implement the serial ledger                        *)

Seqs == {e.seq : e \in events}
History == [n \in Seqs |-> (CHOOSE e \in events : e.seq = n).by]
Spent == {k \in Keys : commands[k] # NoWriter}
KeysOf == [w \in Writers |-> IF w \in Requests THEN {KeyOf[w]} ELSE {}]

\* One step of a writer that appends an event.
LEMMA CommitRefines ==
    ASSUME TypeInv, RowInv, NumberInv, NEW w \in Writers, pc[w] = "commit", Appends(w),
           End(w, "committed"), UNCHANGED number,
           rows' = Bumped(rows, w, Writes[w]),
           KeysOf[w] \cap Spent = {}, Spent' = Spent \cup KeysOf[w]
    PROVE  Serial!Write(w)
  <1> DEFINE N == Cardinality(events)
             new == [seq |-> number[w], by |-> w]
  <1>1. N \in Nat /\ new.seq = N + 1 /\ new.by = w /\ events' = events \cup {new}
    BY CommitNumber DEF Appends
  <1>2. Seqs = 1..N
    BY DEF NumberInv, Seqs
  <1> HIDE DEF N, new
  <1>3. DOMAIN History = Seqs
    BY DEF History
  <1>4. (CHOOSE n \in Seqs \cup {0} : \A m \in Seqs : m <= n) = N
    <2>1. N \in Seqs \cup {0} /\ \A m \in Seqs : m <= N
      BY <1>1, <1>2
    <2>2. \A n \in Seqs \cup {0} : (\A m \in Seqs : m <= n) => n = N
      BY <1>1, <1>2
    <2>3. QED
      BY <2>1, <2>2
  <1>5. Seqs' = Seqs \cup {N + 1}
    BY <1>1 DEF Seqs
  <1>6. History' = [n \in Seqs \cup {N + 1} |-> IF n = N + 1 THEN w ELSE History[n]]
    <2>1. (CHOOSE e \in events' : e.seq = N + 1).by = w
      <3>1. \A e \in events : e.seq # N + 1
        BY <1>1, <1>2 DEF Seqs
      <3>2. \A e \in events' : e.seq = N + 1 <=> e = new
        BY <1>1, <3>1
      <3>3. new \in events'
        BY <1>1
      <3>4. (CHOOSE e \in events' : e.seq = N + 1) = new
        BY <3>2, <3>3
      <3>5. QED
        BY <1>1, <3>4
    <2>2. ASSUME NEW n \in Seqs
          PROVE  (CHOOSE e \in events' : e.seq = n) = (CHOOSE e \in events : e.seq = n)
      <3>1. n # N + 1
        BY <1>1, <1>2
      <3>2. PICK f \in events : f.seq = n
        BY DEF Seqs
      <3>3. \A e \in events : e.seq = n <=> e = f
        BY <3>2 DEF NumberInv
      <3>4. \A e \in events' : e.seq = n <=> e = f
        BY <1>1, <3>1, <3>3
      <3>5. f \in events'
        BY <1>1
      <3>6. (CHOOSE e \in events : e.seq = n) = f
        BY <3>2, <3>3
      <3>7. (CHOOSE e \in events' : e.seq = n) = f
        BY <3>4, <3>5
      <3>8. QED
        BY <3>6, <3>7
    <2>3. N + 1 \notin Seqs
      BY <1>1, <1>2
    <2>4. History' = [n \in Seqs' |-> (CHOOSE e \in events' : e.seq = n).by]
      BY DEF History
    <2>5. \A n \in Seqs : History[n] = (CHOOSE e \in events : e.seq = n).by
      BY DEF History
    <2>6. ASSUME NEW n \in Seqs'
          PROVE  History'[n] = IF n = N + 1 THEN w ELSE History[n]
      <3>1. History'[n] = (CHOOSE e \in events' : e.seq = n).by
        BY <2>4
      <3>2. CASE n = N + 1
        BY <2>1, <3>1, <3>2
      <3>3. CASE n # N + 1
        <4>1. n \in Seqs
          BY <1>5, <3>3
        <4>2. (CHOOSE e \in events' : e.seq = n).by = (CHOOSE e \in events : e.seq = n).by
          BY <2>2, <4>1
        <4>3. QED
          BY <2>5, <3>1, <3>3, <4>1, <4>2
      <3>4. QED
        BY <3>2, <3>3
    <2>7. History' = [n \in Seqs' |-> History'[n]]
      BY <2>4
    <2>8. QED
      BY <1>5, <2>6, <2>7
  <1>7. rows' = [a \in Aggregates |-> IF a \in Writes[w] THEN rows[a] + 1 ELSE rows[a]]
    <2>1. \A a \in Writes[w] : rows[a] = expected[w][a]
      BY DEF RowInv, RowsHeld
    <2>2. QED
      BY <2>1 DEF Bumped
  <1>8. Serial!Last = N
    BY <1>3, <1>4 DEF Serial!Last, History, Seqs
  <1>9. History' = [n \in DOMAIN History \cup {Serial!Last + 1} |->
                       IF n = Serial!Last + 1 THEN w ELSE History[n]]
    BY <1>3, <1>6, <1>8
  <1>10. QED
    BY <1>7, <1>9 DEF Serial!Write, History, Spent, KeysOf, Seqs

\* Every other step leaves the committed tables alone.
LEMMA StepRefines ==
    ASSUME TypeInv, RowInv, NumberInv, KeyInv, [Next]_vars
    PROVE  [Serial!Next]_(Serial!vars)
  <1> DEFINE Silent == UNCHANGED <<rows, commands, events>>
  <1>1. Silent => UNCHANGED Serial!vars
    BY DEF Serial!vars
  <1>2. ASSUME NEW r \in Requests, Commit(r)
        PROVE  Serial!Write(r)
    <2>1. r \in Writers /\ KeyOf[r] \in Keys /\ NoWriter # r
      BY CommitAssumption DEF Writers
    <2>2. KeyOf[r] \notin Spent
      BY <1>2 DEF Commit, KeyInv, Inserting, Spent
    <2>3. Spent' = Spent \cup {KeyOf[r]}
      BY <1>2, <2>1 DEF Commit, Spent, TypeInv, TypeOK
    <2>4. KeysOf[r] = {KeyOf[r]}
      BY <2>1 DEF KeysOf
    <2>5. QED
      BY <1>2, <2>1, <2>2, <2>3, <2>4, CommitRefines DEF Commit, Appends
  <1>3. ASSUME NEW w \in Appliers \cup Enders, CommitFire(w) \/ CommitEnding(w)
        PROVE  Serial!Write(w)
    <2>1. w \in Writers /\ w \notin Requests
      BY CommitAssumption DEF Writers
    <2>2. KeysOf[w] = {} /\ Spent' = Spent
      BY <1>3, <2>1 DEF KeysOf, Spent, CommitFire, CommitEnding
    <2>3. QED
      BY <1>3, <2>1, <2>2, CommitRefines DEF CommitFire, CommitEnding, Appends
  <1>4. ASSUME NEW w \in Writers, NEW after, SaveRow(w, after) \/ TakeNumber(w, after)
               \/ AppendEvent(w, after)
        PROVE  Silent
    BY <1>4 DEF SaveRow, TakeNumber, AppendEvent, committed
  <1>5. ASSUME NEW r \in Requests,
               \/ Prepare(r) \/ Lookup(r) \/ Insert(r) \/ LockStore(r) \/ Check(r) \/ Retry(r)
        PROVE  Silent
    BY <1>5 DEF Prepare, Lookup, Insert, LockStore, Check, Retry, committed
  <1>6. ASSUME NEW w \in Appliers \cup Enders,
               BeginFire(w) \/ ReadVictim(w) \/ SyncVersion(w) \/ ReadWorld(w)
        PROVE  Silent
    BY <1>6 DEF BeginFire, ReadVictim, SyncVersion, ReadWorld, committed
  <1>7. ASSUME NEW w \in Writers, Abort(w) \/ BreakRing(w)
        PROVE  Silent
    BY <1>7 DEF Abort, BreakRing, committed
  <1>8. ASSUME UNCHANGED vars
        PROVE  Silent
    BY <1>8 DEF vars
  <1> HIDE DEF Silent
  <1>9. \A w \in Writers : Serial!Write(w) => Serial!Next
    BY DEF Serial!Next
  <1>10. ASSUME NEW r \in Requests, RequestStep(r)
         PROVE  Silent \/ Serial!Write(r)
    BY <1>2, <1>4, <1>5, <1>10 DEF RequestStep, Writers
  <1>11. ASSUME NEW w \in Appliers \cup Enders, ApplierStep(w) \/ EnderStep(w)
         PROVE  Silent \/ Serial!Write(w)
    BY <1>3, <1>4, <1>6, <1>11 DEF ApplierStep, EnderStep, Writers
  <1>12. Silent \/ Serial!Next
    <2>1. ASSUME NEW r \in Requests, RequestStep(r) \/ Retry(r)
          PROVE  Silent \/ Serial!Next
      BY <1>5, <1>9, <1>10, <2>1 DEF Writers
    <2>2. ASSUME NEW w \in Appliers \cup Enders, ApplierStep(w) \/ EnderStep(w)
          PROVE  Silent \/ Serial!Next
      BY <1>9, <1>11, <2>2 DEF Writers
    <2>3. QED
      BY <1>7, <1>8, <2>1, <2>2 DEF Next
  <1>13. QED
    BY <1>1, <1>12

\* Whatever the interleaving of requests, deaths and endings, and whatever is
\* retried, aborted or cancelled, the tables are those of one serial history.
THEOREM ImplementsLedger == Spec => SerialSpec
  <1>1. Init => Serial!Init
    BY DEF Init, Serial!Init
  <1>2. TypeInv /\ RowInv /\ NumberInv /\ KeyInv /\ [Next]_vars
           => [Serial!Next]_(Serial!vars)
    BY StepRefines
  <1>3. QED
    BY <1>1, <1>2, AlwaysTypeInv, AlwaysRowInv, AlwaysNumberInv, AlwaysKeyInv, PTL
       DEF Spec, SerialSpec, Serial!Spec
=============================================================================
