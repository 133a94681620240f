------------------------- MODULE RangeTrackerProofs -------------------------
(***************************************************************************)
(* The ledger range tracker implements RangeLock, for any set of imports   *)
(* with any options, any events on the chain and any page size: two        *)
(* imports that share a ledger never work at the same time.                *)
(*                                                                         *)
(* The code looks for overlaps only in its list of active locks.  LockInv  *)
(* says that the list is exactly the imports at work, each with a range    *)
(* that was validated, and that no two of these overlap.  TrackerInv adds  *)
(* what an import has collected behind its page and what it has counted;   *)
(* that the pages of a range cover it is a fact about quotients.           *)
(***************************************************************************)
EXTENDS RangeTracker, CollectionFacts

\* The ranges that can be asked for end at MaxLedger at the latest.
RequestsAreBounded ==
  /\ EnvRange.end \in Int /\ EnvRange.start \in Int /\ EnvRange.end <= MaxLedger
  /\ MaxLedger \in Nat
  /\ \A i \in Imports :
       /\ Options[i].start \in Int /\ Options[i].end \in Int /\ Options[i].defaultEnd \in Int
       /\ Options[i].end <= MaxLedger /\ Options[i].defaultEnd <= MaxLedger

LockRanges == [start : 1 .. MaxLedger, end : 1 .. MaxLedger]
Usable(r) == r \in LockRanges /\ r.start <= r.end

LockInv ==
  /\ phase \in [Imports -> Phases]
  /\ range \in [Imports -> LockRanges \cup {NoRange}]
  /\ blockers \in [Imports -> SUBSET Imports] /\ pointer \in Nat
  /\ active = Working
  /\ \A i \in Imports : phase[i] = "waiting" \/ i \in active => Usable(range[i])
  /\ \A i, j \in active : i # j => ~ RangesOverlap(range[i], range[j])

\* A range that is resolved is in order and not longer than the chain.
LEMMA ResolvedIsUsable ==
  ASSUME RequestsAreBounded, pointer \in Nat, NEW i \in Imports, NEW r,
         r = ResolveRange([start |-> Options[i].start, end |-> Options[i].end,
                           defaultStart |-> DefaultStart(pointer),
                           defaultEnd |-> Options[i].defaultEnd], EnvRange)
  PROVE  r = NoRange \/ Usable(r)
  BY DEF RequestsAreBounded, ResolveRange, OrElse, DefaultStart, ValidRange, NoRange, Undefined,
         Usable, LockRanges

\* Ranges without a common ledger are disjoint, as RangeLock demands it.
LEMMA NoOverlapIsDisjoint ==
  ASSUME NEW r \in LockRanges, NEW s \in LockRanges, ~ RangesOverlap(r, s)
  PROVE  Exclusion!Disjoint(r, s)
  BY DEF RangesOverlap, Exclusion!Disjoint, Exclusion!InRange, LockRanges

\* The import takes its range or awaits others: the list stays what it should be.
LEMMA TryLockKeepsInv ==
  ASSUME RequestsAreBounded, LockInv, NEW i \in Imports, phase[i] \in {"idle", "waiting"},
         NEW r, Usable(r), TryLock(i, r), range' = [range EXCEPT ![i] = r], UNCHANGED pointer
  PROVE  /\ LockInv'
         /\ active' = active \/ active' = active \cup {i}
         /\ i \notin active
         /\ active' # active => \A j \in active : ~ RangesOverlap(range[j], r)
<1>1. i \notin active
  BY DEF LockInv, Working
<1>2. active' = IF Overlapping(i, r) = {} THEN active \cup {i} ELSE active
  BY DEF TryLock, Lock
<1>3. phase' \in [Imports -> Phases] /\ range' \in [Imports -> LockRanges \cup {NoRange}]
  BY DEF TryLock, LockInv, Phases, Usable
<1>4. active' # active => \A j \in active : ~ RangesOverlap(range[j], r)
  BY <1>1, <1>2 DEF Overlapping
<1>5. blockers' = [blockers EXCEPT ![i] = Overlapping(i, r)]
  BY DEF TryLock, Lock
<1>6. phase' = [phase EXCEPT ![i] = IF Overlapping(i, r) = {} THEN "fetching" ELSE "waiting"]
  BY <1>5 DEF TryLock, LockInv
<1>7. blockers' \in [Imports -> SUBSET Imports]
  BY <1>5 DEF Overlapping, LockInv, Working
<1>8. active' = Working'
  BY <1>1, <1>2, <1>6 DEF LockInv, Working
<1>9. \A j \in Imports : phase'[j] = "waiting" \/ j \in active' => Usable(range'[j])
  BY <1>2, <1>6 DEF LockInv
<1>10. \A j, k \in active' : j # k => ~ RangesOverlap(range'[j], range'[k])
  <2>1. \A j \in active : ~ RangesOverlap(range[j], r) => ~ RangesOverlap(r, range[j])
    BY DEF RangesOverlap, LockInv, Usable, LockRanges, Working
  <2>2. active \subseteq Imports
    BY DEF LockInv, Working
  <2>3. QED
    BY <1>1, <1>2, <1>4, <2>1, <2>2 DEF LockInv
<1>11. QED
  BY <1>1, <1>2, <1>3, <1>4, <1>7, <1>8, <1>9, <1>10 DEF LockInv

\* An import that ends gives its range back.
LEMMA LeavingKeepsInv ==
  ASSUME LockInv, NEW i \in Imports, NEW end \in {"done", "failed"}, i \in active,
         phase' = [phase EXCEPT ![i] = end], active' = active \ {i}, pointer' \in Nat,
         UNCHANGED <<range, blockers>>
  PROVE  LockInv'
  BY DEF LockInv, Working, Phases

\* A page that arrives, or a fetch that is tried again, leaves the locks alone.
LEMMA WorkingKeepsInv ==
  ASSUME LockInv, NEW i \in Imports, NEW next \in {"fetching", "persisting"}, i \in active,
         phase' = [phase EXCEPT ![i] = next], UNCHANGED <<active, range, blockers, pointer>>
  PROVE  LockInv' /\ Working' = Working
  BY DEF LockInv, Working, Phases

\* The locks are right before the first import.
LEMMA InitLockInv == Init => LockInv
  BY DEF Init, LockInv, Working, Phases

Holding == [i \in Imports |-> IF i \in Working THEN range[i] ELSE NoRange]

\* What an import that holds its range has is a range.
LEMMA WorkingIsInside ==
  ASSUME LockInv
  PROVE  \A i \in Imports : i \in Working <=> Holding[i] # NoRange
  BY DEF LockInv, Holding, Usable, LockRanges, NoRange, Undefined

\* An import that takes its range enters the lock.
LEMMA TakingIsEntering ==
  ASSUME RequestsAreBounded, LockInv, LockInv', NEW i \in Imports, NEW r, Usable(r),
         range' = [range EXCEPT ![i] = r], i \notin active, active' = active \cup {i},
         \A j \in active : ~ RangesOverlap(range[j], r)
  PROVE  Exclusion!Next
<1>1. Working' = Working \cup {i} /\ i \notin Working
  BY DEF LockInv
<1>2. Holding' = [Holding EXCEPT ![i] = r]
  BY <1>1 DEF Holding, LockInv
<1>3. Holding[i] = NoRange /\ r # NoRange
  BY <1>1 DEF Holding, Usable, LockRanges, NoRange, Undefined
<1>4. \A j \in Imports : Holding[j] # NoRange => Exclusion!Disjoint(r, Holding[j])
  <2> SUFFICES ASSUME NEW j \in Imports, Holding[j] # NoRange
               PROVE  Exclusion!Disjoint(r, Holding[j])
    OBVIOUS
  <2>1. j \in active /\ Holding[j] = range[j] /\ Usable(range[j])
    BY DEF Holding, LockInv
  <2>2. ~ RangesOverlap(r, range[j])
    BY <2>1 DEF RangesOverlap, Usable, LockRanges
  <2>3. QED
    BY <2>1, <2>2, NoOverlapIsDisjoint DEF Usable
<1>5. PICK start \in 1 .. MaxLedger, end \in 1 .. MaxLedger :
        r = [start |-> start, end |-> end] /\ start <= end
  BY DEF Usable, LockRanges
<1>6. Exclusion!Enter(i)
  BY <1>2, <1>3, <1>4, <1>5 DEF Exclusion!Enter, Exclusion!Inside, Exclusion!NoRange, Exclusion!Undefined,
     Holding, NoRange, Undefined
<1>7. Holding' # Holding
  BY <1>2, <1>3 DEF Holding
<1>8. QED
  BY <1>6, <1>7 DEF Exclusion!Next, Holding

\* An import that ends leaves the lock.
LEMMA EndingIsLeaving ==
  ASSUME LockInv, LockInv', NEW i \in Imports, i \in active, active' = active \ {i}, range' = range
  PROVE  Exclusion!Next
<1>1. Working' = Working \ {i} /\ i \in Working
  BY DEF LockInv
<1>2. Holding' = [Holding EXCEPT ![i] = NoRange] /\ Holding[i] # NoRange
  BY <1>1, WorkingIsInside DEF Holding
<1>3. Exclusion!Leave(i)
  BY <1>2 DEF Exclusion!Leave, Exclusion!Inside, Exclusion!NoRange, Exclusion!Undefined, Holding,
     NoRange, Undefined
<1>4. Holding' # Holding
  BY <1>2 DEF Holding
<1>5. QED
  BY <1>3, <1>4 DEF Exclusion!Next, Holding

\* An import that takes its range, or awaits others with it, does a step of the lock or none.
LEMMA TryLockIsLockStep ==
  ASSUME RequestsAreBounded, LockInv, NEW i \in Imports, phase[i] \in {"idle", "waiting"},
         NEW r, Usable(r), TryLock(i, r), range' = [range EXCEPT ![i] = r], UNCHANGED pointer
  PROVE  LockInv' /\ (Exclusion!Next \/ Holding' = Holding)
<1>1. /\ LockInv' /\ i \notin active
      /\ active' = active \/ active' = active \cup {i}
      /\ active' # active => \A j \in active : ~ RangesOverlap(range[j], r)
  BY TryLockKeepsInv
<1>2. CASE active' = active
  BY <1>1, <1>2 DEF Holding, LockInv
<1>3. CASE active' # active
  BY <1>1, <1>3, TakingIsEntering
<1>4. QED
  BY <1>1, <1>2, <1>3

\* Every step of an import keeps the invariant, and is a step of RangeLock or none.
LEMMA StepIsLockStep ==
  ASSUME RequestsAreBounded, LockInv, NEW i \in Imports, Step(i)
  PROVE  LockInv' /\ (Exclusion!Next \/ Holding' = Holding)
<1>1. CASE Start(i)
  <2> DEFINE r == ResolveRange([start |-> Options[i].start, end |-> Options[i].end,
                                defaultStart |-> DefaultStart(pointer),
                                defaultEnd |-> Options[i].defaultEnd], EnvRange)
  <2>1. r = NoRange \/ Usable(r)
    BY ResolvedIsUsable DEF LockInv
  <2>2. CASE r = NoRange
    <3>1. phase' = [phase EXCEPT ![i] = "invalid"] /\ phase[i] = "idle"
          /\ UNCHANGED <<range, blockers, active, pointer>>
      BY <1>1, <2>2 DEF Start
    <3>2. LockInv' /\ Working' = Working
      BY <3>1 DEF LockInv, Working, Phases
    <3>3. QED
      BY <3>1, <3>2 DEF Holding
  <2>3. CASE r # NoRange
    <3>1. TryLock(i, r) /\ range' = [range EXCEPT ![i] = r] /\ phase[i] = "idle" /\ UNCHANGED pointer
      BY <1>1, <2>3 DEF Start
    <3>2. QED
      BY <2>1, <2>3, <3>1, TryLockIsLockStep
  <2>4. QED
    BY <2>2, <2>3
<1>2. CASE Retry(i)
  <2>1. Usable(range[i]) /\ range' = [range EXCEPT ![i] = range[i]]
    BY <1>2 DEF Retry, LockInv
  <2>2. TryLock(i, range[i]) /\ phase[i] = "waiting" /\ UNCHANGED pointer
    BY <1>2 DEF Retry
  <2>3. QED
    BY <2>1, <2>2, TryLockIsLockStep
<1>3. CASE FetchPage(i)
  <2>1. PICK next \in {"fetching", "persisting"} : phase' = [phase EXCEPT ![i] = next]
    BY <1>3 DEF FetchPage
  <2>2. i \in active /\ UNCHANGED <<active, range, blockers, pointer>>
    BY <1>3 DEF FetchPage, LockInv, Working
  <2>3. QED
    BY <2>1, <2>2, WorkingKeepsInv DEF Holding
<1>4. CASE FetchFails(i)
  <2>1. i \in active /\ UNCHANGED <<range, blockers, pointer>>
    BY <1>4 DEF FetchFails, LockInv, Working
  <2>2. CASE UNCHANGED <<phase, active>>
    BY <2>1, <2>2 DEF LockInv, Working, Holding
  <2>3. CASE Fail(i)
    <3>1. LockInv'
      BY <2>1, <2>3, LeavingKeepsInv DEF Fail, LockInv
    <3>2. QED
      BY <2>1, <2>3, <3>1, EndingIsLeaving DEF Fail
  <2>4. QED
    BY <1>4, <2>2, <2>3 DEF FetchFails
<1>5. CASE Persist(i)
  <2>1. /\ i \in active /\ phase' = [phase EXCEPT ![i] = "done"] /\ active' = active \ {i}
        /\ UNCHANGED <<range, blockers>>
    BY <1>5 DEF Persist, LockInv, Working
  <2>2. pointer' \in Nat
    BY <1>5, <2>1 DEF Persist, LockInv, Usable, LockRanges
  <2>3. LockInv'
    BY <2>1, <2>2, LeavingKeepsInv
  <2>4. QED
    BY <2>1, <2>3, EndingIsLeaving
<1>6. CASE PersistFails(i)
  <2>1. i \in active /\ Fail(i) /\ UNCHANGED <<range, blockers, pointer>>
    BY <1>6 DEF PersistFails, LockInv, Working
  <2>2. LockInv'
    BY <2>1, LeavingKeepsInv DEF Fail, LockInv
  <2>3. QED
    BY <2>1, <2>2, EndingIsLeaving DEF Fail
<1>7. QED
  BY <1>1, <1>2, <1>3, <1>4, <1>5, <1>6 DEF Step

\* A stutter leaves the lock alone.
LEMMA StutterIsNoLockStep ==
  ASSUME LockInv, UNCHANGED rangeVars
  PROVE  LockInv' /\ Holding' = Holding
  BY DEF rangeVars, LockInv, Working, Holding

\* Every step is a step of the range lock, or one it does not see.
LEMMA EveryStepIsLockStep ==
  ASSUME RequestsAreBounded, LockInv, [Next]_rangeVars
  PROVE  LockInv' /\ (Exclusion!Next \/ Holding' = Holding)
  BY StepIsLockStep, StutterIsNoLockStep DEF Next

(***************************************************************************)
(* What an import collects, stores and counts.                             *)
(***************************************************************************)

\* Imports and events are finitely many, and a page has a ledger.
SizesAreFinite ==
  /\ IsFiniteSet(Imports) /\ IsFiniteSet(DOMAIN OnChain)
  /\ \A e \in DOMAIN OnChain : OnChain[e] \in Int
  /\ PageSize \in Nat \ {0} /\ MaxRetries \in Nat

\* The events of a range, its pages, and the events of the first of them.
Asked(r)     == FilterToRange(DOMAIN OnChain, OnChain, r)
PagesOf(r)   == ChunkLedgerRange(r, PageSize)
Behind(r, n) == UNION {Asked(PagesOf(r)[k]) : k \in 1 .. n}

\* An import collects page after page, and is done with all that it was asked for.
ProgressInv ==
  /\ page \in [Imports -> Nat] /\ collected \in [Imports -> SUBSET DOMAIN OnChain]
  /\ events \in SUBSET DOMAIN OnChain
  /\ \A i \in Imports :
       /\ phase[i] = "fetching" => page[i] \in 1 .. Len(PagesOf(range[i])) /\ Behind(range[i], page[i] - 1) \subseteq collected[i]
       /\ phase[i] = "persisting" => Asked(range[i]) \subseteq collected[i]
       /\ phase[i] = "done" => Asked(range[i]) \subseteq events

\* An import that has not ended has inserted nothing, and the others all that is stored.
CountInv ==
  /\ inserted \in [Imports -> Nat]
  /\ \A i \in Imports : phase[i] \notin {"done", "failed"} => inserted[i] = 0
  /\ Total(inserted, Imports) = Cardinality(events)

\* The rest of the type invariant.
BoundsInv ==
  /\ attempt \in [Imports -> 0 .. MaxRetries] /\ failures \in Nat
  /\ \A i \in Imports : range[i] = NoRange \/ Usable(range[i])

TrackerInv == LockInv /\ ProgressInv /\ CountInv /\ BoundsInv

\* The pages of a range are the whole of it.
LEMMA PagesAreTheRange ==
  ASSUME SizesAreFinite, NEW r, Usable(r)
  PROVE  Len(PagesOf(r)) \in Nat \ {0} /\ Asked(r) \subseteq Behind(r, Len(PagesOf(r)))
<1> DEFINE s == r.start
           t == r.end
           n == (t - s) \div PageSize
<1>1. s \in Int /\ t \in Int /\ s <= t /\ PageSize \in Nat \ {0}
  BY DEF SizesAreFinite, Usable, LockRanges
<1>2. PagesOf(r) = [k \in 1 .. n + 1 |->
        [start |-> s + (k - 1) * PageSize,
         end   |-> IF s + (k - 1) * PageSize + PageSize - 1 < t THEN s + (k - 1) * PageSize + PageSize - 1 ELSE t]]
  BY DEF PagesOf, ChunkLedgerRange
<1>3. s + (0 * PageSize) = s
  BY <1>1
<1> HIDE DEF s, t
<1>4. /\ n \in Nat
      /\ \A l \in s .. t : \E k \in 1 .. n + 1 :
           /\ s + (k - 1) * PageSize <= l
           /\ l <= IF s + (k - 1) * PageSize + PageSize - 1 < t THEN s + (k - 1) * PageSize + PageSize - 1 ELSE t
  BY <1>1, PagesCover
<1> HIDE DEF n
<1>5. /\ Len(PagesOf(r)) = n + 1
      /\ \A k \in 1 .. n + 1 :
           /\ PagesOf(r)[k].start = s + (k - 1) * PageSize
           /\ PagesOf(r)[k].end =
                IF s + (k - 1) * PageSize + PageSize - 1 < t THEN s + (k - 1) * PageSize + PageSize - 1 ELSE t
  BY <1>2, <1>4
<1>6. ASSUME NEW e \in Asked(r) PROVE e \in Behind(r, n + 1)
  <2>1. e \in DOMAIN OnChain /\ OnChain[e] \in s .. t
    BY <1>1, <1>6 DEF Asked, FilterToRange, InRange, SizesAreFinite, s, t
  <2>2. PICK k \in 1 .. n + 1 :
          /\ s + (k - 1) * PageSize <= OnChain[e]
          /\ OnChain[e] <= IF s + (k - 1) * PageSize + PageSize - 1 < t THEN s + (k - 1) * PageSize + PageSize - 1 ELSE t
    BY <1>4, <2>1
  <2>3. InRange(OnChain[e], PagesOf(r)[k])
    <3>1. /\ PagesOf(r)[k].start = s + (k - 1) * PageSize
          /\ PagesOf(r)[k].end =
               IF s + (k - 1) * PageSize + PageSize - 1 < t THEN s + (k - 1) * PageSize + PageSize - 1 ELSE t
      BY <1>5
    <3>2. QED
      BY <2>2, <3>1, Zenon DEF InRange
  <2>4. QED
    BY <2>1, <2>3 DEF Behind, Asked, FilterToRange
<1>7. QED
  BY <1>4, <1>5, <1>6

\* One page more.
LEMMA NextPage ==
  ASSUME NEW r, NEW n \in Nat \ {0}
  PROVE  Behind(r, n) = Behind(r, n - 1) \cup Asked(PagesOf(r)[n])
<1>1. 1 .. n = (1 .. n - 1) \cup {n}
  OBVIOUS
<1>2. QED
  BY <1>1 DEF Behind

\* Before the first page nothing is behind.
LEMMA NoPage == ASSUME NEW r PROVE Behind(r, 0) = {}
  BY DEF Behind

\* An import that takes its range or awaits others has collected nothing yet.
LEMMA TryLockProgresses ==
  ASSUME SizesAreFinite, TrackerInv, LockInv', NEW i \in Imports, phase[i] \in {"idle", "waiting"},
         NEW r, Usable(r), TryLock(i, r), range' = [range EXCEPT ![i] = r],
         UNCHANGED <<attempt, collected, inserted, events, pointer, failures>>
  PROVE  ProgressInv' /\ CountInv' /\ BoundsInv'
<1>1. PICK next \in {"fetching", "waiting"} : phase' = [phase EXCEPT ![i] = next]
  BY DEF TryLock
<1>2. page' = [page EXCEPT ![i] = 1] /\ page \in [Imports -> Nat]
  BY DEF TryLock, TrackerInv, ProgressInv
<1>3. phase \in [Imports -> Phases] /\ range \in [Imports -> LockRanges \cup {NoRange}]
  BY DEF TrackerInv, LockInv
<1>4. r \in LockRanges
  BY DEF Usable
<1>5. /\ range'[i] = r /\ page'[i] = 1 /\ phase'[i] = next
      /\ \A j \in Imports \ {i} : range'[j] = range[j] /\ page'[j] = page[j] /\ phase'[j] = phase[j]
  BY <1>1, <1>2, <1>3
<1>6. 1 \in 1 .. Len(PagesOf(r)) /\ Behind(r, 1 - 1) \subseteq collected[i]
  <2>1. Len(PagesOf(r)) \in Nat \ {0}
    BY PagesAreTheRange
  <2>2. QED
    BY <2>1, NoPage
<1>7. ProgressInv'
  <2>1. page' \in [Imports -> Nat]
    BY <1>2
  <2>2. ASSUME NEW j \in Imports
        PROVE  /\ phase'[j] = "fetching" => /\ page'[j] \in 1 .. Len(PagesOf(range'[j]))
                                            /\ Behind(range'[j], page'[j] - 1) \subseteq collected'[j]
               /\ phase'[j] = "persisting" => Asked(range'[j]) \subseteq collected'[j]
               /\ phase'[j] = "done" => Asked(range'[j]) \subseteq events'
    <3>1. CASE j = i
      BY <1>1, <1>5, <1>6, <3>1
    <3>2. CASE j # i
      BY <1>5, <3>2 DEF TrackerInv, ProgressInv
    <3>3. QED
      BY <3>1, <3>2
  <2>3. QED
    BY <2>1, <2>2 DEF TrackerInv, ProgressInv, Asked, Behind, PagesOf
<1>8. CountInv'
  BY <1>1, <1>3 DEF TrackerInv, CountInv
<1>9. BoundsInv'
  BY <1>3, <1>5 DEF TrackerInv, BoundsInv, Usable, LockRanges
<1>10. QED
  BY <1>7, <1>8, <1>9

\* Rows that were not stored are counted once.
LEMMA StoringCounts ==
  ASSUME SizesAreFinite, TrackerInv, NEW i \in Imports, phase[i] = "persisting",
         NEW stored \in SUBSET DOMAIN OnChain, events' = events \cup stored,
         inserted' = [inserted EXCEPT ![i] = Cardinality(stored \ events)],
         NEW end \in {"done", "failed"}, phase' = [phase EXCEPT ![i] = end]
  PROVE  CountInv'
<1> DEFINE d == Cardinality(stored \ events)
<1>1. inserted \in [Imports -> Nat] /\ inserted[i] = 0 /\ events \in SUBSET DOMAIN OnChain
  BY DEF TrackerInv, CountInv, ProgressInv
<1> DEFINE fresh == stored \ events
<1>2. IsFiniteSet(events) /\ IsFiniteSet(fresh) /\ events \cap fresh = {} /\ events \cup fresh = events'
  BY <1>1, FS_Subset DEF SizesAreFinite
<1>3. d \in Nat /\ Cardinality(events) \in Nat /\ Cardinality({}) = 0
  BY <1>2, FS_CardinalityType, FS_EmptySet
<1>4. d = Cardinality(fresh)
  OBVIOUS
<1> HIDE DEF fresh, d
<1>5. Cardinality(events') = Cardinality(events) + d
  <2>1. Cardinality(events \cup fresh) = Cardinality(events) + Cardinality(fresh) - Cardinality(events \cap fresh)
    BY <1>2, FS_Union, Zenon
  <2>2. Cardinality(events') = Cardinality(events) + d - 0
    BY <1>2, <1>3, <1>4, <2>1, Zenon
  <2>3. QED
    BY <1>3, <2>2
<1>6. Total(inserted', Imports) = Total(inserted, Imports) + d
  <2>1. /\ IsFiniteSet(Imports) /\ \A j \in Imports : inserted[j] \in Int
        /\ d \in Int /\ inserted'[i] = inserted[i] + d
        /\ \A j \in Imports \ {i} : inserted'[j] = inserted[j]
    BY <1>1, <1>3 DEF SizesAreFinite, d
  <2>2. ASSUME NEW g, g[i] = inserted[i] + d, \A j \in Imports \ {i} : g[j] = inserted[j]
        PROVE  Total(g, Imports) = Total(inserted, Imports) + d
    <3>1. /\ IsFiniteSet(Imports)
          /\ \A j \in Imports : inserted[j] \in Int
          /\ d \in Int
      BY <2>1
    <3>2. QED
      BY <2>2, <3>1, TotalGrows
  <2>3. QED
    BY <2>1, <2>2
<1>7. inserted' \in [Imports -> Nat]
  BY <1>1, <1>3 DEF d
<1>8. \A j \in Imports : phase'[j] \notin {"done", "failed"} => inserted'[j] = 0
  BY <1>1 DEF TrackerInv, CountInv, LockInv
<1>9. QED
  BY <1>5, <1>6, <1>7, <1>8 DEF TrackerInv, CountInv

\* An import that ends has stored what it was asked for if it reports success.
LEMMA EndingProgresses ==
  ASSUME TrackerInv, NEW i \in Imports, NEW end \in {"done", "failed"}, phase' = [phase EXCEPT ![i] = end],
         end = "done" => Asked(range[i]) \subseteq events', events \subseteq events', events' \subseteq DOMAIN OnChain,
         UNCHANGED <<range, page, collected>>
  PROVE  ProgressInv'
<1>1. \A j \in Imports : /\ phase'[j] = IF j = i THEN end ELSE phase[j]
                         /\ range'[j] = range[j] /\ page'[j] = page[j] /\ collected'[j] = collected[j]
  BY DEF TrackerInv, LockInv
<1>2. page' \in [Imports -> Nat] /\ collected' \in [Imports -> SUBSET DOMAIN OnChain]
  BY DEF TrackerInv, ProgressInv
<1>3. ASSUME NEW j \in Imports
      PROVE  /\ phase'[j] = "fetching" => /\ page'[j] \in 1 .. Len(PagesOf(range'[j]))
                                          /\ Behind(range'[j], page'[j] - 1) \subseteq collected'[j]
             /\ phase'[j] = "persisting" => Asked(range'[j]) \subseteq collected'[j]
             /\ phase'[j] = "done" => Asked(range'[j]) \subseteq events'
  BY <1>1 DEF TrackerInv, ProgressInv
<1>4. QED
  BY <1>2, <1>3 DEF ProgressInv, Asked, Behind, PagesOf

\* A page that arrives: the import has it, and after the last page all of its range.
LEMMA FetchPageKeeps ==
  ASSUME SizesAreFinite, TrackerInv, NEW i \in Imports, FetchPage(i)
  PROVE  ProgressInv' /\ CountInv' /\ BoundsInv'
<1> DEFINE r == range[i]
           n == page[i]
           found == Asked(PagesOf(r)[n])
           next  == IF n = Len(PagesOf(r)) THEN "persisting" ELSE "fetching"
<1>1. /\ phase[i] = "fetching" /\ collected' = [collected EXCEPT ![i] = @ \cup found]
      /\ page' = [page EXCEPT ![i] = @ + 1] /\ attempt' = [attempt EXCEPT ![i] = 0]
      /\ phase' = [phase EXCEPT ![i] = next]
      /\ UNCHANGED <<range, inserted, events, failures>>
  BY DEF FetchPage, Pages, PagesOf, Asked
<1>2. /\ page \in [Imports -> Nat] /\ collected \in [Imports -> SUBSET DOMAIN OnChain]
      /\ phase \in [Imports -> Phases] /\ Usable(r)
      /\ n \in 1 .. Len(PagesOf(r)) /\ Behind(r, n - 1) \subseteq collected[i]
  BY <1>1 DEF TrackerInv, ProgressInv, LockInv, Working
<1>3. Len(PagesOf(r)) \in Nat \ {0} /\ Asked(r) \subseteq Behind(r, Len(PagesOf(r)))
  BY <1>2, PagesAreTheRange
<1>4. Behind(r, n) \subseteq collected[i] \cup found
  <2>1. n \in Nat \ {0}
    BY <1>2, <1>3
  <2> HIDE DEF n, r
  <2>2. QED
    BY <1>2, <2>1, NextPage
<1>5. found \subseteq DOMAIN OnChain
  BY DEF Asked, FilterToRange
<1>6. /\ phase'[i] = next /\ page'[i] = n + 1 /\ collected'[i] = collected[i] \cup found
      /\ \A j \in Imports \ {i} : phase'[j] = phase[j] /\ page'[j] = page[j] /\ collected'[j] = collected[j]
      /\ page' \in [Imports -> Nat] /\ collected' \in [Imports -> SUBSET DOMAIN OnChain]
  <2> HIDE DEF found, next
  <2>1. QED
    BY <1>1, <1>2, <1>5
<1>7. ASSUME NEW j \in Imports
      PROVE  /\ phase'[j] = "fetching" => /\ page'[j] \in 1 .. Len(PagesOf(range[j]))
                                          /\ Behind(range[j], page'[j] - 1) \subseteq collected'[j]
             /\ phase'[j] = "persisting" => Asked(range[j]) \subseteq collected'[j]
             /\ phase'[j] = "done" => Asked(range[j]) \subseteq events
  <2>1. CASE j = i /\ n = Len(PagesOf(r))
    <3>1. phase'[j] = "persisting" /\ Asked(range[j]) \subseteq collected'[j]
      BY <1>3, <1>4, <1>6, <2>1
    <3>2. QED
      BY <3>1
  <2>2. CASE j = i /\ n # Len(PagesOf(r))
    <3>1. n + 1 \in 1 .. Len(PagesOf(r)) /\ n \in Int
      BY <1>2, <1>3, <2>2
    <3>2. phase'[j] = "fetching" /\ page'[j] = n + 1 /\ range[j] = r /\ Behind(r, n) \subseteq collected'[j]
      BY <1>4, <1>6, <2>2
    <3> HIDE DEF n, r
    <3>3. page'[j] - 1 = n
      BY <3>1, <3>2
    <3>4. page'[j] \in 1 .. Len(PagesOf(range[j]))
      BY <3>1, <3>2
    <3>5. Behind(range[j], page'[j] - 1) \subseteq collected'[j]
      BY <3>2, <3>3
    <3>6. QED
      BY <3>2, <3>4, <3>5
  <2>3. CASE j # i
    BY <1>6, <2>3 DEF TrackerInv, ProgressInv
  <2>4. QED
    BY <2>1, <2>2, <2>3
<1>8. ProgressInv'
  BY <1>1, <1>6, <1>7 DEF TrackerInv, ProgressInv, Asked, Behind, PagesOf
<1>9. CountInv'
  BY <1>1, <1>2 DEF TrackerInv, CountInv
<1>10. BoundsInv'
  BY <1>1 DEF TrackerInv, BoundsInv, Usable, LockRanges, SizesAreFinite
<1>11. QED
  BY <1>8, <1>9, <1>10

\* A fetch that fails is tried again or ends the import.
LEMMA FetchFailsKeeps ==
  ASSUME SizesAreFinite, TrackerInv, NEW i \in Imports, FetchFails(i)
  PROVE  ProgressInv' /\ CountInv' /\ BoundsInv'
<1>0. phase[i] = "fetching" /\ UNCHANGED <<range, page, collected, inserted, events>>
  BY DEF FetchFails
<1>1. CASE /\ attempt[i] < MaxRetries /\ attempt' = [attempt EXCEPT ![i] = @ + 1]
           /\ UNCHANGED <<phase, active, failures>>
  <2>1. ProgressInv'
    BY <1>0, <1>1 DEF TrackerInv, ProgressInv, Asked, Behind, PagesOf
  <2>2. CountInv'
    BY <1>0, <1>1 DEF TrackerInv, CountInv
  <2>3. attempt' \in [Imports -> 0 .. MaxRetries]
    BY <1>1 DEF TrackerInv, BoundsInv, SizesAreFinite
  <2>4. QED
    BY <1>0, <1>1, <2>1, <2>2, <2>3 DEF TrackerInv, BoundsInv, Usable, LockRanges
<1>2. CASE Fail(i) /\ UNCHANGED attempt
  <2>1. phase' = [phase EXCEPT ![i] = "failed"] /\ failures' = failures + 1
    BY <1>2 DEF Fail
  <2>2. events \subseteq events' /\ events' \subseteq DOMAIN OnChain
    BY <1>0 DEF TrackerInv, ProgressInv
  <2>3. ProgressInv'
    BY <1>0, <2>1, <2>2, EndingProgresses
  <2>4. CountInv'
    BY <1>0, <2>1 DEF TrackerInv, CountInv, LockInv
  <2>5. BoundsInv'
    BY <1>0, <1>2, <2>1 DEF TrackerInv, BoundsInv, Usable, LockRanges
  <2>6. QED
    BY <2>3, <2>4, <2>5
<1>3. QED
  BY <1>1, <1>2 DEF FetchFails

\* The import stores what it collected, or a part of it and fails.
LEMMA PersistKeeps ==
  ASSUME SizesAreFinite, TrackerInv, NEW i \in Imports, Persist(i) \/ PersistFails(i)
  PROVE  ProgressInv' /\ CountInv' /\ BoundsInv'
<1>0. collected[i] \in SUBSET DOMAIN OnChain /\ events \in SUBSET DOMAIN OnChain
  BY DEF TrackerInv, ProgressInv
<1>1. CASE Persist(i)
  <2>1. /\ phase[i] = "persisting" /\ events' = events \cup collected[i] /\ failures' = 0
        /\ inserted' = [inserted EXCEPT ![i] = Cardinality(collected[i] \ events)]
        /\ phase' = [phase EXCEPT ![i] = "done"] /\ UNCHANGED <<range, page, attempt, collected>>
    BY <1>1 DEF Persist
  <2>2. Asked(range[i]) \subseteq events' /\ events \subseteq events' /\ events' \subseteq DOMAIN OnChain
    BY <1>0, <2>1 DEF TrackerInv, ProgressInv
  <2>3. ProgressInv'
    BY <2>1, <2>2, EndingProgresses
  <2>4. CountInv'
    BY <1>0, <2>1, StoringCounts
  <2>5. BoundsInv'
    BY <2>1 DEF TrackerInv, BoundsInv, Usable, LockRanges
  <2>6. QED
    BY <2>3, <2>4, <2>5
<1>2. CASE PersistFails(i)
  <2>1. PICK stored \in SUBSET collected[i] :
          /\ events' = events \cup stored
          /\ inserted' = [inserted EXCEPT ![i] = Cardinality(stored \ events)]
    BY <1>2 DEF PersistFails
  <2>2. /\ phase[i] = "persisting" /\ phase' = [phase EXCEPT ![i] = "failed"] /\ failures' = failures + 1
        /\ UNCHANGED <<range, page, attempt, collected>>
    BY <1>2 DEF PersistFails, Fail
  <2>3. events \subseteq events' /\ events' \subseteq DOMAIN OnChain /\ stored \in SUBSET DOMAIN OnChain
    BY <1>0, <2>1
  <2>4. ProgressInv'
    BY <2>2, <2>3, EndingProgresses
  <2>5. CountInv'
    BY <2>1, <2>2, <2>3, StoringCounts
  <2>6. BoundsInv'
    BY <2>2 DEF TrackerInv, BoundsInv, Usable, LockRanges
  <2>7. QED
    BY <2>4, <2>5, <2>6
<1>3. QED
  BY <1>1, <1>2

\* Every step of an import keeps TrackerInv.
LEMMA StepProgresses ==
  ASSUME RequestsAreBounded, SizesAreFinite, TrackerInv, NEW i \in Imports, Step(i)
  PROVE  TrackerInv'
<1>0. LockInv'
  BY StepIsLockStep DEF TrackerInv
<1>1. CASE Start(i)
  <2> DEFINE r == ResolveRange([start |-> Options[i].start, end |-> Options[i].end,
                                defaultStart |-> DefaultStart(pointer),
                                defaultEnd |-> Options[i].defaultEnd], EnvRange)
  <2>1. r = NoRange \/ Usable(r)
    BY ResolvedIsUsable DEF TrackerInv, LockInv
  <2>2. phase[i] = "idle" /\ UNCHANGED <<attempt, collected, inserted, events, pointer, failures>>
    BY <1>1 DEF Start
  <2>3. CASE r = NoRange
    <3>1. phase' = [phase EXCEPT ![i] = "invalid"] /\ UNCHANGED <<range, page>>
      BY <1>1, <2>3 DEF Start
    <3>2. ProgressInv'
      <4>1. \A j \in Imports : phase'[j] = IF j = i THEN "invalid" ELSE phase[j]
        BY <3>1 DEF TrackerInv, LockInv
      <4>2. QED
        BY <2>2, <3>1, <4>1 DEF TrackerInv, ProgressInv, Asked, Behind, PagesOf
    <3>3. CountInv'
      BY <2>2, <3>1 DEF TrackerInv, CountInv, LockInv
    <3>4. BoundsInv'
      BY <2>2, <3>1 DEF TrackerInv, BoundsInv, Usable, LockRanges
    <3>5. QED
      BY <1>0, <3>2, <3>3, <3>4 DEF TrackerInv
  <2>4. CASE r # NoRange
    <3>1. TryLock(i, r) /\ range' = [range EXCEPT ![i] = r]
      BY <1>1, <2>4 DEF Start
    <3> HIDE DEF r
    <3>2. QED
      BY <1>0, <2>1, <2>2, <2>4, <3>1, TryLockProgresses DEF TrackerInv
  <2>5. QED
    BY <2>3, <2>4
<1>2. CASE Retry(i)
  <2>1. Usable(range[i]) /\ range' = [range EXCEPT ![i] = range[i]] /\ phase[i] \in {"idle", "waiting"}
    BY <1>2 DEF Retry, TrackerInv, LockInv
  <2>2. TryLock(i, range[i]) /\ UNCHANGED <<attempt, collected, inserted, events, pointer, failures>>
    BY <1>2 DEF Retry
  <2>3. QED
    BY <1>0, <2>1, <2>2, TryLockProgresses DEF TrackerInv
<1>3. CASE FetchPage(i)
  BY <1>0, <1>3, FetchPageKeeps DEF TrackerInv
<1>4. CASE FetchFails(i)
  BY <1>0, <1>4, FetchFailsKeeps DEF TrackerInv
<1>5. CASE Persist(i) \/ PersistFails(i)
  BY <1>0, <1>5, PersistKeeps DEF TrackerInv
<1>6. QED
  BY <1>1, <1>2, <1>3, <1>4, <1>5 DEF Step

\* TrackerInv holds at first.
LEMMA InitTrackerInv == ASSUME SizesAreFinite, Init PROVE TrackerInv
<1>1. /\ phase = [i \in Imports |-> "idle"] /\ range = [i \in Imports |-> NoRange]
      /\ page = [i \in Imports |-> 0] /\ attempt = [i \in Imports |-> 0] /\ collected = [i \in Imports |-> {}]
      /\ inserted = [i \in Imports |-> 0] /\ events = {} /\ failures = 0
  BY DEF Init
<1>2. ProgressInv
  BY <1>1 DEF ProgressInv
<1>3. Total(inserted, Imports) = 0
  <2>1. IsFiniteSet(Imports) /\ (\A i \in Imports : inserted[i] \in Int) /\ {} \in SUBSET Imports
        /\ \A i \in Imports \ {} : inserted[i] = 0
    BY <1>1 DEF SizesAreFinite
  <2>2. Total(inserted, Imports) = Total(inserted, {})
    BY <2>1, TotalOfPart
  <2>3. Total(inserted, {}) = 0
    BY FS_EmptySet, TotalType
  <2>4. QED
    BY <2>2, <2>3
<1>4. CountInv
  BY <1>1, <1>3, FS_EmptySet DEF CountInv
<1>5. BoundsInv
  BY <1>1 DEF BoundsInv, SizesAreFinite
<1>6. QED
  BY <1>2, <1>4, <1>5, InitLockInv DEF TrackerInv

\* A step, or none, keeps TrackerInv.
LEMMA TrackerStep ==
  ASSUME RequestsAreBounded, SizesAreFinite, TrackerInv, [Next]_rangeVars
  PROVE  TrackerInv'
<1>1. CASE Next
  BY <1>1, StepProgresses DEF Next
<1>2. CASE UNCHANGED rangeVars
  <2>1. LockInv'
    BY <1>2, StutterIsNoLockStep DEF TrackerInv
  <2>2. /\ UNCHANGED <<phase, range, blockers, active, page, attempt>>
        /\ UNCHANGED <<collected, inserted, events, pointer, failures>>
    BY <1>2 DEF rangeVars
  <2>3. ProgressInv'
    BY <2>2 DEF TrackerInv, ProgressInv, Asked, Behind, PagesOf
  <2>4. CountInv'
    BY <2>2 DEF TrackerInv, CountInv
  <2>5. BoundsInv'
    BY <2>2 DEF TrackerInv, BoundsInv, Usable, LockRanges
  <2>6. QED
    BY <2>1, <2>3, <2>4, <2>5 DEF TrackerInv
<1>3. QED
  BY <1>1, <1>2

\* What TrackerInv says of the types and of the imports that are done.
LEMMA TrackerInvSays ==
  ASSUME TrackerInv
  PROVE  TypeOK /\ ImportIsCompleteAndCountedOnce
<1>1. \A i \in Imports : range[i] = NoRange \/ ValidRange(range[i].start, range[i].end)
  BY DEF TrackerInv, BoundsInv, Usable, LockRanges, ValidRange
<1>2. TypeOK
  BY <1>1 DEF TrackerInv, LockInv, ProgressInv, CountInv, BoundsInv, TypeOK, Working
<1>3. ImportIsCompleteAndCountedOnce
  BY DEF TrackerInv, ProgressInv, CountInv, ImportIsCompleteAndCountedOnce, Asked, FilterToRange, InRange
<1>4. QED
  BY <1>2, <1>3

(***************************************************************************)
(* Theorems                                                                *)
(***************************************************************************)

\* The list of locks names the imports at work, and no two of them share a ledger,
\* whatever they await and however they fail (withOverlappingRangeLock).
THEOREM NoTwoImportsOverlap ==
  ASSUME RequestsAreBounded
  PROVE  Spec => []LockInv
<1>1. LockInv /\ [Next]_rangeVars => LockInv'
  BY EveryStepIsLockStep
<1>2. QED
  BY <1>1, InitLockInv, PTL DEF Spec

\* The tracker implements the range lock: every import enters with a range that no
\* other one holds a ledger of, and leaves once.
THEOREM ImplementsRangeLock ==
  ASSUME RequestsAreBounded
  PROVE  Spec => WorkIsExclusive
<1>1. Init => Exclusion!Init
  BY DEF Init, Exclusion!Init, Exclusion!NoRange, Exclusion!Undefined, NoRange, Undefined, Working
<1>2. LockInv /\ [Next]_rangeVars => Exclusion!Next \/ Holding' = Holding
  BY EveryStepIsLockStep
<1>3. LockInv /\ [Next]_rangeVars =>
        [Exclusion!Next]_[i \in Imports |-> IF i \in Working THEN range[i] ELSE NoRange]
  BY <1>2 DEF Holding
<1>4. QED
  BY <1>1, <1>3, NoTwoImportsOverlap, PTL DEF Spec, WorkIsExclusive, Exclusion!Spec

\* An import that reports success has stored every event of its range, across page
\* borders, and the imports count every stored row once, however they overlap, are
\* retried and fail (processRange, persistEventsIdempotent).
THEOREM ImportsCompleteAndCountedOnce ==
  ASSUME RequestsAreBounded, SizesAreFinite
  PROVE  Spec => [](TypeOK /\ ImportIsCompleteAndCountedOnce)
<1>1. TrackerInv /\ [Next]_rangeVars => TrackerInv'
  BY TrackerStep
<1>2. Init => TrackerInv
  BY InitTrackerInv
<1>3. TrackerInv => TypeOK /\ ImportIsCompleteAndCountedOnce
  BY TrackerInvSays
<1>4. QED
  BY <1>1, <1>2, <1>3, PTL DEF Spec
=============================================================================
