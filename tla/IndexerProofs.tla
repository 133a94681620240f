--------------------------- MODULE IndexerProofs ---------------------------
(***************************************************************************)
(* Proofs about Indexer, for any set of contracts, any page size and any   *)
(* bounds: its type invariant, that the poller never revives a contract    *)
(* the administrator took off the list, that a stored row stays in the     *)
(* plan of the webhook queue until a run reads it, and that a pointer      *)
(* passes an event that is not stored only for a cause that is listed.     *)
(***************************************************************************)
EXTENDS Indexer, CollectionFacts

(***************************************************************************)
(* The invariant                                                           *)
(***************************************************************************)

\* The ledgers of the chain are closed ones, in order; a `created` event names a
\* child.
ChainInv ==
  /\ \A i \in Events : chain[i].ledger \in 1 .. head
  /\ \A i, j \in Events : i <= j => chain[i].ledger <= chain[j].ledger

\* Between cycles and before the groups are read the locals are empty.
IdleInv == pc \in {"idle", "head"} => cycle = NoCycle

\* While a group is polled, minStartLedger is set and neither the start ledger
\* nor the cursor of the group lies before it.
GroupInv ==
  pc \in {"fetch", "page", "child", "advance"} =>
    /\ cycle.from > 0 /\ cycle.from <= group.start
    /\ group.cursor # 0 => /\ group.cursor \in Events
                           /\ cycle.from <= chain[group.cursor].ledger

\* So does no event of the page, nor any of the batch, which a child's page may
\* have extended; the `created` events of the page name children.
PageInv ==
  /\ pc \in {"page", "child", "advance"} =>
       /\ \A i \in page.events \cup page.batch : cycle.from <= chain[i].ledger
       /\ page.kids \subseteq page.batch
       /\ \A k \in page.kids : chain[k].child \in Children
  /\ pc = "child" => page.kids # {}

\* What is due was stored.
DueInv == due \subseteq stored

IInv ==
  /\ TypeOK
  /\ ChainInv
  /\ IdleInv
  /\ GroupInv
  /\ PageInv
  /\ DueInv

USE DEF CycleRecord, GroupRecord, PageRecord

\* What an event of the chain is: its ledger, its contract, the child it announces.
LEMMA ChainFacts ==
  ASSUME TypeOK
  PROVE  /\ Events = 1 .. Len(chain)
         /\ \A i \in Events : /\ chain[i] \in EventRecord
                             /\ chain[i].ledger \in Nat
                             /\ chain[i].contract \in Contracts
                             /\ chain[i].child \in Children \cup {NoContract}
<1>1. chain \in Seq(EventRecord)
  BY DEF TypeOK
<1>2. Events = 1 .. Len(chain) /\ \A i \in Events : chain[i] \in EventRecord
  BY <1>1 DEF Events
<1>3. \A r \in EventRecord : /\ r.ledger \in Nat /\ r.contract \in Contracts
                             /\ r.child \in Children \cup {NoContract}
  BY DEF EventRecord
<1>4. QED
  BY <1>2, <1>3

\* The fields of the locals of a poll cycle, one by one, from the type invariant.
LEMMA LocalTypes ==
  ASSUME TypeOK
  PROVE  /\ cycle.current \in Nat /\ cycle.from \in Nat
         /\ \A g \in cycle.todo : g.pointer \in Nat /\ g.members \in SUBSET Contracts
         /\ group.members \in SUBSET Contracts /\ group.start \in Nat /\ group.cursor \in Nat
         /\ group.pages \in Nat /\ group.clamped \in BOOLEAN
         /\ page.events \in SUBSET Events /\ page.latest \in Nat /\ page.kids \in SUBSET Events
         /\ page.batch \in SUBSET Events /\ page.left \in SUBSET Contracts
<1>1. cycle.current \in Nat /\ cycle.from \in Nat
  BY DEF TypeOK
<1>2. \A g \in cycle.todo : g \in [pointer : Nat, members : SUBSET Contracts]
  BY DEF TypeOK
<1>3. \A g \in cycle.todo : g.pointer \in Nat /\ g.members \in SUBSET Contracts
  BY <1>2
<1>4. /\ group.members \in SUBSET Contracts /\ group.start \in Nat /\ group.cursor \in Nat
      /\ group.pages \in Nat /\ group.clamped \in BOOLEAN
  BY DEF TypeOK
<1>5. /\ page.events \in SUBSET Events /\ page.latest \in Nat /\ page.kids \in SUBSET Events
      /\ page.batch \in SUBSET Events /\ page.left \in SUBSET Contracts
  BY DEF TypeOK
<1>6. QED
  BY <1>1, <1>3, <1>4, <1>5

\* The record GroupByPointer builds is a cycle record.
LEMMA CycleType ==
  ASSUME NEW n \in Nat, NEW todo \in SUBSET [pointer : Nat, members : SUBSET Contracts]
  PROVE  [current |-> n, todo |-> todo, from |-> 0]
           \in CycleRecord
  OBVIOUS

\* The record BeginGroup builds is a group record.
LEMMA NewGroupType ==
  ASSUME NEW m \in SUBSET Contracts, NEW n \in Nat
  PROVE  [members |-> m, start |-> n, cursor |-> 0, pages |-> 0, clamped |-> FALSE]
           \in GroupRecord
  OBVIOUS

\* getEvents answers with events from the start ledger on, or behind the cursor.
LEMMA MatchingFacts ==
  ASSUME NEW M, NEW start, NEW cursor
  PROVE  /\ Matching(M, start, cursor) \subseteq Events
         /\ \A i \in Matching(M, start, cursor) :
              IF cursor = 0 THEN chain[i].ledger >= start ELSE i > cursor
  BY DEF Matching

\* The row ids registerContract hands out are numbers: the contracts are finitely
\* many.
LEMMA NextRowIdNat == ASSUME TypeOK PROVE NextRowId \in Nat /\ NextRowId + 1 \in Nat
<1> DEFINE R == {c \in Contracts : Registered(c)}
<1>1. IsFiniteSet(Contracts)
  <2>1. IsFiniteSet({Factory}) /\ IsFiniteSet(Children \cup Adopted)
    BY FS_Singleton, ContractsAssumption
  <2>2. Contracts = {Factory} \cup (Children \cup Adopted)
    BY DEF Contracts
  <2>3. QED
    BY <2>1, <2>2, FS_Union
<1>2. Cardinality(R) \in Nat
  BY <1>1, FS_Subset, FS_CardinalityType
<1>3. QED
  BY <1>2 DEF NextRowId

\* The pointer a contract is polled from is never negative, whichever of its three
\* sources it comes from.
LEMMA PointerNat == ASSUME TypeOK, NEW c \in Contracts PROVE Pointer(c) \in Nat
  BY DEF TypeOK, Pointer

\* The last ledger of a non-empty page is a number.
LEMMA LedgersBounded ==
  ASSUME IInv, NEW S \in SUBSET Events, S # {}
  PROVE  LastLedgerOf(S) \in Nat
<1> DEFINE L == {chain[i].ledger : i \in S}
<1>1. head \in Nat
  BY DEF IInv, TypeOK
<1>2. L \in SUBSET (0 .. head)
  BY <1>1 DEF IInv, ChainInv
<1>3. L # {}
  OBVIOUS
<1>4. Max(L) \in L
  BY <1>1, <1>2, <1>3, MaxProperty, Zenon
<1>5. Max(L) \in Nat
  BY <1>1, <1>2, <1>4
<1>6. QED
  BY <1>5 DEF LastLedgerOf

\* A full page is not empty, since PageLimit is positive.
LEMMA FullPageNotEmpty ==
  ASSUME NEW S, ~ (Cardinality(S) < PageLimit)
  PROVE  S # {}
  BY BoundsAssumption, FS_EmptySet

\* The ledger a page moves the pointers to is a number, on a full page and on a
\* short one.
LEMMA NewLedgerNat ==
  ASSUME IInv
  PROVE  NewLedger \in Nat
<1>1. page.latest \in Nat /\ page.events \in SUBSET Events
  BY DEF IInv, TypeOK
<1>2. CASE IsLastPage
  BY <1>1, <1>2 DEF NewLedger
<1>3. CASE ~ IsLastPage
  <2>1. page.events # {}
    BY <1>3, FullPageNotEmpty DEF IsLastPage
  <2>2. QED
    BY <1>1, <1>3, <2>1, LedgersBounded DEF NewLedger
<1>4. QED
  BY <1>2, <1>3

\* The first event of a page is one of its events.
LEMMA MinOfEvents ==
  ASSUME TypeOK, NEW S \in SUBSET Events, S # {}
  PROVE  Min(S) \in S /\ \A i \in S : Min(S) <= i
<1>1. S \in SUBSET Nat
  BY ChainFacts
<1>2. QED
  BY <1>1, MinProperty

\* The last event of a page, its cursor, is one of its events.
LEMMA MaxOfEvents ==
  ASSUME TypeOK, NEW S \in SUBSET Events, S # {}
  PROVE  Max(S) \in S /\ \A i \in S : i <= Max(S)
<1>1. S \in SUBSET (0 .. Len(chain)) /\ Len(chain) \in Nat
  <2>1. chain \in Seq(EventRecord)
    BY DEF TypeOK
  <2>2. Events = 1 .. Len(chain) /\ Len(chain) \in Nat
    BY <2>1 DEF Events
  <2>3. QED
    BY <2>2
<1>2. QED
  BY <1>1, MaxProperty

\* What is excused is a ledger for each contract.
LEMMA ExcuseType ==
  ASSUME TypeOK, NEW cs, NEW upto \in [Contracts -> Nat], Excuse(cs, upto)
  PROVE  excused' \in [Contracts -> Nat]
<1>1. ASSUME NEW m \in Nat, NEW n \in Nat PROVE Max({m, n}) \in Nat
  <2>1. m + n \in Nat /\ {m, n} \in SUBSET (0 .. m + n) /\ {m, n} # {}
    OBVIOUS
  <2>2. Max({m, n}) \in {m, n}
    BY <2>1, MaxProperty, Zenon
  <2>3. QED
    BY <2>2
<1>2. \A c \in Contracts : excused[c] \in Nat /\ upto[c] \in Nat
  BY DEF TypeOK
<1>3. \A c \in Contracts : Max({excused[c], upto[c]}) \in Nat
  BY <1>1, <1>2
<1>4. QED
  BY <1>2, <1>3 DEF Excuse

\* A new ledger extends the chain and leaves the events before it as they were.
LEMMA CloseLedgerGrows ==
  ASSUME IInv, CloseLedger
  PROVE  /\ chain' \in Seq(EventRecord)
         /\ Events \subseteq Events'
         /\ \A i \in Events : chain'[i] = chain[i]
         /\ \A i \in Events' \ Events : chain'[i].ledger = head + 1
<1>1. PICK n \in 0 .. LedgerLimit : \E s \in [1 .. n -> Payloads] :
        chain' = chain \o [i \in 1 .. n |-> [ledger   |-> head + 1,
                                            contract |-> s[i].contract,
                                            child    |-> s[i].child]]
  BY DEF CloseLedger
<1>2. PICK s \in [1 .. n -> Payloads] :
        chain' = chain \o [i \in 1 .. n |-> [ledger   |-> head + 1,
                                            contract |-> s[i].contract,
                                            child    |-> s[i].child]]
  BY <1>1
<1> DEFINE new == [i \in 1 .. n |-> [ledger   |-> head + 1,
                                      contract |-> s[i].contract,
                                      child    |-> s[i].child]]
<1>3. \A p \in Payloads : p.contract \in Contracts /\ p.child \in Children \cup {NoContract}
  BY DEF Payloads, Contracts
<1>4. head + 1 \in Nat
  BY DEF IInv, TypeOK
<1>5. \A i \in 1 .. n : new[i] \in EventRecord /\ new[i].ledger = head + 1
  BY <1>3, <1>4 DEF EventRecord
<1>6. new \in Seq(EventRecord) /\ Len(new) = n
  BY <1>5
<1> HIDE DEF new
<1>7. chain \in Seq(EventRecord)
  BY DEF IInv, TypeOK
<1>8. chain' = chain \o new
  BY <1>2 DEF new
<1>9. QED
  BY <1>5, <1>6, <1>7, <1>8 DEF Events

\* minStartLedger only goes down, and is at most the start of the group just begun.
LEMMA MinStartFacts ==
  ASSUME NEW from \in Nat, NEW start \in Nat
  PROVE  /\ MinStart(from, start) \in Nat
         /\ MinStart(from, start) <= start
         /\ from # 0 => MinStart(from, start) <= from
         /\ start > 0 => MinStart(from, start) > 0
<1>1. {from, start} \in SUBSET Nat /\ {from, start} # {}
  OBVIOUS
<1>2. Min({from, start}) \in {from, start} /\ \A x \in {from, start} : Min({from, start}) <= x
  BY <1>1, MinProperty
<1>3. QED
  BY <1>2 DEF MinStart

\* registerContract keeps the types of the columns of monitored_contracts.
LEMMA RegisterContractType ==
  ASSUME TypeOK, NEW c \in Contracts, NEW start \in Nat, NEW from \in Nat,
         RegisterContract(c, start, from)
  PROVE  /\ rowId' \in [Contracts -> Nat] /\ active' \in [Contracts -> BOOLEAN]
         /\ startAt' \in [Contracts -> Nat] /\ since' \in [Contracts -> Nat]
<1> USE DEF RegisterContract
<1>1. active' \in [Contracts -> BOOLEAN]
  BY DEF TypeOK
<1>2. CASE Registered(c)
  BY <1>1, <1>2 DEF TypeOK
<1>3. CASE ~ Registered(c)
  <2>1. rowId' \in [Contracts -> Nat]
    BY <1>3, NextRowIdNat DEF TypeOK
  <2>2. startAt' \in [Contracts -> Nat] /\ since' \in [Contracts -> Nat]
    <3>1. startAt \in [Contracts -> Nat] /\ since \in [Contracts -> Nat]
      BY DEF TypeOK
    <3>2. QED
      BY <1>3, <3>1
  <2>3. QED
    BY <1>1, <2>1, <2>2
<1>4. QED
  BY <1>2, <1>3

\* A migrated, empty database satisfies the invariant.
LEMMA InitIInv == Init => IInv
  BY DEF Events, Init, IInv, TypeOK, ChainInv, IdleInv, GroupInv, PageInv, DueInv,
     NoRange, NoCycle, NoGroup, NoPage

\* Every step of the poller, the administrator and the environment preserves the
\* invariant.
LEMMA NextIInv == IInv /\ [Next]_vars => IInv'
<1> SUFFICES ASSUME IInv, [Next]_vars PROVE IInv'
  OBVIOUS
<1> USE DEF IInv
<1>1. CASE CloseLedger
  <2> USE <1>1 DEF CloseLedger, chainVars, dbVars, pollVars, histVars, Events
  <2>1. TypeOK'
    <3>1. chain' \in Seq(EventRecord)
      BY CloseLedgerGrows
    <3>2. Events \subseteq Events'
      BY CloseLedgerGrows
    <3>3. head' \in Nat
      BY DEF TypeOK
    <3>4. page' \in PageRecord'
      BY <3>2 DEF TypeOK
    <3>5. stored' \subseteq Events' /\ offered' \subseteq Events' /\ due' \subseteq Events'
      BY <3>2 DEF TypeOK
    <3>6. QED
      BY <3>1, <3>2, <3>3, <3>4, <3>5 DEF TypeOK
  <2>2. IdleInv' /\ DueInv'
    BY DEF IdleInv, DueInv, NoCycle
  <2>3. ChainInv'
    <3>1. \A i \in Events' : chain'[i].ledger \in 1 .. head'
      <4>1. \A i \in Events : chain[i].ledger \in 1 .. head /\ chain'[i] = chain[i]
        BY CloseLedgerGrows DEF ChainInv
      <4>2. head \in Nat /\ head' = head + 1
        BY DEF TypeOK
      <4>3. SUFFICES ASSUME NEW i \in Events' PROVE chain'[i].ledger \in 1 .. head + 1
        BY <4>2
      <4>4. CASE i \in Events
        <5>1. chain'[i].ledger = chain[i].ledger /\ chain[i].ledger \in 1 .. head
          BY <4>1, <4>4
        <5>2. QED
          BY <4>2, <5>1
      <4>5. CASE i \notin Events
        <5>1. chain'[i].ledger = head + 1
          BY <4>5, CloseLedgerGrows
        <5>2. QED
          BY <4>2, <5>1
      <4>6. QED
        BY <4>4, <4>5
    <3>2. \A i, j \in Events' : i <= j => chain'[i].ledger <= chain'[j].ledger
      <4>1. SUFFICES ASSUME NEW i \in Events', NEW j \in Events', i <= j
                     PROVE  chain'[i].ledger <= chain'[j].ledger
        OBVIOUS
      <4>2. CASE j \in Events
        <5>1. i \in Events
          BY <4>1, <4>2, ChainFacts, CloseLedgerGrows
        <5>2. QED
          BY <4>1, <4>2, <5>1, CloseLedgerGrows DEF ChainInv
      <4>3. CASE j \notin Events
        <5>1. chain'[j].ledger = head + 1 /\ chain'[i].ledger \in 1 .. head + 1
          BY <3>1, <4>3, CloseLedgerGrows
        <5>2. head \in Nat
          BY DEF TypeOK
        <5>3. QED
          BY <5>1, <5>2
      <4>4. QED
        BY <4>2, <4>3
    <3>3. QED
      BY <3>1, <3>2 DEF ChainInv
  <2>4. GroupInv'
    BY CloseLedgerGrows DEF GroupInv
  <2>5. PageInv'
    <3>1. \A k \in page.events \cup page.batch \cup page.kids : chain'[k] = chain[k]
      BY CloseLedgerGrows, LocalTypes
    <3>2. page' = page /\ pc' = pc /\ cycle' = cycle
      OBVIOUS
    <3>3. QED
      BY <3>1, <3>2 DEF PageInv
  <2>6. QED
    BY <2>1, <2>2, <2>3, <2>4, <2>5
<1>2. CASE ExpireLedger
  <2> USE <1>2 DEF ExpireLedger, chainVars, dbVars, pollVars, histVars, Events
  <2>1. TypeOK'
    BY DEF TypeOK, NoCycle, NoGroup, NoPage
  <2>2. ChainInv' /\ IdleInv' /\ DueInv'
    BY DEF ChainInv, IdleInv, DueInv, NoCycle
  <2>3. GroupInv'
    BY DEF GroupInv
  <2>4. PageInv'
    BY DEF PageInv
  <2>5. QED
    BY <2>1, <2>2, <2>3, <2>4
<1>3. ASSUME NEW c \in Managed, NEW start \in AdminStarts, AdminRegister(c, start) PROVE IInv'
  <2> USE <1>3 DEF AdminRegister, chainVars, dbVars, pollVars, histVars, Events
  <2>1. TypeOK'
    <3>1. start \in Nat /\ c \in Contracts
      BY ContractsAssumption, BoundsAssumption
    <3>2. (IF start > 0 THEN start - 1 ELSE head) \in Nat
      BY <3>1 DEF TypeOK
    <3>3. /\ rowId' \in [Contracts -> Nat] /\ active' \in [Contracts -> BOOLEAN]
          /\ startAt' \in [Contracts -> Nat] /\ since' \in [Contracts -> Nat]
      BY <3>1, <3>2, RegisterContractType
    <3>4. QED
      BY <3>1, <3>2, <3>3 DEF TypeOK
  <2>2. ChainInv' /\ IdleInv' /\ DueInv'
    BY DEF ChainInv, IdleInv, DueInv, NoCycle
  <2>3. GroupInv'
    BY DEF GroupInv
  <2>4. PageInv'
    BY DEF PageInv
  <2>5. QED
    BY <2>1, <2>2, <2>3, <2>4
<1>4. ASSUME NEW c \in Managed, DeregisterContract(c) PROVE IInv'
  <2> USE <1>4 DEF DeregisterContract, chainVars, dbVars, pollVars, histVars, Events
  <2>1. TypeOK'
    BY DEF TypeOK, NoCycle, NoGroup, NoPage
  <2>2. ChainInv' /\ IdleInv' /\ DueInv'
    BY DEF ChainInv, IdleInv, DueInv, NoCycle
  <2>3. GroupInv'
    BY DEF GroupInv
  <2>4. PageInv'
    BY DEF PageInv
  <2>5. QED
    BY <2>1, <2>2, <2>3, <2>4
<1>5. CASE PollEvents
  <2> USE <1>5 DEF PollEvents, chainVars, dbVars, pollVars, histVars, Events
  <2>1. TypeOK'
    <3>1. rowId' \in [Contracts -> Nat]
      BY NextRowIdNat DEF TypeOK
    <3>2. since' \in [Contracts -> Nat]
      BY DEF TypeOK
    <3>3. active' \in [Contracts -> BOOLEAN]
      BY DEF TypeOK
    <3>4. QED
      BY <3>1, <3>2, <3>3 DEF TypeOK
  <2>2. ChainInv' /\ IdleInv' /\ DueInv'
    BY DEF ChainInv, IdleInv, DueInv, NoCycle
  <2>3. GroupInv'
    BY DEF GroupInv
  <2>4. PageInv'
    BY DEF PageInv
  <2>5. QED
    BY <2>1, <2>2, <2>3, <2>4
<1>6. CASE GroupByPointer
  <2> USE <1>6 DEF GroupByPointer, chainVars, dbVars, pollVars, histVars, Events
  <2>1. TypeOK'
    <3> DEFINE rec(c) == [pointer |-> Pointer(c),
                          members |-> {d \in Active : Pointer(d) = Pointer(c)}]
    <3> DEFINE groups == {rec(c) : c \in Active}
    <3>1. \A c \in Active : rec(c) \in [pointer : Nat, members : SUBSET Contracts]
      BY PointerNat DEF Active
    <3>2. groups \subseteq [pointer : Nat, members : SUBSET Contracts]
      BY <3>1
    <3>3. cycle' = [current |-> head, todo |-> {g \in groups : g.pointer < head}, from |-> 0]
      BY DEF NoCycle
    <3>4. head \in Nat
      BY DEF TypeOK
    <3> DEFINE ahead == {g \in groups : g.pointer < head}
    <3> HIDE DEF groups
    <3>5. ahead \in SUBSET [pointer : Nat, members : SUBSET Contracts]
      BY <3>2
    <3>6. cycle' = [current |-> head, todo |-> ahead, from |-> 0]
      BY <3>3
    <3> HIDE DEF ahead
    <3>7. cycle' \in CycleRecord
      BY <3>4, <3>5, <3>6, CycleType
    <3>8. QED
      BY <3>7 DEF TypeOK
  <2>2. ChainInv' /\ IdleInv' /\ DueInv'
    BY DEF ChainInv, IdleInv, DueInv, NoCycle
  <2>3. GroupInv'
    BY DEF GroupInv
  <2>4. PageInv'
    BY DEF PageInv
  <2>5. QED
    BY <2>1, <2>2, <2>3, <2>4
<1>7. ASSUME NEW g \in cycle.todo, BeginGroup(g) PROVE IInv'
  <2> USE <1>7 DEF BeginGroup, chainVars, dbVars, pollVars, histVars, Events
  <2>1. TypeOK'
    <3>1. g.pointer \in Nat /\ g.members \in SUBSET Contracts
      BY LocalTypes
    <3>2. MinStart(cycle.from, g.pointer + 1) \in Nat
      <4>1. cycle.from \in Nat /\ g.pointer + 1 \in Nat
        BY <3>1, LocalTypes
      <4>2. QED
        BY <4>1, MinStartFacts
    <3>3. cycle' \in CycleRecord
      BY <3>2 DEF TypeOK
    <3>4. group' = [members |-> g.members, start |-> g.pointer + 1, cursor |-> 0,
                    pages |-> 0, clamped |-> FALSE]
      BY DEF NoGroup
    <3>5. group' \in GroupRecord
      <4>1. g.pointer + 1 \in Nat
        BY <3>1
      <4> DEFINE n == g.pointer + 1
      <4>2. n \in Nat
        BY <4>1
      <4>3. group' = [members |-> g.members, start |-> n, cursor |-> 0, pages |-> 0,
                      clamped |-> FALSE]
        BY <3>4
      <4> HIDE DEF n
      <4>4. QED
        BY <3>1, <4>2, <4>3, NewGroupType
    <3>6. QED
      BY <3>3, <3>5 DEF TypeOK
  <2>2. ChainInv' /\ IdleInv' /\ DueInv'
    BY DEF ChainInv, IdleInv, DueInv, NoCycle
  <2>3. GroupInv'
    <3>1. g.pointer + 1 \in Nat /\ g.pointer + 1 > 0 /\ cycle.from \in Nat
      BY LocalTypes
    <3>2. cycle'.from = MinStart(cycle.from, g.pointer + 1)
      BY DEF TypeOK
    <3>3. group'.start = g.pointer + 1 /\ group'.cursor = 0
      BY DEF NoGroup
    <3>4. cycle'.from > 0 /\ cycle'.from <= group'.start
      BY <3>1, <3>2, <3>3, MinStartFacts
    <3>5. QED
      BY <3>3, <3>4 DEF GroupInv
  <2>4. PageInv'
    BY DEF PageInv
  <2>5. QED
    BY <2>1, <2>2, <2>3, <2>4
<1>8. CASE ClampToRetention
  <2> USE <1>8 DEF ClampToRetention, chainVars, dbVars, pollVars, histVars, Events, Retained
  <2>1. TypeOK'
    <3>1. group' \in GroupRecord
      BY DEF TypeOK
    <3>2. gap' \in Nat \X Nat
      <4>1. group.start \in Nat /\ oldest - 1 \in Nat
        BY LocalTypes DEF TypeOK
      <4>2. QED
        BY <4>1
    <3>3. excused' \in [Contracts -> Nat]
      BY ExcuseType DEF TypeOK
    <3>4. QED
      BY <3>1, <3>2, <3>3 DEF TypeOK
  <2>2. ChainInv' /\ IdleInv' /\ DueInv'
    BY DEF ChainInv, IdleInv, DueInv, NoCycle
  <2>3. GroupInv'
    BY DEF GroupInv, TypeOK
  <2>4. PageInv'
    BY DEF PageInv
  <2>5. QED
    BY <2>1, <2>2, <2>3, <2>4
<1>9. CASE FetchPage
  <2> USE <1>9 DEF FetchPage, chainVars, dbVars, pollVars, histVars, Events
  <2>1. TypeOK'
    <3>1. page' \in PageRecord'
      BY FirstNFacts, MatchingFacts DEF TypeOK
    <3>2. QED
      BY <3>1 DEF TypeOK
  <2>2. ChainInv' /\ IdleInv' /\ DueInv'
    BY DEF ChainInv, IdleInv, DueInv, NoCycle
  <2>3. GroupInv'
    BY DEF GroupInv
  <2>4. PageInv'
    <3> DEFINE found == FirstN(Matching(group.members, group.start, group.cursor), PageLimit)
    <3>1. \A i \in found :
            /\ i \in Events
            /\ IF group.cursor = 0 THEN chain[i].ledger >= group.start ELSE i > group.cursor
      BY FirstNFacts, MatchingFacts
    <3>2. \A i \in found : cycle.from <= chain[i].ledger
      <4>1. SUFFICES ASSUME NEW i \in found PROVE cycle.from <= chain[i].ledger
        OBVIOUS
      <4>2. i \in Events /\ cycle.from \in Nat /\ group.start \in Nat /\ chain[i].ledger \in Nat
        BY <3>1, ChainFacts DEF TypeOK
      <4>3. CASE group.cursor = 0
        BY <3>1, <4>2, <4>3 DEF GroupInv
      <4>4. CASE group.cursor # 0
        <5>1. group.cursor \in Events /\ cycle.from <= chain[group.cursor].ledger
          BY <4>4 DEF GroupInv
        <5>2. group.cursor <= i /\ chain[group.cursor].ledger \in Nat
          BY <3>1, <4>2, <4>4, <5>1, ChainFacts
        <5>3. chain[group.cursor].ledger <= chain[i].ledger
          BY <4>2, <5>1, <5>2 DEF ChainInv
        <5>4. QED
          BY <4>2, <5>1, <5>2, <5>3
      <4>5. QED
        BY <4>3, <4>4
    <3>3. page'.events = found /\ page'.batch = found
          /\ page'.kids = {i \in found : chain[i].child # NoContract}
      OBVIOUS
    <3>4. \A k \in page'.kids : chain[k].child \in Children
      BY <3>1, <3>3, ChainFacts
    <3> HIDE DEF found
    <3>5. QED
      BY <3>2, <3>3, <3>4 DEF PageInv
  <2>5. QED
    BY <2>1, <2>2, <2>3, <2>4
<1>10. CASE RegisterChild
  <2> USE <1>10 DEF RegisterChild, chainVars, dbVars, pollVars, histVars, Events
  <2>1. TypeOK'
    <3> DEFINE k == Min(page.kids)
    <3>1. k \in page.kids /\ k \in Events
      BY MinOfEvents DEF TypeOK
    <3>2. chain[k].child \in Contracts
      BY <3>1 DEF PageInv, Contracts
    <3>3. chain[k].ledger \in Nat /\ chain[k].ledger - 1 \in Nat
      <4>1. chain \in Seq(EventRecord) /\ DOMAIN chain = Events
        BY DEF TypeOK
      <4>2. chain[k] \in EventRecord
        BY <3>1, <4>1
      <4>3. QED
        BY <3>1, <4>2 DEF ChainInv, EventRecord
    <3>4. RegisterContract(chain[k].child, chain[k].ledger, chain[k].ledger - 1)
      OBVIOUS
    <3>5. /\ rowId' \in [Contracts -> Nat] /\ active' \in [Contracts -> BOOLEAN]
          /\ startAt' \in [Contracts -> Nat] /\ since' \in [Contracts -> Nat]
      BY <3>2, <3>3, <3>4, RegisterContractType
    <3>6. QED
      BY <3>5 DEF TypeOK
  <2>2. ChainInv' /\ IdleInv' /\ DueInv'
    BY DEF ChainInv, IdleInv, DueInv, NoCycle
  <2>3. GroupInv'
    BY DEF GroupInv
  <2>4. PageInv'
    BY DEF PageInv
  <2>5. QED
    BY <2>1, <2>2, <2>3, <2>4
<1>11. CASE FetchChildPage
  <2> USE <1>11 DEF FetchChildPage, chainVars, dbVars, pollVars, histVars, Events
  <2>1. TypeOK'
    <3> DEFINE k == Min(page.kids)
               found == FirstN(Matching({chain[k].child}, chain[k].ledger, 0), PageLimit)
    <3>1. found \in SUBSET Events
      BY FirstNFacts, MatchingFacts
    <3>2. page' = [events |-> page.events, latest |-> page.latest, kids |-> page.kids \ {k},
                   batch |-> page.batch \cup found, left |-> page.left]
      BY DEF TypeOK
    <3>3. page' \in PageRecord'
      BY <3>1, <3>2, LocalTypes
    <3>4. (IF Cardinality(found) < PageLimit THEN cycle.current ELSE LastLedgerOf(found)) \in Nat
      BY <3>1, FullPageNotEmpty, LedgersBounded DEF TypeOK
    <3>5. last' \in [Contracts -> Nat]
      BY <3>4 DEF TypeOK
    <3>6. QED
      BY <3>3, <3>5 DEF TypeOK
  <2>2. ChainInv' /\ IdleInv' /\ DueInv'
    BY DEF ChainInv, IdleInv, DueInv, NoCycle
  <2>3. GroupInv'
    BY DEF GroupInv
  <2>4. PageInv'
    <3> DEFINE k == Min(page.kids)
               found == FirstN(Matching({chain[k].child}, chain[k].ledger, 0), PageLimit)
    <3>1. k \in page.kids /\ k \in Events
      BY MinOfEvents DEF TypeOK, PageInv
    <3>2. cycle.from <= chain[k].ledger
      BY <3>1 DEF PageInv
    <3>3. \A i \in found : i \in Events /\ chain[i].ledger >= chain[k].ledger
      BY FirstNFacts, MatchingFacts
    <3>4. \A i \in found : cycle.from <= chain[i].ledger
      <4>1. SUFFICES ASSUME NEW i \in found PROVE cycle.from <= chain[i].ledger
        OBVIOUS
      <4>2. /\ cycle.from \in Nat
            /\ chain[k].ledger \in Nat /\ chain[i].ledger \in Nat
        BY <3>1, <3>3, ChainFacts, LocalTypes
      <4>3. chain[i].ledger >= chain[k].ledger
        BY <3>3
      <4>4. QED
        BY <3>2, <4>2, <4>3
    <3>5. page'.events = page.events /\ page'.batch = page.batch \cup found
          /\ page'.kids = page.kids \ {k}
      BY DEF TypeOK
    <3> HIDE DEF found
    <3>6. QED
      BY <3>4, <3>5 DEF PageInv
  <2>5. QED
    BY <2>1, <2>2, <2>3, <2>4
<1>12. CASE SkipChildPage
  <2> USE <1>12 DEF SkipChildPage, chainVars, dbVars, pollVars, histVars, Events
  <2>1. TypeOK'
    <3>1. excused' \in [Contracts -> Nat]
      BY ExcuseType DEF TypeOK
    <3>2. QED
      BY <3>1 DEF TypeOK, NoCycle, NoGroup, NoPage
  <2>2. ChainInv' /\ IdleInv' /\ DueInv'
    BY DEF ChainInv, IdleInv, DueInv, NoCycle
  <2>3. GroupInv'
    BY DEF GroupInv
  <2>4. PageInv'
    BY DEF PageInv
  <2>5. QED
    BY <2>1, <2>2, <2>3, <2>4
<1>13. CASE InsertEventBatch
  <2> USE <1>13 DEF InsertEventBatch, chainVars, dbVars, pollVars, histVars, Events, Rows
  <2>1. TypeOK'
    <3>1. globalLedger' \in Nat
      BY NewLedgerNat
    <3>2. page' \in PageRecord'
      BY DEF TypeOK
    <3>3. stored' \subseteq Events' /\ due' \subseteq Events'
      BY DEF TypeOK
    <3>4. excused' \in [Contracts -> Nat]
      <4>1. [c \in Contracts |-> NewLedger] \in [Contracts -> Nat]
        BY NewLedgerNat
      <4>2. QED
        BY <4>1, ExcuseType
    <3>5. QED
      BY <3>1, <3>2, <3>3, <3>4 DEF TypeOK
  <2>2. ChainInv' /\ IdleInv' /\ DueInv'
    BY DEF ChainInv, IdleInv, DueInv, NoCycle
  <2>3. GroupInv'
    BY DEF GroupInv
  <2>4. PageInv'
    BY DEF PageInv
  <2>5. QED
    BY <2>1, <2>2, <2>3, <2>4
<1>14. ASSUME NEW c \in page.left, UpdateContractPointer(c) PROVE IInv'
  <2> USE <1>14 DEF UpdateContractPointer, chainVars, dbVars, pollVars, histVars, Events
  <2>1. TypeOK'
    <3> DEFINE more == page.left # {c}
    <3>1. last' \in [Contracts -> Nat]
      BY NewLedgerNat DEF TypeOK
    <3>2. CASE more
      <4>1. page' \in PageRecord'
        <5>1. page' = [events |-> page.events, latest |-> page.latest, kids |-> page.kids,
                       batch |-> page.batch, left |-> page.left \ {c}]
          BY <3>2 DEF TypeOK
        <5>2. QED
          BY <5>1, LocalTypes
      <4>2. QED
        BY <3>1, <3>2, <4>1 DEF TypeOK
    <3>3. CASE ~ more
      <4>1. page' \in PageRecord'
        BY <3>3 DEF NoPage
      <4>2. CASE IsLastPage \/ group.pages + 1 = MaxPages
        <5>1. group' \in GroupRecord
          <6>1. group' = NoGroup
            BY <3>3, <4>2
          <6>2. QED
            BY <6>1 DEF NoGroup
        <5>2. pc' = "groups"
          BY <3>3, <4>2
        <5>3. QED
          BY <3>1, <4>1, <5>1, <5>2 DEF TypeOK
      <4>3. CASE ~ (IsLastPage \/ group.pages + 1 = MaxPages)
        <5>1. Max(page.events) \in Nat
          <6>1. page.events # {} /\ page.events \in SUBSET Events
            BY <4>3, FullPageNotEmpty, LocalTypes DEF IsLastPage
          <6>2. QED
            BY <6>1, MaxOfEvents, ChainFacts
        <5>2. /\ pc' = "fetch"
              /\ group' = [group EXCEPT !.cursor = Max(page.events), !.pages = @ + 1]
          BY <3>3, <4>3
        <5>3. group' \in GroupRecord
          <6>1. group' = [members |-> group.members, start |-> group.start,
                          cursor |-> Max(page.events), pages |-> group.pages + 1,
                          clamped |-> group.clamped]
            BY <5>2 DEF TypeOK
          <6>2. QED
            BY <5>1, <6>1, LocalTypes
        <5>4. QED
          BY <3>1, <4>1, <5>2, <5>3 DEF TypeOK
      <4>4. QED
        BY <4>2, <4>3
    <3>4. QED
      BY <3>2, <3>3
  <2>2. ChainInv' /\ IdleInv' /\ DueInv'
    BY DEF ChainInv, IdleInv, DueInv, NoCycle
  <2>3. GroupInv'
    <3>1. CASE pc' = "fetch"
      <4>1. ~ IsLastPage /\ group' = [group EXCEPT !.cursor = Max(page.events), !.pages = @ + 1]
        BY <3>1
      <4>2. Max(page.events) \in page.events /\ page.events \subseteq Events
        BY <4>1, FullPageNotEmpty, MaxOfEvents DEF TypeOK, IsLastPage
      <4>3. group'.start = group.start /\ group'.cursor = Max(page.events)
        BY <4>1 DEF TypeOK
      <4>4. QED
        BY <4>2, <4>3 DEF GroupInv, PageInv
    <3>2. CASE pc' # "fetch"
      BY <3>2 DEF GroupInv
    <3>3. QED
      BY <3>1, <3>2
  <2>4. PageInv'
    BY DEF PageInv, TypeOK
  <2>5. QED
    BY <2>1, <2>2, <2>3, <2>4
<1>15. CASE FinishPoll
  <2> USE <1>15 DEF FinishPoll, chainVars, dbVars, pollVars, histVars, Events, EndCycle
  <2>1. TypeOK'
    <3>1. cycle' \in CycleRecord
      BY DEF NoCycle
    <3>2. group' \in GroupRecord
      BY DEF NoGroup
    <3>3. page' \in PageRecord'
      BY DEF NoPage
    <3>4. queue' \in Seq(Nat \X Nat)
      BY DEF TypeOK
    <3>5. QED
      BY <3>1, <3>2, <3>3, <3>4 DEF TypeOK
  <2>2. ChainInv' /\ IdleInv' /\ DueInv'
    BY DEF ChainInv, IdleInv, DueInv, NoCycle
  <2>3. GroupInv'
    BY DEF GroupInv
  <2>4. PageInv'
    BY DEF PageInv
  <2>5. QED
    BY <2>1, <2>2, <2>3, <2>4
<1>16. CASE FailPoll
  <2> USE <1>16 DEF FailPoll, chainVars, dbVars, pollVars, histVars, Events, EndCycle
  <2>1. TypeOK'
    <3>1. cycle' \in CycleRecord
      BY DEF NoCycle
    <3>2. group' \in GroupRecord
      BY DEF NoGroup
    <3>3. page' \in PageRecord'
      BY DEF NoPage
    <3>4. QED
      BY <3>1, <3>2, <3>3 DEF TypeOK
  <2>2. ChainInv' /\ IdleInv' /\ DueInv'
    BY DEF ChainInv, IdleInv, DueInv, NoCycle
  <2>3. GroupInv'
    BY DEF GroupInv
  <2>4. PageInv'
    BY DEF PageInv
  <2>5. QED
    BY <2>1, <2>2, <2>3, <2>4
<1>17. CASE Crash
  <2> USE <1>17 DEF Crash, chainVars, dbVars, pollVars, histVars, Events, EndCycle
  <2>1. TypeOK'
    <3>1. cycle' \in CycleRecord
      BY DEF NoCycle
    <3>2. group' \in GroupRecord
      BY DEF NoGroup
    <3>3. page' \in PageRecord'
      BY DEF NoPage
    <3>4. queue' \in Seq(Nat \X Nat)
      BY DEF TypeOK
    <3>5. QED
      BY <3>1, <3>2, <3>3, <3>4 DEF TypeOK
  <2>2. ChainInv' /\ IdleInv' /\ DueInv'
    BY DEF ChainInv, IdleInv, DueInv, NoCycle
  <2>3. GroupInv'
    BY DEF GroupInv
  <2>4. PageInv'
    BY DEF PageInv
  <2>5. QED
    BY <2>1, <2>2, <2>3, <2>4
<1>18. CASE DeliverRange
  <2> USE <1>18 DEF DeliverRange, chainVars, dbVars, pollVars, histVars, Events
  <2>1. TypeOK'
    <3>1. offered' \subseteq Events'
      BY DEF TypeOK
    <3>2. queue' \in Seq(Nat \X Nat)
      BY DEF TypeOK
    <3>3. QED
      BY <3>1, <3>2 DEF TypeOK
  <2>2. ChainInv' /\ IdleInv' /\ DueInv'
    BY DEF ChainInv, IdleInv, DueInv, NoCycle
  <2>3. GroupInv'
    BY DEF GroupInv
  <2>4. PageInv'
    BY DEF PageInv
  <2>5. QED
    BY <2>1, <2>2, <2>3, <2>4
<1>19. CASE UNCHANGED vars
  BY <1>19 DEF TypeOK, ChainInv, IdleInv, GroupInv, PageInv, DueInv, vars, Events
<1>20. QED
  BY <1>1, <1>2, <1>3, <1>4, <1>5, <1>6, <1>7, <1>8, <1>9, <1>10, <1>11, <1>12, <1>13,
     <1>14, <1>15, <1>16, <1>17, <1>18, <1>19 DEF Next, Poll

\* The inductive invariant holds in every reachable state.
THEOREM Invariance == Spec => []IInv
<1>1. Init => IInv
  BY InitIInv
<1>2. IInv /\ [Next]_vars => IInv'
  BY NextIInv
<1>3. QED
  BY <1>1, <1>2, PTL DEF Spec

\* The poller's state keeps its type: no pointer, start ledger, range or minimum
\* is ever taken of nothing or negative.
THEOREM TypeCorrect == Spec => []TypeOK
<1>1. IInv => TypeOK
  BY DEF IInv
<1>2. QED
  BY <1>1, Invariance, PTL

(***************************************************************************)
(* Action properties                                                       *)
(***************************************************************************)

\* No poll step activates an adopted contract that has a row: PollEvents activates
\* the factory and rows it creates, RegisterChild activates children.
LEMMA StepKeepsAdopted ==
  IInv /\ [Next]_vars =>
    [\A c \in Adopted : Registered(c) /\ active'[c] /\ ~ active[c] => UNCHANGED pollVars]_vars
<1> SUFFICES ASSUME IInv, Next, NEW c \in Adopted, Registered(c), active'[c], ~ active[c]
             PROVE  UNCHANGED pollVars
  OBVIOUS
<1>1. c \in Contracts /\ c # Factory /\ c \notin Children
  BY ContractsAssumption DEF Contracts
<1>2. active \in [Contracts -> BOOLEAN]
  BY DEF IInv, TypeOK
<1>3. active' # active
  OBVIOUS
<1>4. ~ PollEvents
  BY <1>1 DEF PollEvents, Activated
<1>5. ~ RegisterChild
  <2>1. SUFFICES ASSUME RegisterChild PROVE FALSE
    OBVIOUS
  <2>2. chain[Min(page.kids)].child \in Children
    <3>1. page.kids \in SUBSET Events /\ page.kids # {} /\ pc = "page"
      BY <2>1, LocalTypes DEF RegisterChild, IInv
    <3>2. Min(page.kids) \in page.kids
      BY <3>1, MinOfEvents DEF IInv
    <3>3. QED
      BY <3>1, <3>2 DEF IInv, PageInv
  <2>3. active' = [active EXCEPT ![chain[Min(page.kids)].child] = TRUE]
    BY <2>1 DEF RegisterChild, RegisterContract
  <2>4. QED
    BY <1>1, <1>2, <2>2, <2>3
<1>6. CASE \E d \in Managed, start \in AdminStarts : AdminRegister(d, start)
  BY <1>6 DEF AdminRegister, pollVars
<1>7. CASE \E d \in Managed : DeregisterContract(d)
  BY <1>7 DEF DeregisterContract, pollVars
<1>8. QED
  BY <1>3, <1>4, <1>5, <1>6, <1>7 DEF Next, Poll, dbVars, CloseLedger, ExpireLedger,
     GroupByPointer, BeginGroup, ClampToRetention, FetchPage, FetchChildPage, SkipChildPage,
     InsertEventBatch, UpdateContractPointer, FinishPoll, FailPoll, Crash, DeliverRange

\* A deregistered CONTRACT_ID or adopted contract is activated again by nobody
\* but the administrator.
THEOREM AdoptedContracts == Spec => AdoptedStaysDeregistered
  BY Invariance, StepKeepsAdopted, PTL DEF Spec, AdoptedStaysDeregistered

\* What is planned for webhooks stays planned when the queue stays and the range of
\* the cycle, if there is one, only grows.
LEMMA PlannedKept ==
  ASSUME IInv, NEW i \in Events, WebhookPlanned(i),
         chain'[i] = chain[i], offered \subseteq offered', queue' = queue,
         cycle.from # 0 => /\ pc # "idle" => pc' # "idle"
                           /\ cycle'.current = cycle.current
                           /\ cycle'.from \in Nat \ {0} /\ cycle'.from <= cycle.from
  PROVE  WebhookPlanned(i)'
<1>1. CASE i \in offered
  BY <1>1 DEF WebhookPlanned
<1>2. CASE \E n \in DOMAIN queue : chain[i].ledger \in queue[n][1] .. queue[n][2]
  BY <1>2 DEF WebhookPlanned
<1>3. CASE pc # "idle" /\ cycle.from # 0 /\ chain[i].ledger \in cycle.from .. cycle.current
  <2>1. /\ cycle.from \in Nat /\ cycle.current \in Nat /\ chain[i].ledger \in Nat
    BY LocalTypes, ChainFacts DEF IInv
  <2>2. chain'[i].ledger \in cycle'.from .. cycle'.current
    BY <1>3, <2>1
  <2>3. QED
    BY <1>3, <2>2 DEF WebhookPlanned
<1>4. QED
  BY <1>1, <1>2, <1>3 DEF WebhookPlanned

\* Only FailPoll and Crash take a due row out of the webhook plan, and a row enters
\* `due` inside the range of its cycle.
LEMMA StepKeepsWebhooks ==
  IInv /\ [Next]_vars =>
    [\A i \in due' : \/ WebhookPlanned(i)'
                     \/ i \in due /\ ~ WebhookPlanned(i)
                     \/ FailPoll
                     \/ Crash]_vars
<1> SUFFICES ASSUME IInv, Next, ~ FailPoll, ~ Crash, NEW i \in due',
                    i \in due => WebhookPlanned(i)
             PROVE  WebhookPlanned(i)'
  OBVIOUS
<1> DEFINE Keeps == /\ due' = due /\ chain' = chain /\ offered' = offered /\ queue' = queue
                    /\ cycle.from # 0 =>
                         /\ pc # "idle" => pc' # "idle"
                         /\ cycle'.current = cycle.current
                         /\ cycle'.from \in Nat \ {0} /\ cycle'.from <= cycle.from
<1>1. due \subseteq Events /\ due \subseteq stored
  BY DEF IInv, TypeOK, DueInv
<1>2. CASE Keeps
  BY <1>1, <1>2, PlannedKept
<1>3. CASE CloseLedger
  <2>1. due' = due /\ offered' = offered /\ queue' = queue /\ pc' = pc /\ cycle' = cycle
    BY <1>3 DEF CloseLedger, pollVars, histVars
  <2>2. chain'[i] = chain[i]
    BY <1>1, <1>3, <2>1, CloseLedgerGrows
  <2>3. cycle.from \in Nat
    BY LocalTypes DEF IInv
  <2>4. QED
    BY <1>1, <2>1, <2>2, <2>3, PlannedKept
<1>4. CASE UNCHANGED <<due, chain, offered, queue, pc, cycle>>
  BY <1>2, <1>4, LocalTypes DEF IInv
<1>5. CASE PollEvents
  <2>1. cycle.from = 0
    BY <1>5 DEF PollEvents, IInv, IdleInv, NoCycle
  <2>2. QED
    BY <1>2, <1>5, <2>1 DEF PollEvents, chainVars
<1>6. CASE GroupByPointer
  <2>1. cycle.from = 0
    BY <1>6 DEF GroupByPointer, IInv, IdleInv, NoCycle
  <2>2. QED
    BY <1>2, <1>6, <2>1 DEF GroupByPointer, chainVars, histVars
<1>7. ASSUME NEW g \in cycle.todo, BeginGroup(g) PROVE WebhookPlanned(i)'
  <2>1. g.pointer + 1 \in Nat /\ g.pointer + 1 > 0 /\ cycle.from \in Nat
    BY LocalTypes DEF IInv
  <2>2. cycle'.from = MinStart(cycle.from, g.pointer + 1) /\ cycle'.current = cycle.current
    BY <1>7 DEF BeginGroup, IInv, TypeOK
  <2>3. pc' = "fetch" /\ UNCHANGED <<due, chain, offered, queue>>
    BY <1>7 DEF BeginGroup, chainVars, histVars
  <2>4. QED
    <3>1. cycle.from # 0 => cycle'.from \in Nat \ {0} /\ cycle'.from <= cycle.from
      <4> DEFINE start == g.pointer + 1
      <4>1. start \in Nat /\ start > 0 /\ cycle'.from = MinStart(cycle.from, start)
        BY <2>1, <2>2
      <4> HIDE DEF start
      <4>2. /\ MinStart(cycle.from, start) \in Nat /\ MinStart(cycle.from, start) > 0
            /\ cycle.from # 0 => MinStart(cycle.from, start) <= cycle.from
        BY <2>1, <4>1, MinStartFacts
      <4>3. QED
        BY <4>1, <4>2
    <3>2. QED
      BY <1>2, <2>2, <2>3, <3>1
<1>8. CASE InsertEventBatch
  <2>1. UNCHANGED <<chain, offered, queue, cycle>> /\ pc = "page" /\ pc' = "advance"
    BY <1>8 DEF InsertEventBatch, chainVars
  <2>2. cycle.from \in Nat /\ cycle.from > 0
    BY <2>1, LocalTypes DEF IInv, GroupInv
  <2>3. CASE i \in due
    BY <1>1, <2>1, <2>2, <2>3, PlannedKept
  <2>4. CASE i \notin due
    <3>1. i \in page.batch /\ i \in Events /\ chain[i].ledger <= cycle.current
      BY <1>8, <2>4, LocalTypes DEF InsertEventBatch, Rows, IInv
    <3>2. cycle.from <= chain[i].ledger
      BY <2>1, <3>1 DEF IInv, PageInv
    <3>3. chain[i].ledger \in Nat /\ cycle.current \in Nat
      BY <3>1, LocalTypes, ChainFacts DEF IInv
    <3>4. chain[i].ledger \in cycle.from .. cycle.current
      BY <2>2, <3>1, <3>2, <3>3
    <3>5. QED
      BY <2>1, <2>2, <3>4 DEF WebhookPlanned
  <2>5. QED
    BY <2>3, <2>4
<1>9. CASE FinishPoll
  <2>1. /\ UNCHANGED <<chain, offered, due>>
        /\ queue' = IF cycle.from = 0 THEN queue
                    ELSE Append(queue, <<cycle.from, cycle.current>>)
    BY <1>9 DEF FinishPoll, EndCycle, chainVars, histVars
  <2>2. queue \in Seq(Nat \X Nat) /\ cycle.from \in Nat /\ cycle.current \in Nat
    BY LocalTypes DEF IInv, TypeOK
  <2>3. \A n \in DOMAIN queue : n \in DOMAIN queue' /\ queue'[n] = queue[n]
    BY <2>1, <2>2
  <2>4. WebhookPlanned(i)
    BY <2>1
  <2>5. CASE i \in offered
    BY <2>1, <2>5 DEF WebhookPlanned
  <2>6. CASE \E n \in DOMAIN queue : chain[i].ledger \in queue[n][1] .. queue[n][2]
    BY <2>1, <2>3, <2>6 DEF WebhookPlanned
  <2>7. CASE cycle.from # 0 /\ chain[i].ledger \in cycle.from .. cycle.current
    <3>1. /\ Len(queue) + 1 \in DOMAIN queue'
          /\ queue'[Len(queue) + 1] = <<cycle.from, cycle.current>>
      BY <2>1, <2>2, <2>7
    <3>2. QED
      BY <2>1, <2>7, <3>1 DEF WebhookPlanned
  <2>8. QED
    BY <2>4, <2>5, <2>6, <2>7 DEF WebhookPlanned
<1>10. CASE DeliverRange
  <2>1. /\ UNCHANGED <<chain, due, pc, cycle>> /\ queue # <<>> /\ queue' = Tail(queue)
        /\ offered' = offered \cup
             {j \in stored : chain[j].ledger \in Head(queue)[1] .. Head(queue)[2]}
    BY <1>10 DEF DeliverRange, chainVars, pollVars, histVars
  <2>2. queue \in Seq(Nat \X Nat)
    BY DEF IInv, TypeOK
  <2>3. WebhookPlanned(i) /\ i \in stored
    BY <1>1, <2>1
  <2>4. CASE i \in offered
    BY <2>1, <2>4 DEF WebhookPlanned
  <2>5. CASE pc # "idle" /\ cycle.from # 0 /\ chain[i].ledger \in cycle.from .. cycle.current
    BY <2>1, <2>5 DEF WebhookPlanned
  <2>6. ASSUME NEW n \in DOMAIN queue, chain[i].ledger \in queue[n][1] .. queue[n][2]
        PROVE  WebhookPlanned(i)'
    <3>1. CASE n = 1
      <4>1. Head(queue) = queue[n]
        BY <2>1, <2>2, <3>1
      <4>2. QED
        BY <2>1, <2>3, <2>6, <4>1 DEF WebhookPlanned
    <3>2. CASE n # 1
      <4>1. n - 1 \in DOMAIN queue' /\ queue'[n - 1] = queue[n]
        <5>1. Len(queue) \in Nat /\ DOMAIN queue = 1 .. Len(queue)
          BY <2>2
        <5>2. /\ DOMAIN queue' = 1 .. Len(queue) - 1
              /\ \A j \in 1 .. Len(queue) - 1 : queue'[j] = queue[j + 1]
          BY <2>1, <2>2
        <5>3. n - 1 \in 1 .. Len(queue) - 1 /\ (n - 1) + 1 = n
          BY <3>2, <5>1
        <5>4. QED
          BY <5>2, <5>3
      <4>2. QED
        BY <2>1, <2>6, <4>1 DEF WebhookPlanned
    <3>3. QED
      BY <3>1, <3>2
  <2>7. QED
    BY <2>3, <2>4, <2>5, <2>6 DEF WebhookPlanned
<1>11. CASE \/ ClampToRetention \/ FetchPage \/ RegisterChild \/ FetchChildPage \/ SkipChildPage
            \/ \E c \in page.left : UpdateContractPointer(c)
  <2>1. UNCHANGED <<due, chain, offered, queue, cycle>>
    BY <1>11 DEF ClampToRetention, FetchPage, RegisterChild, FetchChildPage, SkipChildPage,
       UpdateContractPointer, chainVars, dbVars, histVars
  <2>2. pc' # "idle"
    BY <1>11 DEF ClampToRetention, FetchPage, RegisterChild, FetchChildPage, SkipChildPage,
       UpdateContractPointer
  <2>3. cycle.from \in Nat
    BY LocalTypes DEF IInv
  <2>4. QED
    BY <1>2, <2>1, <2>2, <2>3
<1>12. QED
  BY <1>3, <1>4, <1>5, <1>6, <1>7, <1>8, <1>9, <1>10, <1>11
     DEF Next, Poll, ExpireLedger, AdminRegister, DeregisterContract, chainVars, pollVars, histVars

\* A row a cycle stored keeps being planned for delivery until a delivery run
\* has read it; only a failed cycle or a crash gives it up.
THEOREM WebhookLoss == Spec => WebhookLossOnlyByFailure
  BY Invariance, StepKeepsWebhooks, PTL DEF Spec, WebhookLossOnlyByFailure

(***************************************************************************)
(* The invariant behind LossHasACause                                      *)
(***************************************************************************)

\* A poll cycle is working on a group.
Polling == pc \in {"fetch", "page", "child", "advance"}

\* The first page of the child a `created` event announces.
FirstPage(k) == FirstN(Matching({chain[k].child}, chain[k].ledger, 0), PageLimit)

\* An event of that child, in a ledger its first page reaches.
OnFirstPage(i, k) == /\ chain[i].contract = chain[k].child
                     /\ \E j \in FirstPage(k) : chain[j].ledger = chain[i].ledger

\* By what the database says, the `created` event of a contract is lost.
Cut(c) == \E k \in Events : /\ chain[k].child = c
                            /\ TailOf(k, stored) \/ chain[k].ledger <= excused[Factory]

\* The event is stored or not owed, or has a cause that no later step takes away.
Explained(i) ==
  \/ ~ Owed(i)
  \/ i \in stored
  \/ chain[i].ledger < oldest
  \/ chain[i].ledger <= excused[chain[i].contract]
  \/ TailOf(i, stored)
  \/ Cut(chain[i].contract)

\* The factory's pointer has not passed a `created` event that brings the event back.
Refetched(i) == \E k \in Events : OnFirstPage(i, k) /\ chain[k].ledger > Pointer(Factory)

\* What a pointer may pass.
Accounted(i) == \/ Explained(i)
                \/ Refetched(i) /\ chain[i].ledger <= last[chain[i].contract]

\* Nothing depends on reading this `created` event once more.
Settled(k) ==
  \A i \in Events : OnFirstPage(i, k) /\ chain[i].ledger <= last[chain[i].contract] => Explained(i)

\* An event of the group that its next request does not ask for any more.
Behind(i) == /\ chain[i].contract \in group.members
             /\ IF group.cursor = 0 THEN chain[i].ledger < group.start ELSE i <= group.cursor

\* What the batch has or leaves to a split.
InBatch(i) == i \in page.batch \/ TailOf(i, page.batch)

\* No pointer is ahead of the head, but for a contract that starts there, which is
\* owed nothing before.
BoundInv ==
  /\ globalLedger <= head /\ cycle.current <= head
  /\ 1 <= oldest /\ (oldest = 1 \/ oldest <= head)
  /\ \A c \in Contracts : last[c] <= head
  /\ \A c \in Contracts : startAt[c] > 0 => since[c] = startAt[c] - 1

\* Only registered contracts are polled and have pointers; the factory is the first.
RowInv ==
  /\ \A c \in Contracts : ~ Registered(c) => last[c] = 0 /\ startAt[c] = 0
  /\ \A c \in Contracts : active[c] => Registered(c)
  /\ ~ Registered(Factory) => pc = "idle" /\ \A c \in Contracts : last[c] = 0
  /\ pc = "child" => Registered(chain[Min(page.kids)].child)

\* A child is announced once, by the factory, and emits nothing in a ledger before.
AnnounceInv ==
  /\ \A k, l \in Events :
       chain[k].child \in Children /\ chain[k].child = chain[l].child => k = l
  /\ \A k \in Events : chain[k].child \in Children => chain[k].contract = Factory
  /\ \A i \in Events : chain[i].contract \in Children =>
       \E k \in Events : chain[k].child = chain[i].contract /\ chain[k].ledger <= chain[i].ledger

\* What the pointers in the database have passed is accounted for.
PointerInv == \A i \in Events : chain[i].ledger <= Pointer(chain[i].contract) => Accounted(i)

\* So is what the groups still to be polled start behind; their `created` events are
\* settled; and the factory's pointer is where its group starts, unless it was overtaken.
TodoInv ==
  /\ \A g \in cycle.todo :
       /\ g.pointer < cycle.current
       /\ \A c \in g.members : Registered(c)
       /\ \A i \in Events : chain[i].contract \in g.members /\ chain[i].ledger <= g.pointer =>
            Accounted(i) /\ Settled(i)
       /\ Factory \in g.members =>
            Pointer(Factory) <= g.pointer \/ Pointer(Factory) <= excused[Factory]
       /\ Polling => g.members \cap group.members = {}
  /\ \A g, h \in cycle.todo : g # h => g.members \cap h.members = {}

\* The same for the group at work and the events its next request leaves behind; a
\* cursor is the last row of a full page.
BehindInv ==
  Polling =>
    /\ cycle.current > 0
    /\ 1 <= group.start /\ group.start <= head
    /\ \A c \in group.members : Registered(c)
    /\ \A i \in Events : Behind(i) => Accounted(i) /\ Settled(i)
    /\ group.cursor # 0 => /\ group.cursor \in stored
                           /\ Cardinality({j \in stored : j <= group.cursor}) >= PageLimit
    /\ pc # "advance" /\ Factory \in group.members =>
         IF group.cursor = 0
         THEN Pointer(Factory) < group.start \/ Pointer(Factory) <= excused[Factory]
         ELSE Pointer(Factory) <= chain[group.cursor].ledger

\* A page holds the events behind the request up to the ledger it moves the pointers
\* to, but for the tail of a full one; the children of its handled `created` events
\* are settled by the batch; what is committed is stored, and the members that are
\* not left have their new pointer.
BatchInv ==
  pc \in {"page", "child", "advance"} =>
    /\ group.start <= page.latest /\ page.latest <= head
    /\ group.cursor # 0 => chain[group.cursor].ledger <= page.latest
    /\ page.events \subseteq page.batch /\ page.kids \subseteq page.events
    /\ \A i \in page.events : chain[i].contract \in group.members /\ ~ Behind(i)
    /\ \A i \in Events :
         chain[i].contract \in group.members /\ ~ Behind(i) /\ chain[i].ledger <= NewLedger =>
           i \in page.events \/ (~ IsLastPage /\ \A j \in page.events : j < i)
    /\ \A k \in page.events \ page.kids : \A i \in Events :
         OnFirstPage(i, k) /\ chain[i].ledger <= last[chain[i].contract] =>
           Explained(i) \/ InBatch(i)
    /\ pc = "advance" => /\ page.batch \subseteq stored /\ page.kids = {}
                         /\ page.left \subseteq group.members
                         /\ \A c \in group.members \ page.left : last[c] = NewLedger

LossInv ==
  /\ BoundInv
  /\ RowInv
  /\ AnnounceInv
  /\ PointerInv
  /\ TodoInv
  /\ BehindInv
  /\ BatchInv

\* The ledger a pointer is compared with is that of an event: positive and at most
\* the head.
LEMMA LedgerFacts ==
  ASSUME IInv
  PROVE  /\ head \in Nat /\ oldest \in Nat
         /\ \A i \in Events : /\ i \in Nat /\ chain[i].ledger \in Nat
                             /\ 1 <= chain[i].ledger /\ chain[i].ledger <= head
                             /\ chain[i].contract \in Contracts
         /\ \A i, j \in Events : i <= j => chain[i].ledger <= chain[j].ledger
<1>1. head \in Nat /\ oldest \in Nat /\ TypeOK /\ ChainInv
  BY DEF IInv, TypeOK
<1>2. \A i \in Events : /\ chain[i].ledger \in Nat
                        /\ 1 <= chain[i].ledger /\ chain[i].ledger <= head
  BY <1>1 DEF ChainInv
<1>3. \A i \in Events : i \in Nat /\ chain[i].contract \in Contracts
  BY <1>1, ChainFacts
<1>4. QED
  BY <1>1, <1>2, <1>3 DEF ChainInv

\* There are finitely many events.
LEMMA EventsFinite ==
  ASSUME TypeOK, NEW S \in SUBSET Events
  PROVE  IsFiniteSet(S) /\ Cardinality(S) \in Nat
<1>1. Events = 1 .. Len(chain) /\ Len(chain) \in Nat
  <2>1. chain \in Seq(EventRecord)
    BY DEF TypeOK
  <2>2. QED
    BY <2>1, ChainFacts
<1>2. IsFiniteSet(Events)
  BY <1>1, FS_Interval
<1>3. QED
  BY <1>2, FS_Subset, FS_CardinalityType

\* The events are numbers from 1 on, so a page of them is the beginning of what matches.
LEMMA PageBegins ==
  ASSUME TypeOK, NEW S \in SUBSET Events, NEW n \in Nat
  PROVE  /\ \A i \in S \ FirstN(S, n), j \in FirstN(S, n) : j < i
         /\ Cardinality(FirstN(S, n)) < n => FirstN(S, n) = S
<1>1. Events = 1 .. Len(chain) /\ Len(chain) \in Nat
  <2>1. chain \in Seq(EventRecord)
    BY DEF TypeOK
  <2>2. QED
    BY <2>1, ChainFacts
<1>2. Events \subseteq 0 .. Len(chain)
  BY <1>1
<1>3. S \in SUBSET (0 .. Len(chain))
  BY <1>2
<1> HIDE DEF Events
<1>4. QED
  BY <1>1, <1>3, FirstNBegins

\* More rows only make a tail longer.
LEMMA TailGrows ==
  ASSUME TypeOK, NEW S \in SUBSET Events, NEW T \in SUBSET Events, S \subseteq T,
         NEW i \in Events, TailOf(i, S)
  PROVE  TailOf(i, T)
<1> DEFINE b == {j \in S : j < i}
           d == {j \in T : j < i}
<1>1. b \subseteq d /\ d \in SUBSET Events /\ b \in SUBSET Events
  OBVIOUS
<1>2. Cardinality(b) >= PageLimit /\ \E j \in b : chain[j].ledger = chain[i].ledger
  BY DEF TailOf
<1>3. Cardinality(d) >= PageLimit
  <2> HIDE DEF b, d
  <2>1. Cardinality(b) <= Cardinality(d)
    BY <1>1, EventsFinite, FS_Subset
  <2>2. Cardinality(b) \in Nat /\ Cardinality(d) \in Nat
    BY <1>1, EventsFinite
  <2>3. QED
    BY <1>2, <2>1, <2>2, BoundsAssumption
<1>4. QED
  BY <1>1, <1>2, <1>3 DEF TailOf

\* What lies behind a full set of rows in the ledger of the last of them is its tail.
LEMMA BehindFullPage ==
  ASSUME IInv, NEW S \in SUBSET Events, NEW T \in SUBSET Events, S \subseteq T,
         ~ (Cardinality(S) < PageLimit), NEW i \in Events, \A j \in S : j < i,
         chain[i].ledger <= LastLedgerOf(S)
  PROVE  TailOf(i, T) /\ chain[i].ledger = LastLedgerOf(S)
<1>1. S # {}
  BY FullPageNotEmpty
<1> DEFINE L == {chain[j].ledger : j \in S}
<1>2. Max(L) \in L
  <2>1. L \in SUBSET (0 .. head) /\ head \in Nat
    BY LedgerFacts
  <2>2. L # {}
    BY <1>1
  <2> HIDE DEF L
  <2>3. QED
    BY <2>1, <2>2, MaxProperty
<1>3. PICK j \in S : chain[j].ledger = LastLedgerOf(S)
  BY <1>2 DEF LastLedgerOf
<1>4. j < i /\ chain[j].ledger <= chain[i].ledger
  BY <1>3, LedgerFacts
<1>5. chain[i].ledger = LastLedgerOf(S) /\ chain[j].ledger = chain[i].ledger
  BY <1>3, <1>4, LedgerFacts
<1>6. TailOf(i, S)
  <2>1. {x \in S : x < i} = S
    OBVIOUS
  <2>2. Cardinality(S) >= PageLimit
    BY EventsFinite, BoundsAssumption DEF IInv
  <2>3. QED
    BY <1>5, <2>1, <2>2 DEF TailOf
<1>7. QED
  BY <1>5, <1>6, TailGrows DEF IInv

\* The ledger a page moves the pointers to: not beyond the head, and not before what
\* the request left behind.
LEMMA NewLedgerBounds ==
  ASSUME IInv, LossInv, pc \in {"page", "child", "advance"}
  PROVE  /\ NewLedger \in Nat /\ 1 <= NewLedger /\ NewLedger <= head
         /\ \A i \in Events : Behind(i) => chain[i].ledger <= NewLedger
         /\ ~ IsLastPage => /\ page.events # {}
                            /\ \A i \in page.events : chain[i].ledger <= NewLedger
                            /\ \E i \in page.events : chain[i].ledger = NewLedger
<1>1. NewLedger \in Nat
  BY NewLedgerNat
<1>2. /\ group.start <= page.latest /\ page.latest <= head
      /\ group.cursor # 0 => chain[group.cursor].ledger <= page.latest
      /\ \A i \in page.events : chain[i].contract \in group.members /\ ~ Behind(i)
  BY DEF LossInv, BatchInv
<1>3. /\ 1 <= group.start
      /\ group.cursor # 0 => group.cursor \in Events
  BY DEF LossInv, BehindInv, Polling, IInv, GroupInv
<1>4. /\ page.latest \in Nat /\ group.start \in Nat /\ group.cursor \in Nat
      /\ page.events \in SUBSET Events
  BY LocalTypes DEF IInv
<1>5. CASE IsLastPage
  <2>1. NewLedger = page.latest
    BY <1>5 DEF NewLedger
  <2>2. ASSUME NEW i \in Events, Behind(i) PROVE chain[i].ledger <= NewLedger
    <3>1. CASE group.cursor = 0
      BY <1>2, <1>4, <2>1, <2>2, <3>1, LedgerFacts DEF Behind
    <3>2. CASE group.cursor # 0
      <4>1. i <= group.cursor
        BY <2>2, <3>2 DEF Behind
      <4>2. chain[i].ledger <= chain[group.cursor].ledger
        BY <1>3, <3>2, <4>1, LedgerFacts
      <4>3. QED
        BY <1>2, <1>3, <1>4, <2>1, <3>2, <4>2, LedgerFacts
    <3>3. QED
      BY <3>1, <3>2
  <2>3. QED
    BY <1>1, <1>2, <1>3, <1>4, <1>5, <2>1, <2>2, LedgerFacts
<1>6. CASE ~ IsLastPage
  <2>1. NewLedger = LastLedgerOf(page.events) /\ page.events # {}
    BY <1>6, FullPageNotEmpty DEF NewLedger, IsLastPage
  <2> DEFINE L == {chain[j].ledger : j \in page.events}
  <2>2. Max(L) \in L /\ \A x \in L : x <= Max(L)
    <3>1. L \in SUBSET (0 .. head) /\ head \in Nat
      BY <1>4, LedgerFacts
    <3>2. L # {}
      BY <2>1
    <3> HIDE DEF L
    <3>3. QED
      BY <3>1, <3>2, MaxProperty
  <2>3. \A j \in page.events : chain[j].ledger <= NewLedger
    BY <2>1, <2>2 DEF LastLedgerOf
  <2>4. PICK e \in page.events : chain[e].ledger = NewLedger
    BY <2>1, <2>2 DEF LastLedgerOf
  <2>5. ASSUME NEW i \in Events, Behind(i) PROVE chain[i].ledger <= NewLedger
    <3>1. chain[e].contract \in group.members /\ ~ Behind(e) /\ e \in Events
      BY <1>2, <1>4
    <3>2. CASE group.cursor = 0
      BY <1>4, <2>4, <2>5, <3>1, <3>2, LedgerFacts DEF Behind
    <3>3. CASE group.cursor # 0
      <4>1. i <= e
        BY <1>4, <2>5, <3>1, <3>3, LedgerFacts DEF Behind
      <4>2. QED
        BY <2>4, <3>1, <4>1, LedgerFacts
    <3>4. QED
      BY <3>2, <3>3
  <2>6. QED
    BY <1>1, <1>4, <2>1, <2>3, <2>4, <2>5, LedgerFacts
<1>7. QED
  BY <1>5, <1>6

\* Up to that ledger, the group's events are behind the request, on the page, or in
\* the tail it cuts off.
LEMMA PageCovers ==
  ASSUME IInv, LossInv, pc \in {"page", "advance"}, NEW i \in Events,
         chain[i].contract \in group.members, chain[i].ledger <= NewLedger
  PROVE  Behind(i) \/ i \in page.events \/ TailOf(i, page.batch)
<1>1. SUFFICES ASSUME ~ Behind(i), i \notin page.events PROVE TailOf(i, page.batch)
  OBVIOUS
<1>2. /\ page.events \subseteq page.batch
      /\ ~ IsLastPage /\ \A j \in page.events : j < i
  BY <1>1 DEF LossInv, BatchInv
<1>3. page.events \in SUBSET Events /\ page.batch \in SUBSET Events
  BY LocalTypes DEF IInv
<1>4. ~ (Cardinality(page.events) < PageLimit) /\ NewLedger = LastLedgerOf(page.events)
  BY <1>2 DEF IsLastPage, NewLedger
<1>5. QED
  BY <1>2, <1>3, <1>4, BehindFullPage

\* A `created` event the factory's pointer passes with such a page is settled by what
\* is stored and by the batch, or is cut off itself.
LEMMA ReachedSettles ==
  ASSUME IInv, LossInv, pc \in {"page", "advance"}, page.kids = {}, NEW k \in Events,
         chain[k].contract \in group.members, chain[k].ledger <= NewLedger,
         ~ TailOf(k, page.batch), NEW i \in Events, OnFirstPage(i, k),
         chain[i].ledger <= last[chain[i].contract]
  PROVE  Explained(i) \/ InBatch(i)
<1>1. CASE Behind(k)
  BY <1>1 DEF LossInv, BehindInv, Polling, Settled
<1>2. CASE k \in page.events
  BY <1>2 DEF LossInv, BatchInv
<1>3. QED
  BY <1>1, <1>2, PageCovers

\* A `created` event behind the factory's pointer has nothing to bring back.
LEMMA PassedIsSettled ==
  ASSUME IInv, LossInv, NEW k \in Events, chain[k].ledger <= Pointer(Factory)
  PROVE  Settled(k)
<1>1. SUFFICES ASSUME NEW i \in Events, OnFirstPage(i, k),
                      chain[i].ledger <= last[chain[i].contract]
               PROVE  Explained(i)
  BY DEF Settled
<1>2. last[chain[i].contract] > 0 /\ last[chain[i].contract] \in Nat
  <2>1. last \in [Contracts -> Nat]
    BY DEF IInv, TypeOK
  <2>2. QED
    BY <1>1, <2>1, LedgerFacts
<1>3. chain[i].ledger <= Pointer(chain[i].contract)
  BY <1>1, <1>2 DEF Pointer
<1>4. Accounted(i)
  BY <1>3 DEF LossInv, PointerInv
<1>5. ~ Refetched(i)
  <2>1. SUFFICES ASSUME NEW m \in Events, OnFirstPage(i, m), chain[m].ledger > Pointer(Factory)
                 PROVE  FALSE
    BY DEF Refetched
  <2>2. chain[k].child = chain[m].child /\ chain[k].child \in Children
    <3>1. chain[i].contract = chain[k].child /\ chain[i].contract = chain[m].child
      BY <1>1, <2>1 DEF OnFirstPage
    <3>2. chain[k].child \in Children
      BY <3>1, ChainFacts, ContractsAssumption DEF IInv
    <3>3. QED
      BY <3>1, <3>2
  <2>3. k = m
    BY <2>2 DEF LossInv, AnnounceInv
  <2>4. Pointer(Factory) \in Nat
    BY PointerNat DEF IInv, Contracts
  <2>5. QED
    BY <2>1, <2>3, <2>4, LedgerFacts
<1>6. QED
  BY <1>4, <1>5 DEF Accounted

\* What every step but the closing of a ledger does: rows stay stored, the retention
\* window and what is excused only grow, registered rows keep their start.
Grows ==
  /\ chain' = chain
  /\ stored \subseteq stored'
  /\ oldest <= oldest'
  /\ \A c \in Contracts : excused[c] <= excused'[c]
  /\ \A c \in Contracts : Registered(c) =>
       rowId'[c] = rowId[c] /\ since'[c] = since[c] /\ startAt'[c] = startAt[c]

\* While the chain stays, the events keep their places on it and on first pages.
LEMMA SameChain ==
  ASSUME chain' = chain
  PROVE  /\ Events' = Events
         /\ \A i, k \in Events : OnFirstPage(i, k)' <=> OnFirstPage(i, k)
<1>1. Events' = Events
  BY DEF Events
<1>2. ASSUME NEW k \in Events PROVE FirstPage(k)' = FirstPage(k)
  BY <1>1 DEF FirstPage, FirstN, Matching
<1>3. QED
  BY <1>1, <1>2 DEF OnFirstPage

\* Excusing raises what is excused, to at least what is asked for.
LEMMA ExcuseGrows ==
  ASSUME TypeOK, NEW cs, NEW upto \in [Contracts -> Nat], Excuse(cs, upto)
  PROVE  \A c \in Contracts : /\ excused[c] <= excused'[c]
                              /\ c \in cs => upto[c] <= excused'[c]
<1>1. ASSUME NEW m \in Nat, NEW n \in Nat PROVE m <= Max({m, n}) /\ n <= Max({m, n})
  <2>1. m + n \in Nat /\ {m, n} \in SUBSET (0 .. m + n) /\ {m, n} # {}
    OBVIOUS
  <2>2. \A x \in {m, n} : x <= Max({m, n})
    BY <2>1, MaxProperty, Zenon
  <2>3. QED
    BY <2>2
<1>2. SUFFICES ASSUME NEW c \in Contracts
               PROVE  excused[c] <= excused'[c] /\ (c \in cs => upto[c] <= excused'[c])
  OBVIOUS
<1>3. excused[c] \in Nat /\ upto[c] \in Nat
  BY DEF TypeOK
<1>4. /\ excused[c] <= Max({excused[c], upto[c]})
      /\ upto[c] <= Max({excused[c], upto[c]})
  BY <1>1, <1>3
<1>5. CASE c \in cs
  BY <1>4, <1>5 DEF Excuse
<1>6. CASE c \notin cs
  BY <1>3, <1>6 DEF Excuse
<1>7. QED
  BY <1>5, <1>6

\* A tail cut off by stored rows stays one.
LEMMA TailKept ==
  ASSUME IInv, IInv', Grows, NEW i \in Events, TailOf(i, stored)
  PROVE  TailOf(i, stored)'
<1>1. Events' = Events /\ chain' = chain /\ stored \subseteq stored'
  BY SameChain DEF Grows
<1>2. stored \in SUBSET Events /\ stored' \in SUBSET Events
  BY <1>1 DEF IInv, TypeOK
<1> DEFINE b == {j \in stored : j < i}
           d == {j \in stored' : j < i}
<1>3. b \subseteq d /\ b \in SUBSET Events /\ d \in SUBSET Events
  BY <1>1, <1>2
<1>4. Cardinality(b) >= PageLimit /\ \E j \in b : chain[j].ledger = chain[i].ledger
  BY DEF TailOf
<1>5. Cardinality(d) >= PageLimit
  <2> HIDE DEF b, d
  <2>1. IsFiniteSet(d) /\ Cardinality(b) \in Nat /\ Cardinality(d) \in Nat
    BY <1>3, EventsFinite DEF IInv
  <2>2. Cardinality(b) <= Cardinality(d)
    BY <1>3, <2>1, FS_Subset
  <2>3. QED
    BY <1>4, <2>1, <2>2, BoundsAssumption
<1>6. QED
  BY <1>1, <1>3, <1>4, <1>5 DEF TailOf

\* A cause is never taken away.
LEMMA ExplainedKept ==
  ASSUME IInv, IInv', Grows, NEW i \in Events, Registered(chain[i].contract), Explained(i)
  PROVE  Explained(i)'
<1>1. /\ chain' = chain /\ Events' = Events /\ stored \subseteq stored'
      /\ chain[i].contract \in Contracts
      /\ rowId'[chain[i].contract] = rowId[chain[i].contract]
      /\ since'[chain[i].contract] = since[chain[i].contract]
      /\ oldest \in Nat /\ oldest' \in Nat /\ oldest <= oldest' /\ chain[i].ledger \in Nat
  BY SameChain, LedgerFacts DEF Grows, IInv, TypeOK
<1>2. CASE ~ Owed(i)
  BY <1>1, <1>2 DEF Explained, Owed, Registered
<1>3. CASE i \in stored
  BY <1>1, <1>3 DEF Explained
<1>4. CASE chain[i].ledger < oldest
  BY <1>1, <1>4 DEF Explained
<1>5. \A d \in Contracts : excused[d] \in Nat /\ excused'[d] \in Nat /\ excused[d] <= excused'[d]
  BY DEF Grows, IInv, TypeOK
<1>6. CASE chain[i].ledger <= excused[chain[i].contract]
  BY <1>1, <1>5, <1>6 DEF Explained
<1>7. CASE TailOf(i, stored)
  BY <1>7, TailKept DEF Explained
<1>8. CASE Cut(chain[i].contract)
  <2>1. PICK k \in Events : /\ chain[k].child = chain[i].contract
                            /\ TailOf(k, stored) \/ chain[k].ledger <= excused[Factory]
    BY <1>8 DEF Cut
  <2>2. TailOf(k, stored)' \/ chain[k].ledger <= excused'[Factory]
    <3>1. CASE TailOf(k, stored)
      BY <3>1, TailKept
    <3>2. CASE chain[k].ledger <= excused[Factory]
      BY <1>5, <3>2, LedgerFacts DEF Contracts
    <3>3. QED
      BY <2>1, <3>1, <3>2
  <2>3. chain'[k].child = chain'[i].contract /\ k \in Events'
    BY <1>1, <2>1
  <2>4. TailOf(k, stored)' \/ chain'[k].ledger <= excused'[Factory]
    BY <1>1, <2>2
  <2>5. Cut(chain[i].contract)'
    BY <2>3, <2>4 DEF Cut, TailOf
  <2>6. QED
    BY <2>5 DEF Explained
<1>9. QED
  BY <1>2, <1>3, <1>4, <1>6, <1>7, <1>8 DEF Explained

\* What will be read again stays so while the factory's pointer does not rise.
LEMMA RefetchedKept ==
  ASSUME IInv, IInv', chain' = chain, Pointer(Factory)' <= Pointer(Factory),
         NEW i \in Events, Refetched(i)
  PROVE  Refetched(i)'
<1>1. PICK k \in Events : OnFirstPage(i, k) /\ chain[k].ledger > Pointer(Factory)
  BY DEF Refetched
<1>2. Events' = Events /\ OnFirstPage(i, k)'
  BY <1>1, SameChain
<1>3. Pointer(Factory) \in Nat /\ Pointer(Factory)' \in Nat
  <2>1. Factory \in Contracts
    BY DEF Contracts
  <2>2. last' \in [Contracts -> Nat] /\ startAt' \in [Contracts -> Nat] /\ globalLedger' \in Nat
    BY DEF IInv, TypeOK
  <2>3. Pointer(Factory)' \in Nat
    BY <2>1, <2>2 DEF Pointer
  <2>4. QED
    BY <2>1, <2>3, PointerNat DEF IInv
<1>4. chain'[k].ledger > Pointer(Factory)'
  BY <1>1, <1>3, LedgerFacts
<1>5. QED
  BY <1>2, <1>4 DEF Refetched

\* No event lies at ledger 0, so one up to a contract's own pointer has a contract with
\* a row.
LEMMA OwnPointer ==
  ASSUME IInv, LossInv, NEW i \in Events, chain[i].ledger <= last[chain[i].contract]
  PROVE  /\ Registered(chain[i].contract)
         /\ Pointer(chain[i].contract) = last[chain[i].contract]
<1>1. last[chain[i].contract] > 0
  <2>1. last \in [Contracts -> Nat]
    BY DEF IInv, TypeOK
  <2>2. chain[i].contract \in Contracts /\ chain[i].ledger \in Nat /\ 1 <= chain[i].ledger
    BY LedgerFacts
  <2>3. QED
    BY <2>1, <2>2
<1>2. QED
  BY <1>1, LedgerFacts DEF Pointer, LossInv, RowInv

\* While no contract's own pointer moves, what is settled stays settled.
LEMMA SettledKept ==
  ASSUME IInv, IInv', LossInv, Grows, last' = last, NEW k \in Events, Settled(k)
  PROVE  Settled(k)'
<1>1. Events' = Events /\ chain' = chain
  BY SameChain DEF Grows
<1>2. SUFFICES ASSUME NEW i \in Events, OnFirstPage(i, k)',
                      chain[i].ledger <= last[chain[i].contract]
               PROVE  Explained(i)'
  BY <1>1 DEF Settled
<1>3. Explained(i)
  BY <1>1, <1>2, SameChain DEF Settled
<1>4. QED
  BY <1>2, <1>3, OwnPointer, ExplainedKept

\* While, besides, the factory's pointer does not rise (or nothing was ever polled),
\* what is accounted for stays so.
LEMMA AccountedKept ==
  ASSUME IInv, IInv', LossInv, Grows, last' = last,
         Pointer(Factory)' <= Pointer(Factory) \/ \A c \in Contracts : last[c] = 0,
         NEW i \in Events, Registered(chain[i].contract), Accounted(i)
  PROVE  Accounted(i)'
<1>1. Events' = Events /\ chain' = chain
  BY SameChain DEF Grows
<1>2. CASE Explained(i)
  BY <1>2, ExplainedKept DEF Accounted
<1>3. CASE Refetched(i) /\ chain[i].ledger <= last[chain[i].contract]
  <2>1. Pointer(Factory)' <= Pointer(Factory)
    BY <1>3, LedgerFacts
  <2>2. Refetched(i)'
    BY <1>1, <1>3, <2>1, RefetchedKept
  <2>3. QED
    BY <1>1, <1>3, <2>2 DEF Accounted
<1>4. QED
  BY <1>2, <1>3 DEF Accounted

\* There are finitely many contracts.
LEMMA ContractsFinite == IsFiniteSet(Contracts)
<1>1. IsFiniteSet({Factory}) /\ IsFiniteSet(Children \cup Adopted)
  BY FS_Singleton, ContractsAssumption
<1>2. Contracts = {Factory} \cup (Children \cup Adopted)
  BY DEF Contracts
<1>3. QED
  BY <1>1, <1>2, FS_Union

\* A row id is never the 0 of a contract without a row.
LEMMA NextRowIdPositive == NextRowId \in Nat /\ NextRowId # 0 /\ NextRowId + 1 # 0
<1> DEFINE R == {c \in Contracts : Registered(c)}
<1>1. Cardinality(R) \in Nat
  BY ContractsFinite, FS_Subset, FS_CardinalityType
<1>2. QED
  BY <1>1 DEF NextRowId

\* A registered row keeps its id, its start ledger and where it counts from.
LEMMA RegisterContractGrows ==
  ASSUME NEW d \in Contracts, NEW start, NEW from, RegisterContract(d, start, from), TypeOK
  PROVE  /\ \A c \in Contracts : Registered(c) =>
              rowId'[c] = rowId[c] /\ since'[c] = since[c] /\ startAt'[c] = startAt[c]
         /\ \A c \in Contracts \ {d} :
              rowId'[c] = rowId[c] /\ since'[c] = since[c] /\ startAt'[c] = startAt[c]
         /\ ~ Registered(d) => since'[d] = from /\ startAt'[d] = start
         /\ Registered(d)' /\ active'[d]
         /\ \A c \in Contracts \ {d} : active'[c] = active[c]
<1>1. /\ rowId \in [Contracts -> Nat] /\ startAt \in [Contracts -> Nat]
      /\ since \in [Contracts -> Nat] /\ active \in [Contracts -> BOOLEAN]
  BY DEF TypeOK
<1>2. CASE Registered(d)
  BY <1>1, <1>2 DEF RegisterContract, Registered
<1>3. CASE ~ Registered(d)
  <2>1. NextRowId # 0
    BY NextRowIdPositive
  <2>2. QED
    BY <1>1, <1>3, <2>1 DEF RegisterContract, Registered
<1>4. QED
  BY <1>2, <1>3

\* No other step takes a row, an excuse or a registration back.
LEMMA StepGrows ==
  ASSUME IInv, Next, ~ CloseLedger
  PROVE  Grows
<1> USE DEF Grows, chainVars, dbVars, pollVars, histVars
<1>1. oldest \in Nat /\ \A c \in Contracts : excused[c] \in Nat
  BY DEF IInv, TypeOK
<1>2. CASE ExpireLedger
  BY <1>1, <1>2 DEF ExpireLedger
<1>3. ASSUME NEW c \in Managed, NEW start \in AdminStarts, AdminRegister(c, start)
      PROVE  Grows
  BY <1>1, <1>3, RegisterContractGrows, ContractsAssumption DEF AdminRegister, IInv
<1>4. CASE \E c \in Managed : DeregisterContract(c)
  BY <1>1, <1>4 DEF DeregisterContract
<1>5. CASE PollEvents
  BY <1>1, <1>5 DEF PollEvents, Registered, IInv, TypeOK
<1>6. CASE RegisterChild
  <2>1. chain[Min(page.kids)].child \in Contracts
    <3>1. page.kids \in SUBSET Events /\ page.kids # {} /\ pc = "page"
      BY <1>6, LocalTypes DEF RegisterChild, IInv
    <3>2. Min(page.kids) \in page.kids
      BY <3>1, MinOfEvents DEF IInv
    <3>3. QED
      BY <3>1, <3>2 DEF IInv, PageInv, Contracts
  <2>2. QED
    BY <1>1, <1>6, <2>1, RegisterContractGrows DEF RegisterChild, IInv
<1>7. ASSUME NEW cs, NEW upto \in [Contracts -> Nat], Excuse(cs, upto)
      PROVE  \A c \in Contracts : excused[c] <= excused'[c]
  BY <1>7, ExcuseGrows DEF IInv
<1>8. last \in [Contracts -> Nat]
  BY DEF IInv, TypeOK
<1>9. CASE ClampToRetention
  BY <1>1, <1>7, <1>8, <1>9 DEF ClampToRetention
<1>10. CASE SkipChildPage
  BY <1>1, <1>7, <1>8, <1>10 DEF SkipChildPage
<1>11. CASE InsertEventBatch
  <2>1. [c \in Contracts |-> NewLedger] \in [Contracts -> Nat]
    BY <1>11, NewLedgerNat DEF InsertEventBatch
  <2>2. QED
    BY <1>1, <1>7, <1>11, <2>1 DEF InsertEventBatch
<1>12. CASE \/ GroupByPointer \/ (\E g \in cycle.todo : BeginGroup(g)) \/ FetchPage
            \/ FetchChildPage \/ (\E c \in page.left : UpdateContractPointer(c))
            \/ FinishPoll \/ FailPoll \/ Crash \/ DeliverRange
  <2>1. UNCHANGED <<chain, stored, oldest, excused, rowId, since, startAt>>
    BY <1>12 DEF GroupByPointer, BeginGroup, FetchPage, FetchChildPage,
       UpdateContractPointer, FinishPoll, FailPoll, Crash, DeliverRange
  <2>2. QED
    BY <1>1, <2>1
<1>13. QED
  BY <1>2, <1>3, <1>4, <1>5, <1>6, <1>9, <1>10, <1>11, <1>12 DEF Next, Poll

\* A step that moves no pointer but by registering contracts, which are owed what comes
\* behind their start.
Quiet ==
  /\ Grows
  /\ last' = last /\ globalLedger' = globalLedger /\ head' = head
  /\ \A c \in Contracts : ~ Registered(c) =>
       IF rowId'[c] # 0
       THEN since'[c] = IF startAt'[c] > 0 THEN startAt'[c] - 1 ELSE head
       ELSE startAt'[c] = startAt[c]

\* Such a step keeps the accounts of every contract.
LEMMA QuietKeeps ==
  ASSUME IInv, IInv', LossInv, Quiet
  PROVE  /\ \A c \in Contracts : Registered(c) => Pointer(c)' = Pointer(c)
         /\ \A i \in Events : Registered(chain[i].contract) /\ Accounted(i) => Accounted(i)'
         /\ \A k \in Events : Settled(k) => Settled(k)'
<1>1. Grows /\ last' = last
  BY DEF Quiet
<1>2. \A c \in Contracts : Registered(c) => Pointer(c)' = Pointer(c)
  BY DEF Quiet, Grows, Pointer
<1>3. Pointer(Factory)' <= Pointer(Factory) \/ \A c \in Contracts : last[c] = 0
  <2>1. CASE Registered(Factory)
    <3>1. Factory \in Contracts
      BY DEF Contracts
    <3>2. Pointer(Factory)' = Pointer(Factory) /\ Pointer(Factory) \in Nat
      BY <1>2, <2>1, <3>1, PointerNat DEF IInv
    <3>3. QED
      BY <3>2
  <2>2. CASE ~ Registered(Factory)
    BY <2>2 DEF LossInv, RowInv
  <2>3. QED
    BY <2>1, <2>2
<1>4. ASSUME NEW i \in Events, Registered(chain[i].contract), Accounted(i) PROVE Accounted(i)'
  BY <1>1, <1>3, <1>4, AccountedKept
<1>5. ASSUME NEW k \in Events, Settled(k) PROVE Settled(k)'
  BY <1>1, <1>5, SettledKept
<1>6. QED
  BY <1>2, <1>4, <1>5

\* So it keeps the account of the pointers.
LEMMA QuietPointers ==
  ASSUME IInv, IInv', LossInv, Quiet
  PROVE  PointerInv' /\ AnnounceInv'
<1>1. Events' = Events /\ chain' = chain /\ head' = head
  BY SameChain DEF Quiet, Grows
<1>2. AnnounceInv'
  BY <1>1 DEF LossInv, AnnounceInv
<1>3. SUFFICES ASSUME NEW i \in Events, NEW c \in Contracts, c = chain[i].contract,
                      chain[i].ledger <= Pointer(c)'
               PROVE  Accounted(i)'
  BY <1>1, <1>2, LedgerFacts DEF PointerInv, Pointer
<1>4. chain[i].ledger \in Nat /\ chain[i].ledger <= head /\ head \in Nat
  BY LedgerFacts
<1>5. CASE Registered(c)
  <2>1. Pointer(c)' = Pointer(c)
    BY <1>5, QuietKeeps
  <2>2. Accounted(i)
    BY <1>3, <2>1 DEF LossInv, PointerInv
  <2>3. QED
    BY <1>3, <1>5, <2>2, QuietKeeps
<1>6. CASE ~ Registered(c)
  <2>1. ~ Owed(i)'
    <3>1. SUFFICES ASSUME rowId'[c] # 0 PROVE chain[i].ledger <= since'[c]
      <4>1. since'[c] \in Nat /\ chain'[i] = chain[i]
        BY <1>1 DEF IInv, TypeOK
      <4>2. QED
        BY <1>3, <1>4, <4>1 DEF Owed, Registered
    <3>2. last'[c] = 0
      BY <1>6 DEF LossInv, RowInv, Quiet
    <3>3. since'[c] = IF startAt'[c] > 0 THEN startAt'[c] - 1 ELSE head
      BY <1>6, <3>1 DEF Quiet
    <3>4. Pointer(c)' = IF startAt'[c] > 0 THEN startAt'[c] - 1 ELSE globalLedger'
      BY <3>2 DEF Pointer
    <3>5. startAt'[c] \in Nat /\ globalLedger' \in Nat /\ globalLedger' <= head
      BY DEF IInv, TypeOK, LossInv, BoundInv, Quiet
    <3>6. QED
      BY <1>3, <1>4, <3>3, <3>4, <3>5
  <2>2. Explained(i)'
    BY <2>1 DEF Explained
  <2>3. QED
    BY <2>2 DEF Accounted
<1>7. QED
  BY <1>5, <1>6

\* More rows keep a cursor behind a full page.
LEMMA CursorKept ==
  ASSUME TypeOK, NEW S \in SUBSET Events, NEW T \in SUBSET Events, S \subseteq T, NEW n,
         n \in S, Cardinality({j \in S : j <= n}) >= PageLimit
  PROVE  n \in T /\ Cardinality({j \in T : j <= n}) >= PageLimit
<1> DEFINE b == {j \in S : j <= n}
           d == {j \in T : j <= n}
<1>1. b \subseteq d /\ b \in SUBSET Events /\ d \in SUBSET Events
  OBVIOUS
<1>2. Cardinality(b) >= PageLimit
  OBVIOUS
<1>3. Cardinality(d) >= PageLimit
  <2> HIDE DEF b, d
  <2>1. IsFiniteSet(d) /\ Cardinality(b) \in Nat /\ Cardinality(d) \in Nat
    BY <1>1, EventsFinite
  <2>2. Cardinality(b) <= Cardinality(d)
    BY <1>1, <2>1, FS_Subset
  <2>3. QED
    BY <1>2, <2>1, <2>2, BoundsAssumption
<1>4. QED
  BY <1>3

\* It keeps what the groups still to be polled rest on.
LEMMA QuietTodo ==
  ASSUME IInv, IInv', LossInv, Quiet, cycle'.todo \subseteq cycle.todo,
         cycle'.todo # {} => cycle'.current = cycle.current,
         Polling' => \A g \in cycle'.todo : g.members \cap group'.members = {}
  PROVE  TodoInv'
<1>1. Events' = Events /\ chain' = chain
  BY SameChain DEF Quiet, Grows
<1>2. ASSUME NEW g \in cycle'.todo
      PROVE  /\ g.pointer < cycle'.current
             /\ \A c \in g.members : Registered(c)'
             /\ \A i \in Events : chain[i].contract \in g.members /\ chain[i].ledger <= g.pointer =>
                  Accounted(i)' /\ Settled(i)'
             /\ Factory \in g.members =>
                  Pointer(Factory)' <= g.pointer \/ Pointer(Factory)' <= excused'[Factory]
  <2>1. g \in cycle.todo /\ cycle'.current = cycle.current
    BY <1>2
  <2>2. /\ g.pointer < cycle.current
        /\ \A c \in g.members : Registered(c)
        /\ \A i \in Events : chain[i].contract \in g.members /\ chain[i].ledger <= g.pointer =>
             Accounted(i) /\ Settled(i)
        /\ Factory \in g.members =>
             Pointer(Factory) <= g.pointer \/ Pointer(Factory) <= excused[Factory]
    BY <2>1 DEF LossInv, TodoInv
  <2>3. g.members \subseteq Contracts
    BY <2>1, LocalTypes DEF IInv
  <2>4. \A c \in g.members : Registered(c)'
    BY <2>2, <2>3 DEF Quiet, Grows, Registered
  <2>5. ASSUME NEW i \in Events, chain[i].contract \in g.members, chain[i].ledger <= g.pointer
        PROVE  Accounted(i)' /\ Settled(i)'
    BY <2>2, <2>5, QuietKeeps
  <2>6. ASSUME Factory \in g.members
        PROVE  Pointer(Factory)' <= g.pointer \/ Pointer(Factory)' <= excused'[Factory]
    <3>1. Registered(Factory) /\ Factory \in Contracts
      BY <2>2, <2>3, <2>6
    <3>2. Pointer(Factory)' = Pointer(Factory) /\ Pointer(Factory) \in Nat
      BY <3>1, QuietKeeps, PointerNat DEF IInv
    <3>3. /\ excused[Factory] \in Nat /\ excused'[Factory] \in Nat
          /\ excused[Factory] <= excused'[Factory]
      BY <3>1 DEF Quiet, Grows, IInv, TypeOK
    <3>4. QED
      BY <2>2, <2>6, <3>2, <3>3
  <2>7. QED
    BY <2>1, <2>2, <2>4, <2>5, <2>6
<1>3. \A g, h \in cycle'.todo : g # h => g.members \cap h.members = {}
  BY DEF LossInv, TodoInv
<1>4. QED
  BY <1>1, <1>2, <1>3 DEF TodoInv

\* It keeps what the group at work rests on.
LEMMA QuietBehind ==
  ASSUME IInv, IInv', LossInv, Quiet,
         Polling' => /\ Polling /\ group' = group /\ (pc' # "advance" => pc # "advance")
                     /\ cycle'.current = cycle.current
  PROVE  BehindInv'
<1>1. SUFFICES ASSUME Polling' PROVE BehindInv'
  BY DEF BehindInv
<1>2. /\ Events' = Events /\ chain' = chain /\ group' = group /\ Polling /\ head' = head
      /\ cycle'.current = cycle.current /\ cycle.current > 0
      /\ stored \subseteq stored' /\ (pc' # "advance" => pc # "advance")
  BY <1>1, SameChain DEF Quiet, Grows, LossInv, BehindInv
<1>3. /\ 1 <= group.start /\ group.start <= head
      /\ \A c \in group.members : Registered(c)
      /\ \A i \in Events : Behind(i) => Accounted(i) /\ Settled(i)
      /\ group.cursor # 0 => /\ group.cursor \in stored
                             /\ Cardinality({j \in stored : j <= group.cursor}) >= PageLimit
      /\ pc # "advance" /\ Factory \in group.members =>
           IF group.cursor = 0
           THEN Pointer(Factory) < group.start \/ Pointer(Factory) <= excused[Factory]
           ELSE Pointer(Factory) <= chain[group.cursor].ledger
  BY <1>2 DEF LossInv, BehindInv
<1>4. group.members \subseteq Contracts /\ group.start \in Nat
  BY LocalTypes DEF IInv
<1>5. \A c \in group.members : Registered(c)'
  BY <1>3, <1>4 DEF Quiet, Grows, Registered
<1>6. ASSUME NEW i \in Events, Behind(i)' PROVE Accounted(i)' /\ Settled(i)'
  <2>1. Behind(i)
    BY <1>2, <1>6 DEF Behind
  <2>2. chain[i].contract \in group.members
    BY <2>1 DEF Behind
  <2>3. QED
    BY <1>3, <2>1, <2>2, QuietKeeps
<1>7. ASSUME group.cursor # 0
      PROVE  /\ group.cursor \in stored'
             /\ Cardinality({j \in stored' : j <= group.cursor}) >= PageLimit
  <2>1. stored \in SUBSET Events /\ stored' \in SUBSET Events
    BY <1>2 DEF IInv, TypeOK
  <2>2. group.cursor \in stored /\ Cardinality({j \in stored : j <= group.cursor}) >= PageLimit
    BY <1>3, <1>7
  <2>3. QED
    BY <1>2, <2>1, <2>2, CursorKept DEF IInv
<1>8. ASSUME pc' # "advance", Factory \in group.members
      PROVE  IF group.cursor = 0
             THEN Pointer(Factory)' < group.start \/ Pointer(Factory)' <= excused'[Factory]
             ELSE Pointer(Factory)' <= chain[group.cursor].ledger
  <2>1. Registered(Factory) /\ Factory \in Contracts
    BY <1>3, <1>4, <1>8
  <2>2. Pointer(Factory)' = Pointer(Factory) /\ Pointer(Factory) \in Nat
    BY <2>1, QuietKeeps, PointerNat DEF IInv
  <2>3. /\ excused[Factory] \in Nat /\ excused'[Factory] \in Nat
        /\ excused[Factory] <= excused'[Factory]
    BY <2>1 DEF Quiet, Grows, IInv, TypeOK
  <2>4. QED
    <3>1. CASE group.cursor = 0
      <4>1. Pointer(Factory) < group.start \/ Pointer(Factory) <= excused[Factory]
        BY <1>2, <1>3, <1>8, <3>1
      <4>2. QED
        BY <1>4, <2>2, <2>3, <3>1, <4>1
    <3>2. CASE group.cursor # 0
      <4>1. Pointer(Factory) <= chain[group.cursor].ledger
        BY <1>2, <1>3, <1>8, <3>2
      <4>2. QED
        BY <2>2, <3>2, <4>1
    <3>3. QED
      BY <3>1, <3>2
<1>9. QED
  BY <1>2, <1>3, <1>5, <1>6, <1>7, <1>8 DEF BehindInv

\* It keeps what the page at work rests on.
LEMMA QuietBatch ==
  ASSUME IInv, IInv', LossInv, Quiet,
         pc' \in {"page", "child", "advance"} =>
           /\ pc \in {"page", "child", "advance"} /\ (pc' = "advance" => pc = "advance")
           /\ group' = group
           /\ page'.events = page.events /\ page'.latest = page.latest
           /\ page'.batch = page.batch /\ page'.left = page.left
           /\ page'.kids \subseteq page.kids
           /\ \A k \in page.kids \ page'.kids : Settled(k)'
  PROVE  BatchInv'
<1>1. SUFFICES ASSUME pc' \in {"page", "child", "advance"} PROVE BatchInv'
  BY DEF BatchInv
<1>2. /\ Events' = Events /\ chain' = chain /\ group' = group /\ last' = last
      /\ page'.events = page.events /\ page'.latest = page.latest
      /\ page'.batch = page.batch /\ page'.left = page.left /\ page'.kids \subseteq page.kids
      /\ head' = head /\ stored \subseteq stored'
      /\ pc \in {"page", "child", "advance"} /\ (pc' = "advance" => pc = "advance")
  BY <1>1, SameChain DEF Quiet, Grows
<1>3. IsLastPage' = IsLastPage /\ NewLedger' = NewLedger
  BY <1>2 DEF IsLastPage, NewLedger, LastLedgerOf
<1>4. BatchInv
  BY DEF LossInv
<1>5. page.kids \in SUBSET Events /\ page.events \in SUBSET Events
  BY LocalTypes DEF IInv
<1>6. ASSUME NEW k \in page.events \ page'.kids, NEW i \in Events, OnFirstPage(i, k)',
             chain[i].ledger <= last[chain[i].contract]
      PROVE  Explained(i)' \/ InBatch(i)'
  <2>1. OnFirstPage(i, k)
    BY <1>2, <1>5, <1>6, SameChain
  <2>2. CASE k \in page.kids
    <3>1. Settled(k)'
      BY <1>1, <1>6, <2>2
    <3>2. QED
      BY <1>2, <1>6, <3>1 DEF Settled
  <2>3. CASE k \notin page.kids
    <3>1. Explained(i) \/ InBatch(i)
      BY <1>2, <1>4, <1>6, <2>1, <2>3 DEF BatchInv
    <3>2. InBatch(i) => InBatch(i)'
      BY <1>2 DEF InBatch, TailOf
    <3>3. Explained(i) => Explained(i)'
      BY <1>6, OwnPointer, ExplainedKept DEF Quiet
    <3>4. QED
      BY <3>1, <3>2, <3>3
  <2>4. QED
    BY <2>2, <2>3
<1>7. \A i \in Events : Behind(i)' <=> Behind(i)
  BY <1>2 DEF Behind
<1>8. /\ group.start <= page.latest /\ page.latest <= head
      /\ group.cursor # 0 => chain[group.cursor].ledger <= page.latest
      /\ page.events \subseteq page.batch /\ page.kids \subseteq page.events
  BY <1>2, <1>4 DEF BatchInv
<1>9. \A i \in page.events : chain[i].contract \in group.members /\ ~ Behind(i)'
  BY <1>2, <1>4, <1>5, <1>7 DEF BatchInv
<1>10. \A i \in Events :
         chain[i].contract \in group.members /\ ~ Behind(i)' /\ chain[i].ledger <= NewLedger =>
           i \in page.events \/ (~ IsLastPage /\ \A j \in page.events : j < i)
  BY <1>2, <1>4, <1>7 DEF BatchInv
<1>11. pc' = "advance" => /\ page.batch \subseteq stored' /\ page.kids = {}
                          /\ page.left \subseteq group.members
                          /\ \A c \in group.members \ page.left : last[c] = NewLedger
  BY <1>2, <1>4 DEF BatchInv
<1>12. QED
  BY <1>2, <1>3, <1>6, <1>8, <1>9, <1>10, <1>11 DEF BatchInv

\* The event a `created` event of the page is about to be handled for.
LEMMA KidFacts ==
  ASSUME IInv, pc \in {"page", "child"}, page.kids # {}
  PROVE  /\ Min(page.kids) \in page.kids /\ Min(page.kids) \in Events
         /\ chain[Min(page.kids)].child \in Children
         /\ chain[Min(page.kids)].child \in Contracts
<1>1. page.kids \in SUBSET Events
  BY LocalTypes DEF IInv
<1>2. Min(page.kids) \in page.kids
  BY <1>1, MinOfEvents DEF IInv
<1>3. QED
  BY <1>1, <1>2 DEF IInv, PageInv, Contracts

\* The steps beside the poll cycle or before its first await; a child's registration
\* does not move the cycle either.
Beside ==
  \/ ExpireLedger
  \/ \E c \in Managed, start \in AdminStarts : AdminRegister(c, start)
  \/ \E c \in Managed : DeregisterContract(c)
  \/ PollEvents
  \/ RegisterChild
  \/ DeliverRange

\* The steps of the cycle that move no pointer.
Within ==
  \/ GroupByPointer
  \/ \E g \in cycle.todo : BeginGroup(g)
  \/ ClampToRetention
  \/ FetchPage
  \/ SkipChildPage
  \/ FinishPoll
  \/ FailPoll
  \/ Crash

\* All of them are quiet.
LEMMA StepIsQuiet ==
  ASSUME IInv, LossInv, Beside \/ Within
  PROVE  Quiet
<1>1. Grows
  <2>1. head' = head /\ head \in Nat
    BY DEF Beside, Within, ExpireLedger, AdminRegister, DeregisterContract, PollEvents,
       RegisterChild, DeliverRange, GroupByPointer, BeginGroup, ClampToRetention, FetchPage,
       SkipChildPage, FinishPoll, FailPoll, Crash, chainVars, IInv, TypeOK
  <2>2. ~ CloseLedger
    BY <2>1 DEF CloseLedger
  <2>3. Next
    BY DEF Beside, Within, Next, Poll
  <2>4. QED
    BY <2>2, <2>3, StepGrows
<1> USE DEF Quiet, chainVars, dbVars, pollVars, histVars
<1>2. ASSUME NEW c \in Managed, NEW start \in AdminStarts, AdminRegister(c, start)
      PROVE  Quiet
  <2>1. c \in Contracts /\ start \in Nat
    BY ContractsAssumption, BoundsAssumption
  <2>2. RegisterContract(c, start, IF start > 0 THEN start - 1 ELSE head)
    BY <1>2 DEF AdminRegister
  <2>3. \A d \in Contracts : ~ Registered(d) =>
          IF rowId'[d] # 0
          THEN since'[d] = IF startAt'[d] > 0 THEN startAt'[d] - 1 ELSE head
          ELSE startAt'[d] = startAt[d]
    <3>1. SUFFICES ASSUME NEW d \in Contracts, ~ Registered(d)
                   PROVE  IF rowId'[d] # 0
                          THEN since'[d] = IF startAt'[d] > 0 THEN startAt'[d] - 1 ELSE head
                          ELSE startAt'[d] = startAt[d]
      OBVIOUS
    <3>2. CASE d = c
      <4>1. /\ rowId'[d] # 0 /\ startAt'[d] = start
            /\ since'[d] = IF start > 0 THEN start - 1 ELSE head
        BY <2>1, <2>2, <3>1, <3>2, RegisterContractGrows DEF IInv, Registered
      <4>2. QED
        BY <4>1
    <3>3. CASE d # c
      <4>1. rowId'[d] = rowId[d] /\ startAt'[d] = startAt[d]
        BY <2>1, <2>2, <3>3, RegisterContractGrows DEF IInv
      <4>2. QED
        BY <3>1, <4>1 DEF Registered
    <3>4. QED
      BY <3>2, <3>3
  <2>4. last' = last /\ globalLedger' = globalLedger /\ head' = head
    BY <1>2 DEF AdminRegister
  <2>5. QED
    BY <1>1, <2>3, <2>4
<1>3. CASE PollEvents
  <2>1. /\ last' = last /\ globalLedger' = globalLedger /\ head' = head /\ startAt' = startAt
        /\ \A c \in Contracts : rowId'[c] # rowId[c] => since'[c] = head
    BY <1>3 DEF PollEvents, Registered, IInv, TypeOK
  <2>2. \A c \in Contracts : ~ Registered(c) => startAt[c] = 0
    BY <1>3 DEF LossInv, RowInv
  <2>3. QED
    BY <1>1, <2>1, <2>2 DEF Registered
<1>4. CASE RegisterChild
  <2> DEFINE k == Min(page.kids)
             c == chain[k].child
  <2>1. c \in Contracts /\ k \in Events
    BY <1>4, KidFacts DEF RegisterChild
  <2>2. chain[k].ledger \in Nat /\ chain[k].ledger > 0
    BY <2>1, LedgerFacts
  <2>3. RegisterContract(c, chain[k].ledger, chain[k].ledger - 1)
    BY <1>4 DEF RegisterChild
  <2> HIDE DEF c, k
  <2>4. \A d \in Contracts : ~ Registered(d) =>
          IF rowId'[d] # 0
          THEN since'[d] = IF startAt'[d] > 0 THEN startAt'[d] - 1 ELSE head
          ELSE startAt'[d] = startAt[d]
    <3>1. SUFFICES ASSUME NEW d \in Contracts, ~ Registered(d)
                   PROVE  IF rowId'[d] # 0
                          THEN since'[d] = IF startAt'[d] > 0 THEN startAt'[d] - 1 ELSE head
                          ELSE startAt'[d] = startAt[d]
      OBVIOUS
    <3>2. CASE d = c
      <4>1. startAt'[d] = chain[k].ledger /\ since'[d] = chain[k].ledger - 1
            /\ rowId'[d] # 0
        BY <2>1, <2>3, <3>1, <3>2, RegisterContractGrows DEF IInv, Registered
      <4>2. QED
        BY <2>2, <4>1
    <3>3. CASE d # c
      <4>1. rowId'[d] = rowId[d] /\ startAt'[d] = startAt[d]
        BY <2>1, <2>3, <3>3, RegisterContractGrows DEF IInv
      <4>2. QED
        BY <3>1, <4>1 DEF Registered
    <3>4. QED
      BY <3>2, <3>3
  <2>5. last' = last /\ globalLedger' = globalLedger /\ head' = head
    BY <1>4 DEF RegisterChild
  <2>6. QED
    BY <1>1, <2>4, <2>5
<1>5. CASE UNCHANGED <<rowId, startAt, last, globalLedger, head>>
  BY <1>1, <1>5 DEF Registered
<1>6. CASE \/ ExpireLedger \/ (\E c \in Managed : DeregisterContract(c)) \/ GroupByPointer
           \/ (\E g \in cycle.todo : BeginGroup(g)) \/ ClampToRetention \/ FetchPage
           \/ SkipChildPage \/ FinishPoll \/ FailPoll \/ Crash \/ DeliverRange
  <2>1. UNCHANGED <<rowId, startAt, last, globalLedger, head>>
    BY <1>6 DEF ExpireLedger, DeregisterContract, GroupByPointer, BeginGroup,
       ClampToRetention, FetchPage, SkipChildPage, FinishPoll, FailPoll, Crash, DeliverRange
  <2>2. QED
    BY <1>5, <2>1
<1>7. QED
  BY <1>2, <1>3, <1>4, <1>6 DEF Beside, Within

\* It keeps the bounds, unless it moves the cycle or the retention window too far.
LEMMA QuietBound ==
  ASSUME IInv, IInv', LossInv, Quiet, cycle'.current <= head,
         oldest' = oldest \/ oldest' <= head
  PROVE  BoundInv'
<1>1. /\ head' = head /\ globalLedger' = globalLedger /\ last' = last
      /\ oldest <= oldest' /\ oldest \in Nat /\ oldest' \in Nat
  BY DEF Quiet, Grows, IInv, TypeOK
<1>2. ASSUME NEW c \in Contracts, startAt'[c] > 0 PROVE since'[c] = startAt'[c] - 1
  <2>1. CASE Registered(c)
    BY <1>2, <2>1 DEF Quiet, Grows, LossInv, BoundInv
  <2>2. CASE ~ Registered(c)
    BY <1>2, <2>2 DEF Quiet, LossInv, RowInv
  <2>3. QED
    BY <2>1, <2>2
<1>3. QED
  BY <1>1, <1>2 DEF LossInv, BoundInv

\* It keeps the rows in order when it activates only contracts that have one.
LEMMA QuietRows ==
  ASSUME IInv, IInv', LossInv, Quiet,
         \A c \in Contracts : active'[c] => active[c] \/ rowId'[c] # 0,
         pc' # "idle" => pc # "idle" \/ rowId'[Factory] # 0,
         pc' = "child" => \/ pc = "child" /\ page' = page
                          \/ rowId'[chain[Min(page'.kids)].child] # 0
  PROVE  RowInv'
<1>1. /\ last' = last /\ chain' = chain
      /\ \A c \in Contracts : rowId'[c] = 0 => rowId[c] = 0
  BY DEF Quiet, Grows, Registered
<1>2. \A c \in Contracts : ~ Registered(c)' => last'[c] = 0 /\ startAt'[c] = 0
  BY <1>1 DEF Quiet, LossInv, RowInv, Registered
<1>3. \A c \in Contracts : active'[c] => Registered(c)'
  BY <1>1 DEF LossInv, RowInv, Registered
<1>4. ~ Registered(Factory)' => pc' = "idle" /\ \A c \in Contracts : last'[c] = 0
  <2>1. Factory \in Contracts
    BY DEF Contracts
  <2>2. QED
    BY <1>1, <2>1 DEF LossInv, RowInv, Registered
<1>5. ASSUME pc' = "child" PROVE rowId'[chain'[Min(page'.kids)].child] # 0
  <2>1. CASE pc = "child" /\ page' = page
    <3>1. chain[Min(page.kids)].child \in Contracts
      BY <2>1, KidFacts DEF IInv, PageInv
    <3>2. QED
      BY <1>1, <2>1, <3>1 DEF LossInv, RowInv, Registered
  <2>2. CASE rowId'[chain[Min(page'.kids)].child] # 0
    BY <1>1, <2>2
  <2>3. QED
    BY <1>5, <2>1, <2>2
<1>6. QED
  BY <1>2, <1>3, <1>4, <1>5 DEF RowInv, Registered

\* Steps beside the poll cycle, the registration of a child among them, leave it what it
\* rests on.
LEMMA BesideKeepsLoss ==
  ASSUME IInv, IInv', LossInv, Quiet, UNCHANGED <<cycle, group>>,
         oldest' = oldest \/ oldest' <= head,
         \A c \in Contracts : active'[c] => active[c] \/ rowId'[c] # 0,
         pc' # "idle" => pc # "idle" \/ rowId'[Factory] # 0,
         pc' = "child" => pc = "child" \/ rowId'[chain[Min(page'.kids)].child] # 0,
         page' = page,
         \/ pc' = pc
         \/ pc = "idle" /\ pc' = "head"
         \/ pc = "page" /\ pc' = "child"
  PROVE  LossInv'
<1>1. PointerInv' /\ AnnounceInv'
  BY QuietPointers
<1>2. BoundInv'
  BY QuietBound DEF LossInv, BoundInv
<1>3. RowInv'
  BY QuietRows
<1>4. Polling' => Polling /\ (pc' # "advance" => pc # "advance")
  BY DEF Polling
<1>5. TodoInv'
  BY <1>4, QuietTodo DEF LossInv, TodoInv
<1>6. BehindInv'
  BY <1>4, QuietBehind
<1>7. BatchInv'
  BY QuietBatch, LocalTypes DEF IInv
<1>8. QED
  BY <1>1, <1>2, <1>3, <1>5, <1>6, <1>7 DEF LossInv

\* No step beside the cycle breaks the invariant.
LEMMA BesideStep == ASSUME IInv, IInv', LossInv, Beside PROVE LossInv'
<1> USE DEF chainVars, dbVars, pollVars
<1>1. Quiet
  BY StepIsQuiet
<1>2. CASE ExpireLedger
  <2>1. UNCHANGED <<cycle, group, page, pc, active>> /\ oldest' = oldest + 1 /\ oldest < head
    BY <1>2 DEF ExpireLedger
  <2>2. oldest \in Nat /\ head \in Nat
    BY DEF IInv, TypeOK
  <2>3. oldest' <= head
    BY <2>1, <2>2
  <2>4. QED
    BY <1>1, <2>1, <2>3, BesideKeepsLoss
<1>3. ASSUME NEW c \in Managed, NEW start \in AdminStarts, AdminRegister(c, start)
      PROVE  LossInv'
  <2>1. c \in Contracts /\ RegisterContract(c, start, IF start > 0 THEN start - 1 ELSE head)
    BY <1>3, ContractsAssumption DEF AdminRegister
  <2>2. \A d \in Contracts : active'[d] => active[d] \/ rowId'[d] # 0
    BY <2>1, RegisterContractGrows DEF IInv, Registered
  <2>3. UNCHANGED <<cycle, group, page, pc, oldest>>
    BY <1>3 DEF AdminRegister
  <2>4. QED
    BY <1>1, <2>2, <2>3, BesideKeepsLoss
<1>4. CASE \E c \in Managed : DeregisterContract(c)
  <2>1. UNCHANGED <<cycle, group, page, pc, oldest>>
        /\ \A d \in Contracts : active'[d] => active[d]
    BY <1>4 DEF DeregisterContract, IInv, TypeOK
  <2>2. QED
    BY <1>1, <2>1, BesideKeepsLoss
<1>5. CASE PollEvents
  <2>1. UNCHANGED <<cycle, group, page, oldest>> /\ pc = "idle" /\ pc' = "head"
    BY <1>5 DEF PollEvents
  <2>2. \A d \in Contracts : rowId[d] # 0 => rowId'[d] # 0
    BY <1>1 DEF Quiet, Grows, Registered
  <2>3. \A d \in {Factory} \cup Legacy : rowId'[d] # 0
    <3>1. NextRowId \in Nat /\ NextRowId # 0 /\ NextRowId + 1 # 0
      BY NextRowIdPositive
    <3>2. {Factory} \cup Legacy \subseteq Contracts
      BY ContractsAssumption DEF Contracts
    <3>3. QED
      BY <1>5, <3>1, <3>2 DEF PollEvents, Registered
  <2>4. \A d \in Contracts : active'[d] => active[d] \/ d \in {Factory} \cup Legacy
    BY <1>5 DEF PollEvents, Activated
  <2>5. QED
    BY <1>1, <2>1, <2>3, <2>4, BesideKeepsLoss
<1>6. CASE RegisterChild
  <2> DEFINE c == chain[Min(page.kids)].child
  <2>1. UNCHANGED <<cycle, group, page, oldest>> /\ pc = "page" /\ pc' = "child"
    BY <1>6 DEF RegisterChild
  <2>2. c \in Contracts
    BY <1>6, KidFacts DEF RegisterChild
  <2>3. RegisterContract(c, chain[Min(page.kids)].ledger, chain[Min(page.kids)].ledger - 1)
    BY <1>6 DEF RegisterChild
  <2>4. rowId'[c] # 0 /\ \A d \in Contracts : active'[d] => active[d] \/ rowId'[d] # 0
    <3> HIDE DEF c
    <3> QED BY <2>2, <2>3, RegisterContractGrows DEF IInv, Registered
  <2>5. QED
    BY <1>1, <2>1, <2>4, BesideKeepsLoss
<1>7. CASE DeliverRange
  BY <1>1, <1>7, BesideKeepsLoss DEF DeliverRange
<1>8. QED
  BY <1>2, <1>3, <1>4, <1>5, <1>6, <1>7 DEF Beside

\* The end of a cycle, by success, failure or crash, leaves only the database.
LEMMA EndStep ==
  ASSUME IInv, IInv', LossInv, Quiet, oldest' = oldest, active' = active,
         pc' = "idle", cycle' = NoCycle
  PROVE  LossInv'
<1>1. cycle'.todo = {} /\ cycle'.current = 0 /\ head \in Nat
  BY DEF NoCycle, IInv, TypeOK
<1>2. PointerInv' /\ AnnounceInv'
  BY QuietPointers
<1>3. BoundInv'
  BY <1>1, QuietBound
<1>4. RowInv'
  BY QuietRows
<1>5. TodoInv' /\ BehindInv' /\ BatchInv'
  BY <1>1 DEF TodoInv, BehindInv, BatchInv, Polling
<1>6. QED
  BY <1>2, <1>3, <1>4, <1>5 DEF LossInv

\* Only the factory's events bring anything back.
LEMMA AnnouncedByFactory ==
  ASSUME IInv, LossInv, NEW k \in Events, NEW i \in Events, OnFirstPage(i, k)
  PROVE  /\ chain[k].contract = Factory /\ chain[k].child \in Children
         /\ \A m \in Events : OnFirstPage(i, m) => m = k
<1>1. chain[k].child \in Children /\ chain[i].contract = chain[k].child
  <2>1. chain[i].contract \in Contracts /\ chain[i].contract = chain[k].child
    BY LedgerFacts DEF OnFirstPage
  <2>2. QED
    BY <2>1, ChainFacts, ContractsAssumption DEF IInv
<1>2. QED
  BY <1>1 DEF LossInv, AnnounceInv, OnFirstPage

\* An event of another contract brings nothing back.
LEMMA OthersAreSettled ==
  ASSUME IInv, LossInv, NEW k \in Events, chain[k].contract # Factory
  PROVE  Settled(k)
  BY AnnouncedByFactory DEF Settled

\* The groups are read from the pointers in the database.
LEMMA GroupStep == ASSUME IInv, IInv', LossInv, GroupByPointer PROVE LossInv'
<1> USE DEF chainVars, dbVars, pollVars
<1>1. Quiet
  BY StepIsQuiet DEF Within
<1>2. /\ pc = "head" /\ pc' = "groups" /\ active' = active /\ oldest' = oldest
      /\ chain' = chain /\ Events' = Events
  BY DEF GroupByPointer, Events
<1>3. /\ cycle'.current = head
      /\ \A g \in cycle'.todo : g.pointer < head
      /\ \A g \in cycle'.todo : \E c \in Active :
           /\ g.pointer = Pointer(c)
           /\ g = [pointer |-> Pointer(c), members |-> {d \in Active : Pointer(d) = Pointer(c)}]
  BY DEF GroupByPointer, NoCycle
<1>4. PointerInv' /\ AnnounceInv'
  BY <1>1, QuietPointers
<1>5. BoundInv'
  <2>1. head \in Nat
    BY DEF IInv, TypeOK
  <2>2. QED
    BY <1>1, <1>2, <1>3, <2>1, QuietBound
<1>6. RowInv'
  BY <1>1, <1>2, QuietRows
<1>7. BehindInv' /\ BatchInv'
  BY <1>2 DEF BehindInv, BatchInv, Polling
<1>8. ASSUME NEW g \in cycle'.todo
      PROVE  /\ \A c \in g.members : Registered(c)'
             /\ \A i \in Events : chain[i].contract \in g.members /\ chain[i].ledger <= g.pointer =>
                  Accounted(i)' /\ Settled(i)'
             /\ Factory \in g.members =>
                  Pointer(Factory)' <= g.pointer \/ Pointer(Factory)' <= excused'[Factory]
  <2>1. \A c \in g.members : c \in Contracts /\ active[c] /\ Pointer(c) = g.pointer
    BY <1>3 DEF Active
  <2>2. \A c \in g.members : Registered(c)
    BY <2>1 DEF LossInv, RowInv
  <2>3. \A c \in g.members : Registered(c)'
    BY <1>1, <2>1, <2>2 DEF Quiet, Grows, Registered
  <2>4. ASSUME NEW i \in Events, chain[i].contract \in g.members, chain[i].ledger <= g.pointer
        PROVE  Accounted(i)' /\ Settled(i)'
    <3>1. chain[i].ledger <= Pointer(chain[i].contract)
      BY <2>1, <2>4
    <3>2. Accounted(i)
      BY <3>1 DEF LossInv, PointerInv
    <3>3. Settled(i)
      <4>1. CASE chain[i].contract = Factory
        BY <3>1, <4>1, PassedIsSettled
      <4>2. CASE chain[i].contract # Factory
        BY <4>2, OthersAreSettled
      <4>3. QED
        BY <4>1, <4>2
    <3>4. QED
      BY <1>1, <2>2, <2>4, <3>2, <3>3, QuietKeeps
  <2>5. ASSUME Factory \in g.members PROVE Pointer(Factory)' <= g.pointer
    <3>1. Pointer(Factory)' = Pointer(Factory) /\ Pointer(Factory) = g.pointer
      BY <1>1, <2>1, <2>2, <2>5, QuietKeeps
    <3>2. Pointer(Factory) \in Nat
      BY <2>1, <2>5, PointerNat DEF IInv
    <3>3. QED
      BY <3>1, <3>2
  <2>6. QED
    BY <2>3, <2>4, <2>5
<1>9. ASSUME NEW g \in cycle'.todo, NEW h \in cycle'.todo, g # h
      PROVE  g.members \cap h.members = {}
  <2>1. PICK c \in Active :
          g = [pointer |-> Pointer(c), members |-> {d \in Active : Pointer(d) = Pointer(c)}]
    BY <1>3
  <2>2. PICK e \in Active :
          h = [pointer |-> Pointer(e), members |-> {d \in Active : Pointer(d) = Pointer(e)}]
    BY <1>3
  <2>3. Pointer(c) # Pointer(e)
    BY <1>9, <2>1, <2>2
  <2>4. QED
    BY <2>1, <2>2, <2>3
<1>10. TodoInv'
  <2>1. ~ Polling'
    BY <1>2 DEF Polling
  <2>2. QED
    BY <1>2, <1>3, <1>8, <1>9, <2>1 DEF TodoInv
<1>11. QED
  BY <1>4, <1>5, <1>6, <1>7, <1>10 DEF LossInv

\* A group starts behind its pointer.
LEMMA BeginStep ==
  ASSUME IInv, IInv', LossInv, NEW g \in cycle.todo, BeginGroup(g)
  PROVE  LossInv'
<1> USE DEF chainVars, dbVars, pollVars
<1>1. Quiet
  BY StepIsQuiet DEF Within
<1>2. /\ pc = "groups" /\ pc' = "fetch" /\ active' = active /\ oldest' = oldest /\ head' = head
      /\ chain' = chain /\ Events' = Events
      /\ cycle'.current = cycle.current /\ cycle'.todo = cycle.todo \ {g}
      /\ group'.members = g.members /\ group'.start = g.pointer + 1 /\ group'.cursor = 0
  BY DEF BeginGroup, Events, IInv, TypeOK, NoGroup
<1>3. /\ g.pointer < cycle.current
      /\ \A c \in g.members : Registered(c)
      /\ \A i \in Events : chain[i].contract \in g.members /\ chain[i].ledger <= g.pointer =>
           Accounted(i) /\ Settled(i)
      /\ Factory \in g.members =>
           Pointer(Factory) <= g.pointer \/ Pointer(Factory) <= excused[Factory]
      /\ \A h \in cycle.todo : g # h => g.members \cap h.members = {}
  BY DEF LossInv, TodoInv
<1>4. /\ g.pointer \in Nat /\ g.members \in SUBSET Contracts /\ cycle.current \in Nat
      /\ head \in Nat /\ cycle.current <= head
  BY LocalTypes DEF IInv, TypeOK, LossInv, BoundInv
<1>5. PointerInv' /\ AnnounceInv'
  BY <1>1, QuietPointers
<1>6. BoundInv'
  BY <1>1, <1>2, <1>4, QuietBound
<1>7. RowInv'
  BY <1>1, <1>2, QuietRows
<1>8. BatchInv'
  BY <1>2 DEF BatchInv
<1>9. TodoInv'
  <2>1. \A h \in cycle'.todo : h.members \cap group'.members = {}
    BY <1>2, <1>3
  <2>2. QED
    BY <1>1, <1>2, <2>1, QuietTodo
<1>10. BehindInv'
  <2>1. cycle'.current > 0 /\ 1 <= group'.start /\ group'.start <= head
    BY <1>2, <1>3, <1>4
  <2>2. \A c \in group'.members : Registered(c)'
    BY <1>1, <1>2, <1>3, <1>4 DEF Quiet, Grows, Registered
  <2>3. ASSUME NEW i \in Events, Behind(i)' PROVE Accounted(i)' /\ Settled(i)'
    <3>1. chain[i].contract \in g.members /\ chain[i].ledger < g.pointer + 1
      BY <1>2, <2>3 DEF Behind
    <3>2. chain[i].ledger <= g.pointer
      BY <1>4, <3>1, LedgerFacts
    <3>3. QED
      BY <1>1, <1>3, <3>1, <3>2, QuietKeeps
  <2>4. ASSUME Factory \in g.members
        PROVE  Pointer(Factory)' < group'.start \/ Pointer(Factory)' <= excused'[Factory]
    <3>1. Pointer(Factory)' = Pointer(Factory) /\ Pointer(Factory) \in Nat
      BY <1>1, <1>3, <1>4, <2>4, QuietKeeps, PointerNat DEF IInv
    <3>2. /\ excused[Factory] \in Nat /\ excused'[Factory] \in Nat
          /\ excused[Factory] <= excused'[Factory]
      BY <1>1, <1>4, <2>4 DEF Quiet, Grows, IInv, TypeOK
    <3>3. QED
      BY <1>2, <1>3, <1>4, <2>4, <3>1, <3>2
  <2>5. QED
    BY <1>2, <2>1, <2>2, <2>3, <2>4 DEF BehindInv
<1>11. QED
  BY <1>5, <1>6, <1>7, <1>8, <1>9, <1>10 DEF LossInv

\* The clamp leaves events the node no longer serves; what their children's pages
\* would bring back is excused.
LEMMA ClampStep == ASSUME IInv, IInv', LossInv, ClampToRetention PROVE LossInv'
<1> USE DEF chainVars, dbVars, pollVars
<1> DEFINE passed == Matching(group.members, group.start, 0) \ Matching(group.members, oldest, 0)
           lost   == Children \cap {chain[k].child : k \in passed}
<1>1. Quiet
  BY StepIsQuiet DEF Within
<1>2. /\ pc = "fetch" /\ pc' = "fetch" /\ group.cursor = 0 /\ group.start < oldest
      /\ UNCHANGED <<chain, head, oldest, active, last, cycle, page>> /\ Events' = Events
      /\ group'.members = group.members /\ group'.start = oldest /\ group'.cursor = 0
      /\ Excuse(lost, last)
  <2>1. group.start \in Nat /\ oldest \in Nat
    BY LocalTypes DEF IInv, TypeOK
  <2>2. QED
    <3>1. /\ pc = "fetch" /\ group.cursor = 0 /\ ~ Retained(group.start, 0)
          /\ group' = [group EXCEPT !.start = oldest, !.clamped = TRUE]
          /\ UNCHANGED <<chain, head, oldest, active, last, pc, cycle, page>> /\ Excuse(lost, last)
      BY DEF ClampToRetention
    <3>2. group.start < oldest
      BY <2>1, <3>1 DEF Retained
    <3>3. group'.members = group.members /\ group'.start = oldest /\ group'.cursor = 0
      BY <3>1 DEF IInv, TypeOK
    <3>4. QED
      BY <3>1, <3>2, <3>3 DEF Events
<1>3. /\ 1 <= group.start /\ group.start <= head
      /\ \A c \in group.members : Registered(c)
      /\ \A i \in Events : Behind(i) => Accounted(i) /\ Settled(i)
      /\ Factory \in group.members =>
           Pointer(Factory) < group.start \/ Pointer(Factory) <= excused[Factory]
  BY <1>2 DEF LossInv, BehindInv, Polling
<1>4. /\ group.start \in Nat /\ oldest \in Nat /\ head \in Nat
      /\ group.members \in SUBSET Contracts
      /\ last \in [Contracts -> Nat]
  BY LocalTypes DEF IInv, TypeOK
<1>5. PointerInv' /\ AnnounceInv'
  BY <1>1, QuietPointers
<1>6. BoundInv'
  BY <1>1, <1>2, QuietBound DEF LossInv, BoundInv
<1>7. RowInv'
  BY <1>1, <1>2, QuietRows
<1>8. BatchInv'
  BY <1>2 DEF BatchInv
<1>9. TodoInv'
  <2>1. \A h \in cycle'.todo : h.members \cap group'.members = {}
    BY <1>2 DEF LossInv, TodoInv, Polling
  <2>2. QED
    BY <1>1, <1>2, <2>1, QuietTodo
<1>10. BehindInv'
  <2>1. cycle'.current > 0 /\ 1 <= group'.start /\ group'.start <= head
    BY <1>2, <1>3, <1>4 DEF LossInv, BoundInv, BehindInv, Polling
  <2>2. \A c \in group'.members : Registered(c)'
    BY <1>1, <1>2, <1>3, <1>4 DEF Quiet, Grows, Registered
  <2>3. ASSUME NEW i \in Events, Behind(i)' PROVE Accounted(i)' /\ Settled(i)'
    <3>1. chain[i].contract \in group.members /\ chain[i].ledger < oldest
      BY <1>2, <2>3 DEF Behind
    <3>2. Accounted(i)'
      <4>1. Explained(i)'
        BY <1>2, <3>1 DEF Explained
      <4>2. QED
        BY <4>1 DEF Accounted
    <3>3. CASE chain[i].ledger < group.start
      <4>1. Behind(i)
        BY <1>2, <3>1, <3>3 DEF Behind
      <4>2. QED
        BY <1>1, <1>3, <3>2, <4>1, QuietKeeps
    <3>4. CASE ~ (chain[i].ledger < group.start)
      <4>1. i \in passed
        BY <1>4, <3>1, <3>4, LedgerFacts DEF Matching
      <4>2. ASSUME NEW j \in Events, OnFirstPage(j, i)', chain[j].ledger <= last[chain[j].contract]
            PROVE  Explained(j)'
        <5>1. chain[j].contract = chain[i].child /\ chain[j].contract \in Contracts
              /\ chain[j].ledger \in Nat
          <6>1. OnFirstPage(j, i)
            BY <1>2, <4>2, SameChain
          <6>2. QED
            BY <6>1, LedgerFacts DEF OnFirstPage
        <5>2. chain[i].child \in Children
          BY <5>1, ChainFacts, ContractsAssumption DEF IInv
        <5>3. chain[j].contract \in lost
          BY <4>1, <5>1, <5>2
        <5>4. last[chain[j].contract] <= excused'[chain[j].contract]
          <6> HIDE DEF lost
          <6> QED BY <1>2, <1>4, <5>1, <5>3, ExcuseGrows DEF IInv
        <5>5. excused'[chain[j].contract] \in Nat
          BY <5>1 DEF IInv, TypeOK
        <5>6. chain'[j].ledger <= excused'[chain'[j].contract]
          BY <1>2, <1>4, <4>2, <5>1, <5>4, <5>5
        <5>7. QED
          BY <5>6 DEF Explained
      <4>3. Settled(i)'
        BY <1>2, <4>2 DEF Settled
      <4>4. QED
        BY <3>2, <4>3
    <3>5. QED
      BY <3>3, <3>4
  <2>4. ASSUME Factory \in group.members
        PROVE  Pointer(Factory)' < group'.start \/ Pointer(Factory)' <= excused'[Factory]
    <3>1. Pointer(Factory)' = Pointer(Factory) /\ Pointer(Factory) \in Nat
      BY <1>1, <1>3, <1>4, <2>4, QuietKeeps, PointerNat DEF IInv
    <3>2. /\ excused[Factory] \in Nat /\ excused'[Factory] \in Nat
          /\ excused[Factory] <= excused'[Factory]
      BY <1>1, <1>4, <2>4 DEF Quiet, Grows, IInv, TypeOK
    <3>3. QED
      BY <1>2, <1>3, <1>4, <2>4, <3>1, <3>2
  <2>5. QED
    BY <1>2, <2>1, <2>2, <2>3, <2>4 DEF BehindInv
<1>11. QED
  BY <1>5, <1>6, <1>7, <1>8, <1>9, <1>10 DEF LossInv

\* A page begins behind the request.
LEMMA FetchStep == ASSUME IInv, IInv', LossInv, FetchPage PROVE LossInv'
<1> USE DEF chainVars, dbVars, pollVars
<1> DEFINE found == FirstN(Matching(group.members, group.start, group.cursor), PageLimit)
<1>1. Quiet
  BY StepIsQuiet DEF Within
<1>2. /\ pc = "fetch" /\ pc' = "page"
      /\ UNCHANGED <<chain, head, oldest, active, last, cycle, group>> /\ Events' = Events
  BY DEF FetchPage, Events
<1>3. /\ page'.events = found /\ page'.latest = head /\ page'.batch = found
      /\ page'.kids = {i \in found : chain[i].child # NoContract}
  BY DEF FetchPage
<1>4. /\ Matching(group.members, group.start, group.cursor) \in SUBSET Events
      /\ found \subseteq Matching(group.members, group.start, group.cursor)
  BY MatchingFacts, FirstNFacts
<1>5. PointerInv' /\ AnnounceInv'
  BY <1>1, QuietPointers
<1>6. BoundInv'
  BY <1>1, <1>2, QuietBound DEF LossInv, BoundInv
<1>7. RowInv'
  BY <1>1, <1>2, QuietRows
<1>8. TodoInv'
  <2>1. \A h \in cycle'.todo : h.members \cap group'.members = {}
    BY <1>2 DEF LossInv, TodoInv, Polling
  <2>2. QED
    BY <1>1, <1>2, <2>1, QuietTodo
<1>9. BehindInv'
  BY <1>1, <1>2, QuietBehind DEF Polling
<1>10. BatchInv'
  <2>1. \A i \in Events : Behind(i)' <=> Behind(i)
    BY <1>2 DEF Behind
  <2>2. \A i \in Events : i \in Matching(group.members, group.start, group.cursor) <=>
          chain[i].contract \in group.members /\ ~ Behind(i)
    <3>1. group.start \in Nat /\ group.cursor \in Nat
      BY LocalTypes DEF IInv
    <3>2. \A i \in Events : i \in Nat /\ chain[i].ledger \in Nat
      BY LedgerFacts
    <3>3. QED
      BY <3>1, <3>2 DEF Matching, Behind
  <2>3. /\ group.start <= head
        /\ group.cursor # 0 => chain[group.cursor].ledger <= head
    <3>1. group.cursor # 0 => group.cursor \in Events
      BY <1>2 DEF IInv, GroupInv
    <3>2. QED
      BY <1>2, <3>1, LedgerFacts DEF LossInv, BehindInv, Polling
  <2>4. \A i \in found : chain[i].contract \in group.members /\ ~ Behind(i)'
    BY <1>4, <2>1, <2>2
  <2>5. ASSUME NEW i \in Events, chain[i].contract \in group.members, ~ Behind(i)', i \notin found
        PROVE  ~ (Cardinality(found) < PageLimit) /\ \A j \in found : j < i
    <3>1. i \in Matching(group.members, group.start, group.cursor)
      BY <2>1, <2>2, <2>5
    <3>2. QED
      BY <1>4, <2>5, <3>1, PageBegins, BoundsAssumption DEF IInv
  <2>6. ASSUME NEW k \in found, chain[k].child = NoContract, NEW i \in Events
        PROVE  ~ OnFirstPage(i, k)'
    <3>1. k \in Events
      BY <1>4
    <3>2. ~ OnFirstPage(i, k)
      BY <2>6, LedgerFacts, ContractsAssumption DEF OnFirstPage
    <3>3. QED
      BY <1>2, <3>1, <3>2, SameChain
  <2>7. IsLastPage' <=> Cardinality(found) < PageLimit
    BY <1>3 DEF IsLastPage
  <2> HIDE DEF found
  <2>8. /\ group'.start <= page'.latest /\ page'.latest <= head'
        /\ group'.cursor # 0 => chain'[group'.cursor].ledger <= page'.latest
        /\ page'.events \subseteq page'.batch /\ page'.kids \subseteq page'.events
    <3>1. head \in Nat
      BY DEF IInv, TypeOK
    <3>2. QED
      BY <1>2, <1>3, <2>3, <3>1
  <2>9. QED
    BY <1>2, <1>3, <2>4, <2>5, <2>6, <2>7, <2>8 DEF BatchInv
<1>11. QED
  BY <1>5, <1>6, <1>7, <1>8, <1>9, <1>10 DEF LossInv

\* A child whose page is skipped is excused up to its pointer.
LEMMA SkipStep == ASSUME IInv, IInv', LossInv, SkipChildPage PROVE LossInv'
<1> USE DEF chainVars, dbVars, pollVars
<1>0. PICK k \in Events : k = Min(page.kids) /\ chain[k].child \in Contracts
  BY KidFacts DEF SkipChildPage, IInv, PageInv
<1>1. Quiet
  BY StepIsQuiet DEF Within
<1>2. /\ pc = "child" /\ pc' = "page"
      /\ UNCHANGED <<chain, head, oldest, active, last, cycle, group>> /\ Events' = Events
      /\ page'.events = page.events /\ page'.latest = page.latest
      /\ page'.batch = page.batch /\ page'.left = page.left /\ page'.kids = page.kids \ {k}
      /\ Excuse({chain[k].child}, last)
  BY <1>0 DEF SkipChildPage, Events, IInv, TypeOK
<1>3. last \in [Contracts -> Nat]
  BY DEF IInv, TypeOK
<1>5. PointerInv' /\ AnnounceInv'
  BY <1>1, QuietPointers
<1>6. BoundInv'
  BY <1>1, <1>2, QuietBound DEF LossInv, BoundInv
<1>7. RowInv'
  BY <1>1, <1>2, QuietRows
<1>8. TodoInv'
  <2>1. \A h \in cycle'.todo : h.members \cap group'.members = {}
    BY <1>2 DEF LossInv, TodoInv, Polling
  <2>2. QED
    BY <1>1, <1>2, <2>1, QuietTodo
<1>9. BehindInv'
  BY <1>1, <1>2, QuietBehind DEF Polling
<1>10. Settled(k)'
  <2>1. SUFFICES ASSUME NEW i \in Events, OnFirstPage(i, k)',
                        chain[i].ledger <= last[chain[i].contract]
                 PROVE  Explained(i)'
    BY <1>2 DEF Settled
  <2>2. chain[i].contract = chain[k].child /\ chain[i].contract \in Contracts
        /\ chain[i].ledger \in Nat
    <3>1. OnFirstPage(i, k)
      BY <1>2, <2>1, SameChain
    <3>2. QED
      BY <1>0, <3>1, LedgerFacts DEF OnFirstPage
  <2>3. last[chain[i].contract] <= excused'[chain[i].contract]
    BY <1>2, <1>3, <2>2, ExcuseGrows DEF IInv
  <2>4. excused'[chain[i].contract] \in Nat
    BY <2>2 DEF IInv, TypeOK
  <2>5. chain'[i].ledger <= excused'[chain'[i].contract]
    BY <1>2, <1>3, <2>1, <2>2, <2>3, <2>4
  <2>6. QED
    BY <2>5 DEF Explained
<1>11. BatchInv'
  BY <1>1, <1>2, <1>10, QuietBatch
<1>12. QED
  BY <1>5, <1>6, <1>7, <1>8, <1>9, <1>11 DEF LossInv

\* No step of the cycle that moves no pointer breaks the invariant.
LEMMA WithinStep == ASSUME IInv, IInv', LossInv, Within PROVE LossInv'
<1>1. CASE FinishPoll \/ FailPoll \/ Crash
  <2>1. Quiet
    BY <1>1, StepIsQuiet DEF Within
  <2>2. oldest' = oldest /\ active' = active /\ pc' = "idle" /\ cycle' = NoCycle
    BY <1>1 DEF FinishPoll, FailPoll, Crash, EndCycle, chainVars, dbVars
  <2>3. QED
    BY <2>1, <2>2, EndStep
<1>2. QED
  BY <1>1, GroupStep, BeginStep, ClampStep, FetchStep, SkipStep DEF Within

\* What comes behind a cursor in its ledger is the tail of a full page.
LEMMA CursorTail ==
  ASSUME IInv, NEW n \in stored, Cardinality({j \in stored : j <= n}) >= PageLimit,
         NEW k \in Events, n < k, chain[n].ledger = chain[k].ledger
  PROVE  TailOf(k, stored)
<1> DEFINE b == {j \in stored : j <= n}
           d == {j \in stored : j < k}
<1>1. stored \in SUBSET Events /\ Events \subseteq Nat
  BY LedgerFacts DEF IInv, TypeOK
<1>2. b \subseteq d /\ b \in SUBSET Events /\ d \in SUBSET Events /\ n \in d
  <2>1. \A j \in stored : j <= n => j < k
    BY <1>1
  <2>2. QED
    BY <1>1, <2>1
<1>3. Cardinality(b) >= PageLimit
  OBVIOUS
<1> HIDE DEF b, d
<1>4. Cardinality(b) <= Cardinality(d) /\ Cardinality(b) \in Nat /\ Cardinality(d) \in Nat
  BY <1>2, EventsFinite, FS_Subset DEF IInv
<1>5. Cardinality(d) >= PageLimit
  BY <1>3, <1>4, BoundsAssumption
<1>6. QED
  BY <1>2, <1>5 DEF d, TailOf

\* An event of a page whose factory's pointer has passed it is cut off, or the factory
\* was overtaken.
LEMMA PassedOnPage ==
  ASSUME IInv, LossInv, pc \in {"page", "child"}, NEW k \in page.events,
         chain[k].contract = Factory, chain[k].ledger <= Pointer(Factory)
  PROVE  TailOf(k, stored) \/ chain[k].ledger <= excused[Factory]
<1>1. k \in Events /\ Factory \in group.members /\ ~ Behind(k)
  BY LocalTypes DEF LossInv, BatchInv, IInv
<1>2. /\ IF group.cursor = 0
         THEN Pointer(Factory) < group.start \/ Pointer(Factory) <= excused[Factory]
         ELSE Pointer(Factory) <= chain[group.cursor].ledger
      /\ group.cursor # 0 => /\ group.cursor \in stored
                             /\ Cardinality({j \in stored : j <= group.cursor}) >= PageLimit
  BY <1>1 DEF LossInv, BehindInv, Polling
<1>3. /\ Factory \in Contracts /\ Pointer(Factory) \in Nat /\ excused[Factory] \in Nat
      /\ group.start \in Nat /\ group.cursor \in Nat /\ chain[k].ledger \in Nat /\ k \in Nat
  BY <1>1, PointerNat, LocalTypes, LedgerFacts DEF Contracts, IInv, TypeOK
<1>4. CASE group.cursor = 0
  <2>1. group.start <= chain[k].ledger
    BY <1>1, <1>3, <1>4 DEF Behind
  <2>2. Pointer(Factory) <= excused[Factory]
    BY <1>2, <1>3, <1>4, <2>1
  <2>3. QED
    BY <1>3, <2>2
<1>5. CASE group.cursor # 0
  <2>1. group.cursor < k /\ group.cursor \in Events /\ group.cursor \in stored
        /\ Pointer(Factory) <= chain[group.cursor].ledger
    <3>1. ~ (k <= group.cursor)
      BY <1>1, <1>5 DEF Behind
    <3>2. stored \subseteq Events
      BY DEF IInv, TypeOK
    <3>3. group.cursor \in stored /\ Pointer(Factory) <= chain[group.cursor].ledger
      BY <1>2, <1>5
    <3>4. group.cursor < k
      BY <1>3, <3>1
    <3>5. QED
      BY <3>2, <3>3, <3>4
  <2>2. chain[group.cursor].ledger <= chain[k].ledger
        /\ chain[group.cursor].ledger \in Nat
    BY <1>1, <2>1, LedgerFacts
  <2>3. chain[group.cursor].ledger = chain[k].ledger
    BY <1>3, <2>1, <2>2
  <2>4. QED
    BY <1>1, <1>2, <1>5, <2>1, <2>3, CursorTail
<1>6. QED
  BY <1>4, <1>5

\* Nor has the request left anything of the child behind, but in the ledger of that
\* event, when the cursor has split it.
LEMMA BehindKid ==
  ASSUME IInv, LossInv, pc \in {"page", "child"}, NEW k \in page.events,
         NEW i \in Events, Behind(i), chain[k].ledger <= chain[i].ledger
  PROVE  TailOf(k, stored)
<1>1. k \in Events /\ ~ Behind(k) /\ chain[k].contract \in group.members
  BY LocalTypes DEF LossInv, BatchInv, IInv
<1>2. /\ group.start \in Nat /\ group.cursor \in Nat /\ chain[k].ledger \in Nat /\ k \in Nat
      /\ chain[i].ledger \in Nat /\ i \in Nat
  BY <1>1, LocalTypes, LedgerFacts DEF IInv
<1>3. group.cursor # 0
  BY <1>1, <1>2 DEF Behind
<1>4. group.cursor < k /\ i <= group.cursor
  BY <1>1, <1>2, <1>3 DEF Behind
<1>5. group.cursor \in stored /\ group.cursor \in Events
      /\ Cardinality({j \in stored : j <= group.cursor}) >= PageLimit
  BY <1>3 DEF LossInv, BehindInv, Polling, IInv, TypeOK
<1>6. chain[group.cursor].ledger = chain[k].ledger
  <2>1. chain[i].ledger <= chain[group.cursor].ledger
    BY <1>4, <1>5, LedgerFacts
  <2>2. chain[group.cursor].ledger <= chain[k].ledger
    BY <1>1, <1>2, <1>4, <1>5, LedgerFacts
  <2>3. chain[group.cursor].ledger \in Nat
    BY <1>5, LedgerFacts
  <2>4. QED
    BY <1>2, <2>1, <2>2, <2>3
<1>7. QED
  BY <1>1, <1>4, <1>5, <1>6, CursorTail

\* A child emits nothing before the one event that announces it.
LEMMA AnnouncedFirst ==
  ASSUME IInv, LossInv, NEW k \in Events, chain[k].child \in Children
  PROVE  /\ chain[k].contract = Factory
         /\ \A m \in Events : chain[m].child = chain[k].child => m = k
         /\ \A i \in Events : chain[i].contract = chain[k].child =>
              /\ chain[k].ledger <= chain[i].ledger
              /\ i \in Matching({chain[k].child}, chain[k].ledger, 0)
<1>1. chain[k].contract = Factory /\ \A m \in Events : chain[m].child = chain[k].child => m = k
  BY DEF LossInv, AnnounceInv
<1>2. \A i \in Events : chain[i].contract = chain[k].child => chain[k].ledger <= chain[i].ledger
  BY <1>1 DEF LossInv, AnnounceInv
<1>3. QED
  BY <1>1, <1>2, LedgerFacts DEF Matching

\* The first page of a child: not beyond the head; up to the ledger its pointer is moved
\* to, its events are in that page's ledgers, and on it or in the tail it cuts off.
LEMMA FirstPageFacts ==
  ASSUME IInv, LossInv, NEW k \in Events, chain[k].child \in Children,
         NEW q, q = IF Cardinality(FirstPage(k)) < PageLimit THEN cycle.current
                    ELSE LastLedgerOf(FirstPage(k)),
         cycle.current > 0
  PROVE  /\ q \in Nat /\ 1 <= q /\ q <= head
         /\ FirstPage(k) \in SUBSET Events
         /\ \A i \in Events : chain[i].contract = chain[k].child /\ chain[i].ledger <= q =>
              OnFirstPage(i, k) /\ (i \in FirstPage(k) \/ TailOf(i, FirstPage(k)))
         /\ \A i \in Events : OnFirstPage(i, k) /\ q < chain[i].ledger =>
              cycle.current < chain[i].ledger /\ q = cycle.current
<1> DEFINE M == Matching({chain[k].child}, chain[k].ledger, 0)
<1>1. M \in SUBSET Events /\ FirstPage(k) \subseteq M
  BY MatchingFacts, FirstNFacts DEF FirstPage
<1>2. \A i \in Events : chain[i].contract = chain[k].child => i \in M
  BY AnnouncedFirst
<1>3. /\ \A i \in M \ FirstPage(k), j \in FirstPage(k) : j < i
      /\ Cardinality(FirstPage(k)) < PageLimit => FirstPage(k) = M
  BY <1>1, PageBegins, BoundsAssumption DEF FirstPage, IInv
<1>4. FirstPage(k) \in SUBSET Events
  BY <1>1
<1> HIDE DEF M
<1>5. CASE Cardinality(FirstPage(k)) < PageLimit
  <2>1. q = cycle.current
    BY <1>5
  <2>2. q \in Nat /\ 1 <= q /\ q <= head
    BY <2>1, LocalTypes DEF IInv, LossInv, BoundInv
  <2>3. \A i \in Events : chain[i].contract = chain[k].child =>
          i \in FirstPage(k) /\ OnFirstPage(i, k)
    BY <1>2, <1>3, <1>5 DEF OnFirstPage
  <2>4. QED
    BY <1>4, <2>1, <2>2, <2>3
<1>6. CASE ~ (Cardinality(FirstPage(k)) < PageLimit)
  <2> DEFINE L == {chain[j].ledger : j \in FirstPage(k)}
  <2>1. q = Max(L)
    BY <1>6 DEF LastLedgerOf
  <2>2. Max(L) \in L /\ \A x \in L : x <= Max(L)
    <3>1. L \in SUBSET (0 .. head) /\ head \in Nat
      BY <1>4, LedgerFacts
    <3>2. L # {}
      BY <1>6, FullPageNotEmpty
    <3> HIDE DEF L
    <3>3. QED
      BY <3>1, <3>2, MaxProperty
  <2>3. PICK e \in FirstPage(k) : chain[e].ledger = q
    BY <2>1, <2>2
  <2>4. q \in Nat /\ 1 <= q /\ q <= head
    BY <1>4, <2>3, LedgerFacts
  <2>5. \A j \in FirstPage(k) : chain[j].ledger <= q
    BY <2>1, <2>2
  <2>6. ASSUME NEW i \in Events, chain[i].contract = chain[k].child, chain[i].ledger <= q
        PROVE  OnFirstPage(i, k) /\ (i \in FirstPage(k) \/ TailOf(i, FirstPage(k)))
    <3>1. CASE i \in FirstPage(k)
      BY <2>6, <3>1 DEF OnFirstPage
    <3>2. CASE i \notin FirstPage(k)
      <4>1. \A j \in FirstPage(k) : j < i
        BY <1>2, <1>3, <2>6, <3>2
      <4>2. q = LastLedgerOf(FirstPage(k))
        BY <1>6
      <4>3. TailOf(i, FirstPage(k)) /\ chain[i].ledger = q
        BY <1>4, <1>6, <2>6, <4>1, <4>2, BehindFullPage
      <4>4. QED
        BY <2>3, <2>6, <4>3 DEF OnFirstPage
    <3>3. QED
      BY <3>1, <3>2
  <2>7. \A i \in Events : OnFirstPage(i, k) => chain[i].ledger <= q
    BY <2>5 DEF OnFirstPage
  <2>8. QED
    BY <1>4, <2>4, <2>6, <2>7, LedgerFacts
<1>7. QED
  BY <1>5, <1>6

\* A child's first page moves its pointer; the page's rows are in the batch, and either
\* the `created` event is read again or it is lost.
LEMMA ChildPageStep == ASSUME IInv, IInv', LossInv, FetchChildPage PROVE LossInv'
<1> USE DEF chainVars, dbVars, pollVars, histVars
<1>0. PICK k \in Events : k = Min(page.kids) /\ k \in page.kids
                          /\ chain[k].child \in Children /\ chain[k].child \in Contracts
  BY KidFacts DEF FetchChildPage, IInv, PageInv
<1>1. PICK c \in Contracts : c = chain[k].child /\ c \in Children
  BY <1>0
<1>2. PICK q : q = IF Cardinality(FirstPage(k)) < PageLimit THEN cycle.current
                   ELSE LastLedgerOf(FirstPage(k))
  OBVIOUS
<1>3. /\ pc = "child" /\ pc' = "page"
      /\ UNCHANGED <<chain, head, oldest, stored, globalLedger, rowId, active, startAt, cycle,
                     group, since, excused>>
      /\ Events' = Events
      /\ page'.events = page.events /\ page'.latest = page.latest /\ page'.left = page.left
      /\ page'.kids = page.kids \ {k} /\ page'.batch = page.batch \cup FirstPage(k)
      /\ last' = [last EXCEPT ![c] = q]
  BY <1>0, <1>1, <1>2 DEF FetchChildPage, FirstPage, Events, IInv, TypeOK
<1>4. /\ last \in [Contracts -> Nat] /\ c # Factory /\ Factory \in Contracts
      /\ page.events \in SUBSET Events /\ page.kids \in SUBSET Events
      /\ page.batch \in SUBSET Events /\ group.members \in SUBSET Contracts
      /\ cycle.current \in Nat /\ cycle.current <= head /\ head \in Nat
  BY <1>1, LocalTypes, ContractsAssumption DEF Contracts, IInv, TypeOK, LossInv, BoundInv
<1>5. /\ last'[c] = q
      /\ \A e \in Contracts : e # c => last'[e] = last[e] /\ Pointer(e)' = Pointer(e)
  BY <1>3, <1>4 DEF Pointer
<1>6. /\ cycle.current > 0 /\ k \in page.events /\ Registered(c)
      /\ chain[k].contract = Factory /\ Factory \in group.members /\ ~ Behind(k)
      /\ BehindInv /\ BatchInv
  <2>1. BehindInv /\ BatchInv /\ RowInv
    BY DEF LossInv
  <2>2. cycle.current > 0 /\ Registered(c)
    BY <1>0, <1>1, <1>3, <2>1 DEF BehindInv, Polling, RowInv
  <2>3. chain[k].contract = Factory
    BY <1>0, AnnouncedFirst
  <2>4. k \in page.events /\ Factory \in group.members /\ ~ Behind(k)
    BY <1>0, <1>3, <2>1, <2>3 DEF BatchInv
  <2>5. QED
    BY <2>1, <2>2, <2>3, <2>4
<1>7. /\ q \in Nat /\ 1 <= q /\ q <= head
      /\ FirstPage(k) \in SUBSET Events
      /\ \A i \in Events : chain[i].contract = c /\ chain[i].ledger <= q =>
           OnFirstPage(i, k) /\ (i \in FirstPage(k) \/ TailOf(i, FirstPage(k)))
      /\ \A i \in Events : OnFirstPage(i, k) /\ q < chain[i].ledger =>
           cycle.current < chain[i].ledger
  BY <1>0, <1>1, <1>2, <1>6, FirstPageFacts
<1>8. Grows
  BY <1>3, <1>4 DEF Grows, IInv, TypeOK
<1>9. Pointer(Factory)' = Pointer(Factory) /\ Pointer(Factory) \in Nat
  BY <1>4, <1>5, PointerNat DEF IInv
<1>10. \A i \in Events : Registered(chain[i].contract) /\ Explained(i) => Explained(i)'
  BY <1>8, ExplainedKept
<1>11. \A i \in Events : Explained(i) => Explained(i)'
  <2>1. \A i \in Events : ~ Registered(chain[i].contract) => ~ Owed(i)'
    BY <1>3 DEF Owed, Registered
  <2>2. \A i \in Events : ~ Registered(chain[i].contract) => Explained(i)'
    BY <2>1 DEF Explained
  <2>3. QED
    BY <1>10, <2>2
<1>12. \A i \in Events : Refetched(i) => Refetched(i)'
  BY <1>3, <1>9, RefetchedKept
<1>13. \A i \in Events : Accounted(i) /\ chain[i].contract # c => Accounted(i)'
  <2>1. SUFFICES ASSUME NEW i \in Events, Accounted(i), chain[i].contract # c
                 PROVE  Accounted(i)'
    OBVIOUS
  <2>2. chain'[i] = chain[i] /\ last'[chain[i].contract] = last[chain[i].contract]
    BY <1>3, <1>5, <2>1, LedgerFacts
  <2>3. QED
    BY <1>3, <1>11, <1>12, <2>1, <2>2 DEF Accounted
\* Of the child itself, what its own `created` event brings back.
<1>14. \A m \in Events : chain[m].child = c => m = k
  BY <1>0, <1>1, AnnouncedFirst
<1>15. \A i, m \in Events : OnFirstPage(i, m) <=> OnFirstPage(i, m)'
  BY <1>3, SameChain
<1>16. ASSUME NEW i \in Events, chain[i].contract = c, Cut(c) PROVE Explained(i)'
  <2>1. Explained(i)
    BY <1>16 DEF Explained
  <2>2. QED
    BY <1>11, <2>1
<1>17. ASSUME chain[k].ledger <= Pointer(Factory) PROVE Cut(c)
  BY <1>1, <1>3, <1>6, <1>17, PassedOnPage DEF Cut
<1>18. ASSUME NEW i \in Events, chain[i].contract = c, OnFirstPage(i, k), chain[i].ledger <= q
       PROVE  Accounted(i)'
  <2>1. CASE chain[k].ledger <= Pointer(Factory)
    BY <1>16, <1>17, <1>18, <2>1 DEF Accounted
  <2>2. CASE ~ (chain[k].ledger <= Pointer(Factory))
    <3>1. chain[k].ledger > Pointer(Factory)
      BY <1>9, <2>2, LedgerFacts
    <3>2. Refetched(i)
      BY <1>18, <3>1 DEF Refetched
    <3>3. chain'[i].ledger <= last'[chain'[i].contract]
      BY <1>3, <1>5, <1>18
    <3>4. QED
      BY <1>12, <3>2, <3>3 DEF Accounted
  <2>3. QED
    BY <2>1, <2>2
<1>19. ASSUME NEW i \in Events, chain[i].contract = c, Accounted(i),
              chain[i].ledger <= q \/ chain[i].ledger <= cycle.current
       PROVE  Accounted(i)'
  <2>1. CASE Explained(i)
    BY <1>11, <2>1 DEF Accounted
  <2>2. CASE Refetched(i)
    <3>1. PICK m \in Events : OnFirstPage(i, m)
      BY <2>2 DEF Refetched
    <3>2. m = k
      BY <1>14, <1>19, <3>1 DEF OnFirstPage
    <3>3. chain[i].ledger <= q
      BY <1>4, <1>7, <1>19, <3>1, <3>2, LedgerFacts
    <3>4. QED
      BY <1>18, <1>19, <3>1, <3>2, <3>3
  <2>3. QED
    BY <1>19, <2>1, <2>2 DEF Accounted
<1>20. ASSUME NEW m \in Events, m # k, Settled(m) PROVE Settled(m)'
  <2>1. SUFFICES ASSUME NEW i \in Events, OnFirstPage(i, m),
                        chain[i].ledger <= last'[chain[i].contract]
                 PROVE  Explained(i)'
    BY <1>3, <1>15 DEF Settled
  <2>2. chain[i].contract # c /\ chain[i].contract \in Contracts
    BY <1>14, <1>20, <2>1, LedgerFacts DEF OnFirstPage
  <2>3. chain[i].ledger <= last[chain[i].contract]
    BY <1>5, <2>1, <2>2
  <2>4. QED
    BY <1>11, <1>20, <2>1, <2>3 DEF Settled
<1>21. BoundInv'
  BY <1>3, <1>5, <1>7 DEF LossInv, BoundInv
<1>22. RowInv'
  BY <1>3, <1>5, <1>6 DEF LossInv, RowInv, Registered
<1>23. AnnounceInv'
  BY <1>3 DEF LossInv, AnnounceInv
<1>24. PointerInv'
  <2>1. SUFFICES ASSUME NEW i \in Events, NEW e \in Contracts, e = chain[i].contract,
                        chain[i].ledger <= Pointer(e)'
                 PROVE  Accounted(i)'
    BY <1>3, LedgerFacts DEF PointerInv, Pointer
  <2>2. CASE e = c
    <3>1. Pointer(e)' = q
      BY <1>5, <1>7, <2>2 DEF Pointer
    <3>2. QED
      BY <1>7, <1>18, <2>1, <2>2, <3>1
  <2>3. CASE e # c
    <3>1. Accounted(i)
      BY <1>5, <2>1, <2>3 DEF LossInv, PointerInv
    <3>2. QED
      BY <1>13, <2>1, <2>3, <3>1
  <2>4. QED
    BY <2>2, <2>3
<1>25. TodoInv'
  <2>1. Polling /\ Polling' /\ TodoInv
    BY <1>3 DEF Polling, LossInv
  <2>2. ASSUME NEW g \in cycle.todo, NEW i \in Events, chain[i].contract \in g.members,
               chain[i].ledger <= g.pointer
        PROVE  Accounted(i)' /\ Settled(i)'
    <3>1. Accounted(i) /\ Settled(i) /\ g.pointer < cycle.current /\ g.pointer \in Nat
          /\ g.members \cap group.members = {}
      BY <2>1, <2>2, LocalTypes DEF TodoInv, IInv
    <3>2. i # k
      BY <1>6, <2>2, <3>1
    <3>3. chain[i].ledger <= cycle.current
      BY <1>4, <2>2, <3>1, LedgerFacts
    <3>4. QED
      BY <1>13, <1>19, <1>20, <3>1, <3>2, <3>3
  <2>3. \A g \in cycle.todo : Factory \in g.members =>
          Pointer(Factory)' <= g.pointer \/ Pointer(Factory)' <= excused[Factory]
    BY <1>9, <2>1 DEF TodoInv
  <2>4. \A g \in cycle.todo : /\ g.pointer < cycle.current
                              /\ \A d \in g.members : rowId[d] # 0
                              /\ g.members \cap group.members = {}
    BY <2>1 DEF TodoInv, Registered
  <2>5. \A g, h \in cycle.todo : g # h => g.members \cap h.members = {}
    BY <2>1 DEF TodoInv
  <2>6. QED
    BY <1>3, <2>2, <2>3, <2>4, <2>5 DEF TodoInv, Registered
<1>26. \A i \in Events : Behind(i)' <=> Behind(i)
  BY <1>3 DEF Behind
<1>27. ASSUME NEW i \in Events, Behind(i) PROVE Accounted(i)' /\ Settled(i)'
  <2>1. Accounted(i) /\ Settled(i) /\ i # k
    BY <1>3, <1>6, <1>27 DEF BehindInv, Polling
  <2>2. CASE chain[i].contract # c
    BY <1>13, <1>20, <2>1, <2>2
  <2>3. CASE chain[i].contract = c
    <3>1. chain[k].ledger <= chain[i].ledger
      BY <1>0, <1>1, <2>3, AnnouncedFirst
    <3>2. TailOf(k, stored)
      BY <1>3, <1>6, <1>27, <3>1, BehindKid
    <3>3. Cut(c)
      BY <1>1, <3>2 DEF Cut
    <3>4. Explained(i)'
      BY <1>16, <2>3, <3>3
    <3>5. QED
      BY <1>20, <2>1, <3>4 DEF Accounted
  <2>4. QED
    BY <2>2, <2>3
<1>28. BehindInv'
  <2>1. Polling /\ Polling'
    BY <1>3 DEF Polling
  <2>2. /\ cycle.current > 0 /\ 1 <= group.start /\ group.start <= head
        /\ \A d \in group.members : rowId[d] # 0
        /\ group.cursor # 0 => /\ group.cursor \in stored
                               /\ Cardinality({j \in stored : j <= group.cursor}) >= PageLimit
    BY <1>6, <2>1 DEF BehindInv, Registered
  <2>3. Factory \in group.members =>
          IF group.cursor = 0
          THEN Pointer(Factory)' < group.start \/ Pointer(Factory)' <= excused[Factory]
          ELSE Pointer(Factory)' <= chain[group.cursor].ledger
    BY <1>3, <1>6, <1>9, <2>1 DEF BehindInv
  <2>4. QED
    BY <1>3, <1>26, <1>27, <2>2, <2>3 DEF BehindInv, Registered
<1>29. BatchInv'
  <2>1. IsLastPage' = IsLastPage /\ NewLedger' = NewLedger
    BY <1>3 DEF IsLastPage, NewLedger, LastLedgerOf
  <2>2. page'.batch \in SUBSET Events /\ page.batch \subseteq page'.batch
    BY <1>3, <1>4, <1>7
  <2>3. \A i \in Events : InBatch(i) => InBatch(i)'
    <3>1. \A i \in Events : TailOf(i, page.batch) => TailOf(i, page'.batch)
      BY <1>4, <2>2, TailGrows DEF IInv
    <3>2. QED
      BY <1>3, <2>2, <3>1 DEF InBatch, TailOf
  <2>4. ASSUME NEW m \in page.events \ page'.kids, NEW i \in Events, OnFirstPage(i, m)',
               chain[i].ledger <= last'[chain[i].contract]
        PROVE  Explained(i)' \/ InBatch(i)'
    <3>1. OnFirstPage(i, m) /\ m \in Events
      BY <1>4, <1>15, <2>4
    <3>2. CASE m = k
      <4>1. chain[i].contract = c /\ chain[i].ledger <= q
        BY <1>1, <1>5, <2>4, <3>1, <3>2 DEF OnFirstPage
      <4>2. i \in FirstPage(k) \/ TailOf(i, FirstPage(k))
        BY <1>7, <4>1
      <4>3. i \in page'.batch \/ TailOf(i, page'.batch)
        <5>1. FirstPage(k) \subseteq page'.batch
          BY <1>3
        <5>2. QED
          BY <1>7, <2>2, <4>2, <5>1, TailGrows DEF IInv
      <4>4. QED
        BY <1>3, <4>3 DEF InBatch, TailOf
    <3>3. CASE m # k
      <4>1. chain[i].contract # c /\ chain[i].contract \in Contracts
        BY <1>14, <3>1, <3>3, LedgerFacts DEF OnFirstPage
      <4>2. chain[i].ledger <= last[chain[i].contract] /\ m \notin page.kids
        BY <1>3, <1>5, <2>4, <3>3, <4>1
      <4>3. Explained(i) \/ InBatch(i)
        BY <1>3, <1>6, <2>4, <3>1, <4>2 DEF BatchInv
      <4>4. QED
        BY <1>11, <2>3, <4>3
    <3>4. QED
      BY <3>2, <3>3
  <2>5. /\ group.start <= page.latest /\ page.latest <= head
        /\ group.cursor # 0 => chain[group.cursor].ledger <= page.latest
        /\ page.events \subseteq page'.batch /\ page'.kids \subseteq page.events
    BY <1>3, <1>6, <2>2 DEF BatchInv
  <2>6. \A i \in page.events : chain[i].contract \in group.members /\ ~ Behind(i)'
    BY <1>3, <1>4, <1>6, <1>26 DEF BatchInv
  <2>7. \A i \in Events :
          chain[i].contract \in group.members /\ ~ Behind(i)' /\ chain[i].ledger <= NewLedger =>
            i \in page.events \/ (~ IsLastPage /\ \A j \in page.events : j < i)
    BY <1>3, <1>6, <1>26 DEF BatchInv
  <2>8. QED
    BY <1>3, <2>1, <2>4, <2>5, <2>6, <2>7 DEF BatchInv
<1>30. QED
  BY <1>21, <1>22, <1>23, <1>24, <1>25, <1>28, <1>29 DEF LossInv

\* A commit stores the batch and moves the global pointer, over the heads of the
\* contracts that have no pointer of their own.
LEMMA InsertStep == ASSUME IInv, IInv', LossInv, InsertEventBatch PROVE LossInv'
<1> USE DEF chainVars, dbVars, pollVars, histVars
<1>1. /\ pc = "page" /\ pc' = "advance" /\ page.kids = {}
      /\ UNCHANGED <<chain, head, oldest, rowId, active, last, startAt, cycle, group, since>>
      /\ Events' = Events
      /\ stored' = stored \cup page.batch /\ globalLedger' = NewLedger
      /\ page'.events = page.events /\ page'.latest = page.latest /\ page'.kids = {}
      /\ page'.batch = page.batch /\ page'.left = group.members
  BY DEF InsertEventBatch, Rows, Events, IInv, TypeOK
<1>2. /\ last \in [Contracts -> Nat] /\ startAt \in [Contracts -> Nat] /\ Factory \in Contracts
      /\ page.events \in SUBSET Events /\ page.batch \in SUBSET Events
      /\ stored \in SUBSET Events /\ stored' \in SUBSET Events
      /\ group.members \in SUBSET Contracts /\ head \in Nat /\ globalLedger \in Nat
      /\ \A c \in Contracts : excused[c] \in Nat /\ excused'[c] \in Nat
  BY <1>1, LocalTypes DEF Contracts, IInv, TypeOK
<1>3. PICK q \in Nat : q = NewLedger /\ 1 <= q /\ q <= head
  BY <1>1, NewLedgerBounds
<1>4. /\ \A c \in Contracts : excused[c] <= excused'[c]
      /\ \A c \in Pointerless \ group.members : q <= excused'[c]
  <2>1. [c \in Contracts |-> NewLedger] \in [Contracts -> Nat]
    BY <1>3
  <2>2. Excuse(Pointerless \ group.members, [c \in Contracts |-> NewLedger])
    BY DEF InsertEventBatch
  <2>3. \A c \in Contracts : /\ excused[c] <= excused'[c]
                             /\ c \in Pointerless \ group.members =>
                                  [d \in Contracts |-> NewLedger][c] <= excused'[c]
    BY <2>1, <2>2, ExcuseGrows DEF IInv
  <2>4. QED
    BY <1>3, <2>3 DEF Pointerless
<1>5. Grows
  BY <1>1, <1>2, <1>4 DEF Grows, IInv, TypeOK
<1>6. \A i \in Events : Explained(i) => Explained(i)'
  <2>1. \A i \in Events : Registered(chain[i].contract) /\ Explained(i) => Explained(i)'
    BY <1>5, ExplainedKept
  <2>2. \A i \in Events : ~ Registered(chain[i].contract) => ~ Owed(i)'
    BY <1>1 DEF Owed, Registered
  <2>3. \A i \in Events : ~ Registered(chain[i].contract) => Explained(i)'
    BY <2>2 DEF Explained
  <2>4. QED
    BY <2>1, <2>3
<1>7. \A i \in Events : InBatch(i) => Explained(i)'
  <2>1. \A i \in Events : TailOf(i, page.batch) => TailOf(i, stored')
    BY <1>1, <1>2, TailGrows DEF IInv
  <2>2. \A i \in Events : TailOf(i, page.batch) => TailOf(i, stored)'
    BY <1>1, <2>1 DEF TailOf
  <2>3. QED
    BY <1>1, <2>2 DEF InBatch, Explained
<1>8. \A c \in Contracts : Pointer(c)' = IF last[c] = 0 /\ startAt[c] = 0 THEN q ELSE Pointer(c)
  BY <1>1, <1>2, <1>3 DEF Pointer
<1>9. Registered(Factory) /\ BehindInv /\ BatchInv /\ TodoInv
  BY <1>1 DEF LossInv, RowInv
\* What the new pointer of the factory passes.
<1>10. ASSUME NEW k \in Events, chain[k].contract = Factory, Pointer(Factory) < chain[k].ledger,
              ~ (Pointer(Factory)' < chain[k].ledger), NEW i \in Events, OnFirstPage(i, k),
              chain[i].ledger <= last[chain[i].contract]
       PROVE  Explained(i)'
  <2>1. chain[k].ledger <= q /\ last[Factory] = 0 /\ startAt[Factory] = 0
    BY <1>2, <1>3, <1>8, <1>10, LedgerFacts
  <2>2. CASE Factory \in group.members /\ ~ TailOf(k, page.batch)
    BY <1>1, <1>3, <1>6, <1>7, <1>10, <2>1, <2>2, ReachedSettles
  <2>3. CASE TailOf(k, page.batch) \/ Factory \notin group.members
    <3>1. TailOf(k, stored)' \/ chain'[k].ledger <= excused'[Factory]
      <4>1. CASE TailOf(k, page.batch)
        <5>1. TailOf(k, stored')
          BY <1>1, <1>2, <4>1, TailGrows DEF IInv
        <5>2. QED
          BY <1>1, <5>1 DEF TailOf
      <4>2. CASE Factory \notin group.members
        <5>1. Factory \in Pointerless \ group.members
          BY <1>2, <1>9, <2>1, <4>2 DEF Pointerless
        <5>2. QED
          BY <1>1, <1>2, <1>3, <1>4, <2>1, <5>1, LedgerFacts
      <4>3. QED
        BY <2>3, <4>1, <4>2
    <3>2. chain'[k].child = chain'[i].contract /\ k \in Events'
      BY <1>1, <1>10 DEF OnFirstPage
    <3>3. Cut(chain[i].contract)'
      BY <3>1, <3>2 DEF Cut, TailOf
    <3>4. QED
      BY <3>3 DEF Explained
  <2>4. QED
    BY <2>2, <2>3
<1>11. ASSUME NEW i \in Events, Accounted(i) PROVE Accounted(i)'
  <2>1. CASE Explained(i)
    BY <1>6, <2>1 DEF Accounted
  <2>2. CASE Refetched(i) /\ chain[i].ledger <= last[chain[i].contract]
    <3>1. PICK k \in Events : OnFirstPage(i, k) /\ chain[k].ledger > Pointer(Factory)
      BY <2>2 DEF Refetched
    <3>2. chain[k].contract = Factory
      BY <3>1, AnnouncedByFactory
    <3>3. Pointer(Factory) \in Nat /\ Pointer(Factory)' \in Nat /\ chain[k].ledger \in Nat
      BY <1>2, <1>3, <1>8, PointerNat, LedgerFacts DEF IInv
    <3>4. CASE Pointer(Factory)' < chain[k].ledger
      <4>1. OnFirstPage(i, k)' /\ k \in Events' /\ chain'[k].ledger > Pointer(Factory)'
        BY <1>1, <3>1, <3>3, <3>4, SameChain
      <4>2. Refetched(i)'
        BY <4>1 DEF Refetched
      <4>3. QED
        BY <1>1, <2>2, <4>2 DEF Accounted
    <3>5. CASE ~ (Pointer(Factory)' < chain[k].ledger)
      <4>1. Pointer(Factory) < chain[k].ledger
        BY <3>1, <3>3
      <4>2. Explained(i)'
        BY <1>10, <2>2, <3>1, <3>2, <3>5, <4>1
      <4>3. QED
        BY <4>2 DEF Accounted
    <3>6. QED
      BY <3>4, <3>5
  <2>3. QED
    BY <1>11, <2>1, <2>2 DEF Accounted
<1>12. \A k \in Events : Settled(k) => Settled(k)'
  BY <1>1, <1>5, SettledKept
<1>13. BoundInv'
  BY <1>1, <1>3 DEF LossInv, BoundInv
<1>14. RowInv'
  BY <1>1 DEF LossInv, RowInv, Registered
<1>15. AnnounceInv'
  BY <1>1 DEF LossInv, AnnounceInv
<1>16. PointerInv'
  <2>1. SUFFICES ASSUME NEW i \in Events, NEW e \in Contracts, e = chain[i].contract,
                        chain[i].ledger <= Pointer(e)'
                 PROVE  Accounted(i)'
    BY <1>1, LedgerFacts DEF PointerInv, Pointer
  <2>2. CASE ~ (last[e] = 0 /\ startAt[e] = 0)
    <3>1. Accounted(i)
      BY <1>8, <2>1, <2>2 DEF LossInv, PointerInv
    <3>2. QED
      BY <1>11, <3>1
  <2>3. CASE last[e] = 0 /\ startAt[e] = 0
    <3>1. chain[i].ledger <= q
      BY <1>8, <2>1, <2>3
    <3>2. CASE e \in group.members
      <4>1. Behind(i) \/ InBatch(i)
        BY <1>1, <1>3, <1>9, <2>1, <3>1, <3>2, PageCovers DEF InBatch, BatchInv
      <4>2. Behind(i) => Accounted(i)
        BY <1>1, <1>9 DEF BehindInv, Polling
      <4>3. QED
        BY <1>7, <1>11, <4>1, <4>2 DEF Accounted
    <3>3. CASE ~ Registered(e)
      <4>1. ~ Owed(i)'
        BY <1>1, <2>1, <3>3 DEF Owed, Registered
      <4>2. QED
        BY <4>1 DEF Accounted, Explained
    <3>4. CASE Registered(e) /\ e \notin group.members
      <4>1. e \in Pointerless \ group.members
        BY <2>3, <3>4 DEF Pointerless
      <4>2. chain'[i].ledger <= excused'[chain'[i].contract]
        BY <1>1, <1>2, <1>4, <2>1, <3>1, <4>1, LedgerFacts
      <4>3. QED
        BY <4>2 DEF Accounted, Explained
    <3>5. QED
      BY <3>2, <3>3, <3>4
  <2>4. QED
    BY <2>2, <2>3
<1>17. TodoInv'
  <2>1. Polling /\ Polling'
    BY <1>1 DEF Polling
  <2>2. ASSUME NEW g \in cycle.todo, Factory \in g.members
        PROVE  Pointer(Factory)' <= g.pointer \/ Pointer(Factory)' <= excused'[Factory]
    <3>1. Factory \notin group.members /\ g.pointer \in Nat
          /\ (Pointer(Factory) <= g.pointer \/ Pointer(Factory) <= excused[Factory])
      BY <1>9, <2>1, <2>2, LocalTypes DEF TodoInv, IInv
    <3>2. Pointer(Factory) \in Nat
      BY <1>2, PointerNat DEF IInv
    <3>3. CASE last[Factory] = 0 /\ startAt[Factory] = 0
      BY <1>2, <1>3, <1>4, <1>8, <1>9, <3>1, <3>3 DEF Pointerless
    <3>4. CASE ~ (last[Factory] = 0 /\ startAt[Factory] = 0)
      <4>1. Pointer(Factory)' = Pointer(Factory)
        BY <1>2, <1>8, <3>4
      <4>2. excused[Factory] <= excused'[Factory] /\ excused[Factory] \in Nat
            /\ excused'[Factory] \in Nat
        BY <1>2, <1>4
      <4>3. QED
        BY <3>1, <3>2, <4>1, <4>2
    <3>5. QED
      BY <3>3, <3>4
  <2>3. \A g \in cycle.todo :
          /\ g.pointer < cycle.current
          /\ \A c \in g.members : rowId[c] # 0
          /\ \A i \in Events : chain[i].contract \in g.members /\ chain[i].ledger <= g.pointer =>
               Accounted(i)' /\ Settled(i)'
          /\ g.members \cap group.members = {}
    BY <1>9, <1>11, <1>12, <2>1 DEF TodoInv, Registered
  <2>4. \A g, h \in cycle.todo : g # h => g.members \cap h.members = {}
    BY <1>9 DEF TodoInv
  <2>5. QED
    BY <1>1, <2>2, <2>3, <2>4 DEF TodoInv, Registered
<1>18. \A i \in Events : Behind(i)' <=> Behind(i)
  BY <1>1 DEF Behind
<1>19. BehindInv'
  <2>1. Polling /\ Polling'
    BY <1>1 DEF Polling
  <2>2. /\ cycle.current > 0 /\ 1 <= group.start /\ group.start <= head
        /\ \A c \in group.members : rowId[c] # 0
        /\ \A i \in Events : Behind(i) => Accounted(i) /\ Settled(i)
    BY <1>9, <2>1 DEF BehindInv, Registered
  <2>3. ASSUME group.cursor # 0
        PROVE  /\ group.cursor \in stored'
               /\ Cardinality({j \in stored' : j <= group.cursor}) >= PageLimit
    <3>1. group.cursor \in stored /\ Cardinality({j \in stored : j <= group.cursor}) >= PageLimit
      BY <1>9, <2>1, <2>3 DEF BehindInv
    <3>2. stored \subseteq stored'
      BY <1>1
    <3>3. QED
      BY <1>2, <3>1, <3>2, CursorKept DEF IInv
  <2>4. QED
    BY <1>1, <1>11, <1>12, <1>18, <2>2, <2>3 DEF BehindInv, Registered
<1>20. BatchInv'
  <2>1. IsLastPage' = IsLastPage /\ NewLedger' = NewLedger
    BY <1>1 DEF IsLastPage, NewLedger, LastLedgerOf
  <2>2. ASSUME NEW k \in page.events, NEW i \in Events, OnFirstPage(i, k)',
               chain[i].ledger <= last[chain[i].contract]
        PROVE  Explained(i)'
    <3>1. OnFirstPage(i, k) /\ k \in Events
      BY <1>1, <1>2, <2>2, SameChain
    <3>2. Explained(i) \/ InBatch(i)
      BY <1>1, <1>9, <2>2, <3>1 DEF BatchInv
    <3>3. QED
      BY <1>6, <1>7, <3>2
  <2>3. /\ group.start <= page.latest /\ page.latest <= head
        /\ group.cursor # 0 => chain[group.cursor].ledger <= page.latest
        /\ page.events \subseteq page.batch
    BY <1>1, <1>9 DEF BatchInv
  <2>4. \A i \in page.events : chain[i].contract \in group.members /\ ~ Behind(i)'
    BY <1>1, <1>2, <1>9, <1>18 DEF BatchInv
  <2>5. \A i \in Events :
          chain[i].contract \in group.members /\ ~ Behind(i)' /\ chain[i].ledger <= NewLedger =>
            i \in page.events \/ (~ IsLastPage /\ \A j \in page.events : j < i)
    BY <1>1, <1>9, <1>18 DEF BatchInv
  <2>6. QED
    BY <1>1, <2>1, <2>2, <2>3, <2>4, <2>5 DEF BatchInv
<1>21. QED
  BY <1>13, <1>14, <1>15, <1>16, <1>17, <1>19, <1>20 DEF LossInv

\* Behind a commit the pointers of the group follow, one by one: up to the new ledger
\* everything is stored, cut off or settled.
LEMMA UpdateStep ==
  ASSUME IInv, IInv', LossInv, NEW c \in page.left, UpdateContractPointer(c)
  PROVE  LossInv'
<1> USE DEF chainVars, dbVars, pollVars, histVars
<1>1. /\ pc = "advance"
      /\ UNCHANGED <<chain, head, oldest, stored, globalLedger, rowId, active, startAt, cycle,
                     since, excused>>
      /\ Events' = Events
      /\ last' = [last EXCEPT ![c] = NewLedger]
  BY DEF UpdateContractPointer, Events
<1>2. BehindInv /\ BatchInv /\ TodoInv /\ Polling
  BY <1>1 DEF LossInv, Polling
<1>3. /\ page.batch \subseteq stored /\ page.kids = {}
      /\ page.left \subseteq group.members
      /\ \A d \in group.members \ page.left : last[d] = NewLedger
      /\ page.events \subseteq page.batch
  BY <1>1, <1>2 DEF BatchInv
<1>4. /\ last \in [Contracts -> Nat] /\ Factory \in Contracts
      /\ page.events \in SUBSET Events /\ page.batch \in SUBSET Events
      /\ stored \in SUBSET Events /\ group.members \in SUBSET Contracts /\ head \in Nat
      /\ c \in group.members /\ c \in Contracts
  BY <1>3, LocalTypes DEF Contracts, IInv, TypeOK
<1>5. PICK q \in Nat : q = NewLedger /\ 1 <= q /\ q <= head
  BY <1>1, NewLedgerBounds
<1>6. /\ last'[c] = q /\ Pointer(c)' = q
      /\ \A d \in Contracts : d # c => last'[d] = last[d] /\ Pointer(d)' = Pointer(d)
  BY <1>1, <1>4, <1>5 DEF Pointer
<1>7. Grows
  BY <1>1, <1>4 DEF Grows, IInv, TypeOK
<1>8. \A i \in Events : Explained(i) => Explained(i)'
  <2>1. \A i \in Events : Registered(chain[i].contract) /\ Explained(i) => Explained(i)'
    BY <1>7, ExplainedKept
  <2>2. \A i \in Events : ~ Registered(chain[i].contract) => ~ Owed(i)'
    BY <1>1 DEF Owed, Registered
  <2>3. \A i \in Events : ~ Registered(chain[i].contract) => Explained(i)'
    BY <2>2 DEF Explained
  <2>4. QED
    BY <2>1, <2>3
<1>9. \A i \in Events : TailOf(i, page.batch) => TailOf(i, stored)
  BY <1>3, <1>4, TailGrows DEF IInv
<1>10. \A i \in Events : InBatch(i) => Explained(i)
  BY <1>3, <1>9 DEF InBatch, Explained
<1>11. ASSUME NEW i \in Events, chain[i].contract \in group.members, chain[i].ledger <= q
       PROVE  Behind(i) \/ Explained(i)
  BY <1>1, <1>3, <1>5, <1>10, <1>11, PageCovers DEF InBatch
<1>12. ASSUME NEW k \in Events, chain[k].contract \in group.members, chain[k].ledger <= q
       PROVE  Settled(k)
  <2>1. SUFFICES ASSUME NEW i \in Events, OnFirstPage(i, k),
                        chain[i].ledger <= last[chain[i].contract]
                 PROVE  Explained(i)
    BY DEF Settled
  <2>2. CASE TailOf(k, page.batch)
    <3>1. TailOf(k, stored) /\ chain[k].child = chain[i].contract
      BY <1>9, <2>1, <2>2 DEF OnFirstPage
    <3>2. QED
      BY <3>1 DEF Explained, Cut
  <2>3. CASE ~ TailOf(k, page.batch)
    BY <1>1, <1>3, <1>5, <1>10, <1>12, <2>1, <2>3, ReachedSettles
  <2>4. QED
    BY <2>2, <2>3
<1>13. ASSUME NEW i \in Events, Accounted(i), chain[i].contract = c => chain[i].ledger <= q
       PROVE  Accounted(i)'
  <2>1. CASE Explained(i)
    BY <1>8, <2>1 DEF Accounted
  <2>2. CASE Refetched(i) /\ chain[i].ledger <= last[chain[i].contract]
    <3>1. PICK k \in Events : OnFirstPage(i, k) /\ chain[k].ledger > Pointer(Factory)
      BY <2>2 DEF Refetched
    <3>2. chain[k].contract = Factory
      BY <3>1, AnnouncedByFactory
    <3>3. Pointer(Factory)' \in Nat /\ chain[k].ledger \in Nat
      BY <1>4, <1>5, <1>6, PointerNat, LedgerFacts DEF IInv
    <3>4. chain'[i].ledger <= last'[chain'[i].contract]
      BY <1>1, <1>6, <1>13, <2>2, LedgerFacts
    <3>5. CASE chain[k].ledger > Pointer(Factory)'
      <4>1. OnFirstPage(i, k)' /\ k \in Events' /\ chain'[k].ledger > Pointer(Factory)'
        BY <1>1, <3>1, <3>5, SameChain
      <4>2. Refetched(i)'
        BY <4>1 DEF Refetched
      <4>3. QED
        BY <3>4, <4>2 DEF Accounted
    <3>6. CASE ~ (chain[k].ledger > Pointer(Factory)')
      <4>1. c = Factory
        BY <1>4, <1>6, <3>1, <3>6
      <4>2. chain[k].ledger <= q
        BY <1>6, <3>3, <3>6, <4>1
      <4>3. Settled(k)
        BY <1>4, <1>12, <3>2, <4>1, <4>2
      <4>4. Explained(i)
        BY <2>2, <3>1, <4>3 DEF Settled
      <4>5. QED
        BY <1>8, <4>4 DEF Accounted
    <3>7. QED
      BY <3>5, <3>6
  <2>3. QED
    BY <1>13, <2>1, <2>2 DEF Accounted
<1>14. ASSUME NEW k \in Events, NEW i \in Events, OnFirstPage(i, k),
              chain[i].ledger <= last'[chain[i].contract],
              chain[i].ledger <= last[chain[i].contract] => Explained(i)
       PROVE  Explained(i)
  <2>1. CASE chain[i].contract = c
    <3>1. Behind(i) \/ Explained(i)
      BY <1>4, <1>6, <1>11, <1>14, <2>1
    <3>2. Behind(i) => Accounted(i)
      BY <1>2 DEF BehindInv
    <3>3. QED
      BY <1>14, <3>1, <3>2 DEF Accounted
  <2>2. CASE chain[i].contract # c
    BY <1>6, <1>14, <2>2, LedgerFacts
  <2>3. QED
    BY <2>1, <2>2
<1>15. ASSUME NEW k \in Events, Settled(k) PROVE Settled(k)'
  <2>1. SUFFICES ASSUME NEW i \in Events, OnFirstPage(i, k),
                        chain[i].ledger <= last'[chain[i].contract]
                 PROVE  Explained(i)'
    BY <1>1, SameChain DEF Settled
  <2>2. Explained(i)
    BY <1>14, <1>15, <2>1 DEF Settled
  <2>3. QED
    BY <1>8, <2>2
<1>16. BoundInv'
  BY <1>1, <1>5, <1>6 DEF LossInv, BoundInv
<1>17. RowInv'
  <2>1. Registered(c) /\ RowInv
    BY <1>2, <1>4 DEF LossInv, BehindInv
  <2>2. pc' # "child" /\ rowId' = rowId /\ Registered(Factory)
    BY <1>1, <2>1 DEF UpdateContractPointer, RowInv
  <2>3. QED
    BY <1>1, <1>6, <2>1, <2>2 DEF RowInv, Registered
<1>18. AnnounceInv'
  BY <1>1 DEF LossInv, AnnounceInv
<1>19. PointerInv'
  <2>1. SUFFICES ASSUME NEW i \in Events, NEW e \in Contracts, e = chain[i].contract,
                        chain[i].ledger <= Pointer(e)'
                 PROVE  Accounted(i)'
    BY <1>1, LedgerFacts DEF PointerInv, Pointer
  <2>2. CASE e = c
    <3>1. chain[i].ledger <= q
      BY <1>6, <2>1, <2>2
    <3>2. Behind(i) \/ Explained(i)
      BY <1>4, <1>11, <2>1, <2>2, <3>1
    <3>3. Accounted(i)
      BY <1>2, <3>2 DEF BehindInv, Accounted
    <3>4. QED
      BY <1>13, <3>1, <3>3
  <2>3. CASE e # c
    <3>1. Accounted(i)
      BY <1>6, <2>1, <2>3 DEF LossInv, PointerInv
    <3>2. QED
      BY <1>13, <2>1, <2>3, <3>1
  <2>4. QED
    BY <2>2, <2>3
\* The rest depends on where the loop goes on.
<1>20. /\ \A g \in cycle.todo :
            /\ g.pointer < cycle.current
            /\ \A d \in g.members : rowId[d] # 0
            /\ \A i \in Events : chain[i].contract \in g.members /\ chain[i].ledger <= g.pointer =>
                 Accounted(i)' /\ Settled(i)'
            /\ Factory \in g.members =>
                 Pointer(Factory)' <= g.pointer \/ Pointer(Factory)' <= excused[Factory]
            /\ g.members \cap group.members = {}
       /\ \A g, h \in cycle.todo : g # h => g.members \cap h.members = {}
  <2>1. \A g \in cycle.todo : g.members \cap group.members = {}
    BY <1>2 DEF TodoInv
  <2>2. \A g \in cycle.todo : Factory \in g.members => Pointer(Factory)' = Pointer(Factory)
    BY <1>4, <1>6, <2>1
  <2>3. QED
    BY <1>2, <1>4, <1>13, <1>15, <2>1, <2>2 DEF TodoInv, Registered
<1>21. ASSUME Polling' => group'.members = group.members PROVE TodoInv'
  BY <1>1, <1>20, <1>21 DEF TodoInv, Registered
<1>22. /\ cycle.current > 0 /\ 1 <= group.start /\ group.start <= head
       /\ \A d \in group.members : rowId[d] # 0
       /\ group.cursor # 0 => /\ group.cursor \in stored
                              /\ Cardinality({j \in stored : j <= group.cursor}) >= PageLimit
  BY <1>2 DEF BehindInv, Registered
<1>23. \A i \in Events : Behind(i) => Accounted(i)' /\ Settled(i)'
  <2>1. \A i \in Events : Behind(i) => Accounted(i) /\ Settled(i) /\ chain[i].ledger <= q
    BY <1>1, <1>2, <1>5, NewLedgerBounds DEF BehindInv
  <2>2. QED
    BY <1>13, <1>15, <2>1
<1>24. CASE page.left # {c}
  <2>1. /\ pc' = "advance" /\ group' = group
        /\ page'.events = page.events /\ page'.latest = page.latest /\ page'.kids = page.kids
        /\ page'.batch = page.batch /\ page'.left = page.left \ {c}
    <3>1. pc' = pc /\ group' = group /\ page' = [page EXCEPT !.left = @ \ {c}]
      BY <1>24 DEF UpdateContractPointer
    <3>2. page \in PageRecord
      BY DEF IInv, TypeOK
    <3>3. QED
      BY <1>1, <3>1, <3>2
  <2>2. \A i \in Events : Behind(i)' <=> Behind(i)
    BY <1>1, <2>1 DEF Behind
  <2>3. TodoInv'
    BY <1>21, <2>1
  <2>4. BehindInv'
    BY <1>1, <1>22, <1>23, <2>1, <2>2 DEF BehindInv, Registered
  <2>5. BatchInv'
    <3>1. IsLastPage' = IsLastPage /\ NewLedger' = NewLedger
      BY <1>1, <2>1 DEF IsLastPage, NewLedger, LastLedgerOf
    <3>2. ASSUME NEW k \in page.events, NEW i \in Events, OnFirstPage(i, k)',
                 chain[i].ledger <= last'[chain[i].contract]
          PROVE  Explained(i)'
      <4>1. OnFirstPage(i, k) /\ k \in Events
        BY <1>1, <1>4, <3>2, SameChain
      <4>2. chain[i].ledger <= last[chain[i].contract] => Explained(i)
        BY <1>1, <1>2, <1>3, <1>10, <3>2, <4>1 DEF BatchInv
      <4>3. Explained(i)
        BY <1>14, <3>2, <4>1, <4>2
      <4>4. QED
        BY <1>8, <4>3
    <3>3. /\ group.start <= page.latest /\ page.latest <= head
          /\ group.cursor # 0 => chain[group.cursor].ledger <= page.latest
      BY <1>1, <1>2 DEF BatchInv
    <3>4. \A i \in page.events : chain[i].contract \in group.members /\ ~ Behind(i)'
      BY <1>1, <1>2, <1>4, <2>2 DEF BatchInv
    <3>5. \A i \in Events :
            chain[i].contract \in group.members /\ ~ Behind(i)' /\ chain[i].ledger <= NewLedger =>
              i \in page.events \/ (~ IsLastPage /\ \A j \in page.events : j < i)
      BY <1>1, <1>2, <2>2 DEF BatchInv
    <3>6. \A d \in group.members \ page'.left : last'[d] = NewLedger
      BY <1>3, <1>4, <1>5, <1>6, <2>1
    <3>7. QED
      BY <1>1, <1>3, <2>1, <3>1, <3>2, <3>3, <3>4, <3>5, <3>6 DEF BatchInv
  <2>6. QED
    BY <1>16, <1>17, <1>18, <1>19, <2>3, <2>4, <2>5 DEF LossInv
<1>25. CASE page.left = {c} /\ (IsLastPage \/ group.pages + 1 = MaxPages)
  <2>1. pc' = "groups"
    BY <1>25 DEF UpdateContractPointer
  <2>2. TodoInv' /\ BehindInv' /\ BatchInv'
    BY <1>21, <2>1 DEF BehindInv, BatchInv, Polling
  <2>3. QED
    BY <1>16, <1>17, <1>18, <1>19, <2>2 DEF LossInv
<1>26. CASE page.left = {c} /\ ~ (IsLastPage \/ group.pages + 1 = MaxPages)
  <2>1. PICK m \in page.events : m = Max(page.events) /\ \A j \in page.events : j <= m
    <3>1. page.events # {}
      BY <1>1, <1>26, NewLedgerBounds
    <3>2. QED
      BY <1>4, <3>1, MaxOfEvents DEF IInv
  <2>2. pc' = "fetch" /\ group'.members = group.members /\ group'.start = group.start
        /\ group'.cursor = m
    <3>1. pc' = "fetch" /\ group' = [group EXCEPT !.cursor = Max(page.events), !.pages = @ + 1]
      BY <1>26 DEF UpdateContractPointer
    <3>2. group \in GroupRecord
      BY DEF IInv, TypeOK
    <3>3. QED
      BY <2>1, <3>1, <3>2
  <2>3. m \in Events /\ m \in stored /\ m # 0 /\ chain[m].ledger <= q
        /\ \E j \in page.events : chain[j].ledger = q
    BY <1>1, <1>3, <1>4, <1>5, <1>26, <2>1, NewLedgerBounds, ChainFacts DEF IInv
  <2>4. chain[m].ledger = q
    <3>1. PICK j \in page.events : chain[j].ledger = q
      BY <2>3
    <3>2. q <= chain[m].ledger
      BY <1>4, <2>1, <2>3, <3>1, LedgerFacts
    <3>3. QED
      BY <1>5, <2>3, <3>2, LedgerFacts
  <2>5. TodoInv'
    BY <1>21, <2>2
  <2>6. BatchInv'
    BY <2>2 DEF BatchInv
  <2>7. ASSUME NEW i \in Events, Behind(i)' PROVE Accounted(i)' /\ Settled(i)'
    <3>1. chain[i].contract \in group.members /\ i <= m
      BY <1>1, <2>2, <2>3, <2>7 DEF Behind
    <3>2. chain[i].ledger <= q
      BY <2>3, <2>4, <3>1, LedgerFacts
    <3>3. Behind(i) \/ Explained(i)
      BY <1>11, <3>1, <3>2
    <3>4. Accounted(i)'
      BY <1>8, <1>23, <3>3 DEF Accounted
    <3>5. Settled(i)'
      BY <1>12, <1>15, <3>1, <3>2
    <3>6. QED
      BY <3>4, <3>5
  <2>8. Cardinality({j \in stored : j <= m}) >= PageLimit
    <3> DEFINE d == {j \in stored : j <= m}
    <3>1. page.events \subseteq d /\ d \in SUBSET Events
      BY <1>3, <1>4, <2>1
    <3>2. ~ (Cardinality(page.events) < PageLimit)
      BY <1>26 DEF IsLastPage
    <3> HIDE DEF d
    <3>3. Cardinality(page.events) <= Cardinality(d) /\ Cardinality(d) \in Nat
          /\ Cardinality(page.events) \in Nat
      BY <1>4, <3>1, EventsFinite, FS_Subset DEF IInv
    <3>4. Cardinality(d) >= PageLimit
      BY <3>2, <3>3, BoundsAssumption
    <3>5. QED
      BY <3>4 DEF d
  <2>9. Factory \in group.members => Pointer(Factory)' <= chain[m].ledger
    <3>1. SUFFICES ASSUME Factory \in group.members, Factory # c PROVE Pointer(Factory)' = q
      BY <1>5, <1>6, <2>4
    <3>2. last[Factory] = q
      BY <1>3, <1>5, <1>26, <3>1
    <3>3. QED
      BY <1>4, <1>5, <1>6, <3>1, <3>2 DEF Pointer
  <2>10. BehindInv'
    BY <1>1, <1>22, <2>2, <2>3, <2>7, <2>8, <2>9 DEF BehindInv, Registered
  <2>11. QED
    BY <1>16, <1>17, <1>18, <1>19, <2>5, <2>6, <2>10 DEF LossInv
<1>27. QED
  BY <1>24, <1>25, <1>26

\* Where the elements of a concatenation come from.
LEMMA ConcatFacts ==
  ASSUME NEW S, NEW a \in Seq(S), NEW b \in Seq(S)
  PROVE  /\ DOMAIN (a \o b) = 1 .. Len(a) + Len(b)
         /\ \A i \in 1 .. Len(a) : (a \o b)[i] = a[i]
         /\ \A i \in Len(a) + 1 .. Len(a) + Len(b) :
              (a \o b)[i] = b[i - Len(a)] /\ i - Len(a) \in 1 .. Len(b)
<1>1. a \o b \in Seq(S) /\ Len(a \o b) = Len(a) + Len(b)
  OBVIOUS
<1>2. DOMAIN (a \o b) = 1 .. Len(a) + Len(b)
  BY <1>1
<1>3. \A i \in 1 .. Len(a) : (a \o b)[i] = a[i]
  OBVIOUS
<1>4. ASSUME NEW i \in Len(a) + 1 .. Len(a) + Len(b)
      PROVE  (a \o b)[i] = b[i - Len(a)] /\ i - Len(a) \in 1 .. Len(b)
  OBVIOUS
<1>5. QED
  BY <1>2, <1>3, <1>4

\* A new ledger lies behind what there was: the announcements of the children stay
\* single and first.
LEMMA CloseLedgerAnnounces ==
  ASSUME IInv, LossInv, CloseLedger
  PROVE  AnnounceInv' /\ \A i \in Events' \ Events : \A j \in Events : j < i
<1>1. PICK n \in 0 .. LedgerLimit : \E s \in [1 .. n -> Payloads] :
        /\ LegalLedger(s)
        /\ chain' = chain \o [i \in 1 .. n |-> [ledger   |-> head + 1,
                                               contract |-> s[i].contract,
                                               child    |-> s[i].child]]
  BY DEF CloseLedger
<1>2. PICK s \in [1 .. n -> Payloads] :
        /\ LegalLedger(s)
        /\ chain' = chain \o [i \in 1 .. n |-> [ledger   |-> head + 1,
                                               contract |-> s[i].contract,
                                               child    |-> s[i].child]]
  BY <1>1
<1> DEFINE new == [i \in 1 .. n |-> [ledger   |-> head + 1,
                                      contract |-> s[i].contract,
                                      child    |-> s[i].child]]
           old == [i \in DOMAIN chain |-> chain[i].child]
           add == [i \in DOMAIN s |-> s[i].child]
           all == old \o add
           Names == Children \cup {NoContract}
<1>3. \A p \in Payloads :
        /\ p.contract \in Contracts /\ p.child \in Names
        /\ p.child \in Children => p.contract = Factory
  BY ContractsAssumption DEF Payloads, Contracts
<1>4. chain \in Seq(EventRecord) /\ head + 1 \in Nat /\ head \in Nat
  BY DEF IInv, TypeOK
<1>5. PICK len \in Nat : len = Len(chain) /\ DOMAIN chain = 1 .. len
  BY <1>4
<1>6. new \in Seq(EventRecord) /\ Len(new) = n
  <2>1. \A i \in 1 .. n : new[i] \in EventRecord
    BY <1>3, <1>4 DEF EventRecord
  <2>2. QED
    BY <2>1
<1>7. \A i \in 1 .. n : /\ new[i].ledger = head + 1 /\ new[i].contract = s[i].contract
                        /\ new[i].child = s[i].child
  OBVIOUS
<1>8. old \in Seq(Names) /\ Len(old) = len /\ \A i \in 1 .. len : old[i] = chain[i].child
  <2>1. \A i \in 1 .. len : chain[i].child \in Names
    BY <1>4, <1>5, ChainFacts DEF IInv, Events
  <2>2. QED
    BY <1>5, <2>1
<1>9. add \in Seq(Names) /\ Len(add) = n /\ \A i \in 1 .. n : add[i] = s[i].child
  <2>1. \A i \in 1 .. n : s[i].child \in Names
    BY <1>3
  <2>2. QED
    BY <2>1
<1>10. /\ \A i, j \in DOMAIN all : all[i] \in Children /\ all[i] = all[j] => i = j
       /\ \A i \in DOMAIN s : s[i].contract \in Children =>
            s[i].contract \in {all[j] : j \in DOMAIN all}
  BY <1>2 DEF LegalLedger
<1>11. chain' = chain \o new
  BY <1>2
<1> HIDE DEF new, old, add, all, Names
<1>12. /\ DOMAIN chain' = 1 .. len + n
       /\ \A i \in 1 .. len : chain'[i] = chain[i]
       /\ \A i \in len + 1 .. len + n : chain'[i] = new[i - len] /\ i - len \in 1 .. n
  <2>1. n \in Nat
    OBVIOUS
  <2>2. /\ DOMAIN (chain \o new) = 1 .. len + n
        /\ \A i \in 1 .. len : (chain \o new)[i] = chain[i]
        /\ \A i \in len + 1 .. len + n : (chain \o new)[i] = new[i - len] /\ i - len \in 1 .. n
    <3>1. Len(chain) = len /\ Len(new) = n
      BY <1>5, <1>6
    <3>2. /\ DOMAIN (chain \o new) = 1 .. Len(chain) + Len(new)
          /\ \A i \in 1 .. Len(chain) : (chain \o new)[i] = chain[i]
          /\ \A i \in Len(chain) + 1 .. Len(chain) + Len(new) :
               (chain \o new)[i] = new[i - Len(chain)] /\ i - Len(chain) \in 1 .. Len(new)
      BY <1>4, <1>6, ConcatFacts
    <3>3. QED
      BY <3>1, <3>2, Zenon
  <2>3. QED
    BY <1>11, <2>2, Zenon
<1>13. /\ DOMAIN all = 1 .. len + n
       /\ \A i \in 1 .. len : all[i] = old[i]
       /\ \A i \in len + 1 .. len + n : all[i] = add[i - len] /\ i - len \in 1 .. n
  <2>1. n \in Nat
    OBVIOUS
  <2>2. /\ DOMAIN (old \o add) = 1 .. len + n
        /\ \A i \in 1 .. len : (old \o add)[i] = old[i]
        /\ \A i \in len + 1 .. len + n : (old \o add)[i] = add[i - len] /\ i - len \in 1 .. n
    <3>1. /\ DOMAIN (old \o add) = 1 .. Len(old) + Len(add)
          /\ \A i \in 1 .. Len(old) : (old \o add)[i] = old[i]
          /\ \A i \in Len(old) + 1 .. Len(old) + Len(add) :
               (old \o add)[i] = add[i - Len(old)] /\ i - Len(old) \in 1 .. Len(add)
      BY <1>8, <1>9, ConcatFacts
    <3>2. QED
      BY <1>8, <1>9, <3>1, Zenon
  <2>3. QED
    BY <2>2, Zenon DEF all
<1>14. \A i \in DOMAIN chain' : i \in DOMAIN all /\ chain'[i].child = all[i]
  <2>1. SUFFICES ASSUME NEW i \in 1 .. len + n PROVE chain'[i].child = all[i]
    BY <1>12, <1>13
  <2>2. CASE i \in 1 .. len
    BY <1>8, <1>12, <1>13, <2>2
  <2>3. CASE i \in len + 1 .. len + n
    BY <1>7, <1>9, <1>12, <1>13, <2>3
  <2>4. QED
    BY <1>5, <2>1, <2>2, <2>3
<1>15. \A k, l \in DOMAIN chain' :
         chain'[k].child \in Children /\ chain'[k].child = chain'[l].child => k = l
  BY <1>10, <1>14
<1>16. ASSUME NEW k \in DOMAIN chain', chain'[k].child \in Children
       PROVE  chain'[k].contract = Factory
  <2>1. CASE k \in 1 .. len
    BY <1>5, <1>12, <1>16, <2>1 DEF LossInv, AnnounceInv, Events
  <2>2. CASE k \in len + 1 .. len + n
    <3>1. s[k - len] \in Payloads
      BY <1>12, <2>2
    <3>2. QED
      BY <1>3, <1>7, <1>12, <1>16, <2>2, <3>1
  <2>3. QED
    BY <1>5, <1>12, <2>1, <2>2
<1>17. ASSUME NEW i \in DOMAIN chain', chain'[i].contract \in Children
       PROVE  \E k \in DOMAIN chain' : /\ chain'[k].child = chain'[i].contract
                                       /\ chain'[k].ledger <= chain'[i].ledger
  <2>1. CASE i \in 1 .. len
    <3>1. PICK k \in 1 .. len : /\ chain[k].child = chain[i].contract
                                /\ chain[k].ledger <= chain[i].ledger
      BY <1>5, <1>12, <1>17, <2>1 DEF LossInv, AnnounceInv, Events
    <3>2. k \in DOMAIN chain'
      BY <1>5, <1>12
    <3>3. QED
      BY <1>12, <2>1, <3>1, <3>2
  <2>2. CASE i \in len + 1 .. len + n
    <3>1. i - len \in DOMAIN s /\ s[i - len].contract = chain'[i].contract
          /\ chain'[i].ledger = head + 1
      BY <1>7, <1>12, <2>2
    <3>2. PICK k \in DOMAIN all : all[k] = chain'[i].contract
      BY <1>10, <1>17, <3>1
    <3>3. k \in DOMAIN chain' /\ chain'[k].child = chain'[i].contract
      BY <1>12, <1>13, <1>14, <3>2
    <3>4. chain'[k].ledger <= head + 1
      <4>1. CASE k \in Events
        BY <1>4, <4>1, CloseLedgerGrows, LedgerFacts
      <4>2. CASE k \notin Events
        BY <1>4, <3>3, <4>2, CloseLedgerGrows DEF Events
      <4>3. QED
        BY <4>1, <4>2
    <3>5. QED
      BY <3>1, <3>3, <3>4
  <2>3. QED
    BY <1>5, <1>12, <2>1, <2>2
<1>18. AnnounceInv'
  BY <1>15, <1>16, <1>17 DEF AnnounceInv, Events
<1>19. \A i \in Events' \ Events : \A j \in Events : j < i
  BY <1>5, <1>12 DEF Events
<1>20. QED
  BY <1>18, <1>19

\* A longer chain changes nothing on a first page in the ledgers it had before.
LEMMA FirstPageStays ==
  ASSUME IInv, LossInv, CloseLedger, NEW i \in Events, NEW k \in Events
  PROVE  OnFirstPage(i, k)' <=> OnFirstPage(i, k)
<1> DEFINE M == {j \in Events : /\ chain[j].contract \in {chain[k].child}
                                /\ chain[j].ledger >= chain[k].ledger}
           W == {j \in Events' : /\ chain'[j].contract \in {chain[k].child}
                                 /\ chain'[j].ledger >= chain[k].ledger}
           below(j) == {x \in M : x < j}
           under(j) == {x \in W : x < j}
<1>1. /\ Events \subseteq Events' /\ \A j \in Events : chain'[j] = chain[j]
      /\ \A j \in Events' \ Events : chain'[j].ledger = head + 1 /\ \A x \in Events : x < j
      /\ \A j \in Events : j \in Nat /\ chain[j].ledger \in Nat /\ chain[j].ledger <= head
      /\ head \in Nat /\ Events' \subseteq Nat
  BY CloseLedgerGrows, CloseLedgerAnnounces, LedgerFacts, ChainFacts DEF Events
<1>2. \A j \in Events : j \in W <=> j \in M
  BY <1>1
<1>3. ASSUME NEW j \in Events PROVE below(j) = under(j)
  <2>1. \A x \in Events' : x < j => x \in Events
    BY <1>1
  <2>2. QED
    BY <1>2, <2>1
<1>4. FirstPage(k) = {j \in M : Cardinality(below(j)) < PageLimit}
  BY DEF FirstPage, FirstN, Matching
<1>5. FirstPage(k)' = {j \in W : Cardinality(under(j)) < PageLimit}
  BY <1>1 DEF FirstPage, FirstN, Matching
<1> HIDE DEF below, under
<1>6. \A j \in Events : j \in FirstPage(k)' <=> j \in FirstPage(k)
  BY <1>2, <1>3, <1>4, <1>5
<1>7. FirstPage(k)' \subseteq Events' /\ FirstPage(k) \subseteq Events
  BY <1>4, <1>5
<1>8. ASSUME NEW j \in FirstPage(k)', chain'[j].ledger = chain[i].ledger
      PROVE  j \in FirstPage(k) /\ chain[j].ledger = chain[i].ledger
  <2>1. j \in Events
    <3>1. j \in Events' /\ chain[i].ledger <= head /\ chain[i].ledger \in Nat /\ head \in Nat
      BY <1>1, <1>7
    <3>2. j \notin Events => chain'[j].ledger = head + 1
      BY <1>1, <3>1
    <3>3. QED
      BY <1>8, <3>1, <3>2
  <2>2. QED
    BY <1>1, <1>6, <1>8, <2>1
<1> HIDE DEF M, W
<1>9. /\ chain'[i] = chain[i] /\ chain'[k] = chain[k]
      /\ \A j \in FirstPage(k) : j \in FirstPage(k)' /\ chain'[j] = chain[j]
  BY <1>1, <1>6, <1>7
<1>10. OnFirstPage(i, k)' <=> /\ chain'[i].contract = chain'[k].child
                             /\ \E j \in FirstPage(k)' : chain'[j].ledger = chain'[i].ledger
  BY DEF OnFirstPage
<1>11. QED
  BY <1>8, <1>9, <1>10 DEF OnFirstPage

\* A new ledger is beyond every pointer, page and group, but for contracts that start
\* there.
LEMMA CloseStep == ASSUME IInv, IInv', LossInv, CloseLedger PROVE LossInv'
<1> USE DEF chainVars, dbVars, pollVars, histVars
<1>1. /\ UNCHANGED <<oldest, stored, globalLedger, rowId, active, last, startAt, pc, cycle,
                     group, page, since, excused>>
      /\ head' = head + 1
  BY DEF CloseLedger
<1>2. /\ Events \subseteq Events' /\ \A j \in Events : chain'[j] = chain[j]
      /\ \A j \in Events' \ Events : chain'[j].ledger = head + 1 /\ \A x \in Events : x < j
      /\ \A j \in Events : /\ j \in Nat /\ chain[j].ledger \in Nat /\ chain[j].ledger <= head
                           /\ chain[j].contract \in Contracts
      /\ \A j \in Events' : j \in Nat /\ chain'[j].contract \in Contracts
      /\ head \in Nat
  <2>1. chain' \in Seq(EventRecord)
    BY CloseLedgerGrows
  <2>2. \A j \in Events' : j \in Nat /\ chain'[j] \in EventRecord
    BY <2>1 DEF Events
  <2>3. \A r \in EventRecord : r.contract \in Contracts
    BY DEF EventRecord
  <2>4. \A j \in Events' : j \in Nat /\ chain'[j].contract \in Contracts
    BY <2>2, <2>3
  <2>5. QED
    BY <2>4, CloseLedgerGrows, CloseLedgerAnnounces, LedgerFacts
<1>3. /\ last \in [Contracts -> Nat] /\ startAt \in [Contracts -> Nat] /\ Factory \in Contracts
      /\ globalLedger \in Nat /\ since \in [Contracts -> Nat] /\ oldest \in Nat
      /\ page.events \in SUBSET Events /\ page.batch \in SUBSET Events
      /\ page.kids \in SUBSET Events
      /\ stored \in SUBSET Events /\ group.members \in SUBSET Contracts
      /\ group.start \in Nat /\ group.cursor \in Nat /\ page.latest \in Nat
      /\ cycle.current \in Nat
  BY LocalTypes DEF Contracts, IInv, TypeOK
<1>4. /\ \A c \in Contracts : last[c] <= head
      /\ globalLedger <= head /\ cycle.current <= head
      /\ \A c \in Contracts : startAt[c] > 0 => since[c] = startAt[c] - 1
      /\ 1 <= oldest /\ (oldest = 1 \/ oldest <= head)
  BY DEF LossInv, BoundInv
<1>5. /\ \A c \in Contracts : Pointer(c)' = Pointer(c)
      /\ \A c \in Contracts : Pointer(c) \in Nat
  BY <1>1, PointerNat DEF Pointer, IInv
<1>6. \A i, k \in Events : OnFirstPage(i, k)' <=> OnFirstPage(i, k)
  BY FirstPageStays
<1>7. \A S \in SUBSET Events : \A i \in Events : TailOf(i, S) <=>
        LET before == {j \in S : j < i} IN
        /\ Cardinality(before) >= PageLimit
        /\ \E j \in before : chain'[j].ledger = chain'[i].ledger
  BY <1>2 DEF TailOf
<1>8. \A i \in Events : TailOf(i, stored)' <=> TailOf(i, stored)
  BY <1>1, <1>3, <1>7 DEF TailOf
<1>9. \A i \in Events : InBatch(i)' <=> InBatch(i)
  BY <1>1, <1>3, <1>7 DEF InBatch, TailOf
<1>10. ASSUME NEW i \in Events, Explained(i) PROVE Explained(i)'
  <2>1. Owed(i)' <=> Owed(i)
    BY <1>1, <1>2 DEF Owed, Registered
  <2>2. ASSUME Cut(chain[i].contract) PROVE Cut(chain[i].contract)'
    <3>1. PICK k \in Events : /\ chain[k].child = chain[i].contract
                              /\ TailOf(k, stored) \/ chain[k].ledger <= excused[Factory]
      BY <2>2 DEF Cut
    <3>2. k \in Events' /\ chain'[k].child = chain'[i].contract
      BY <1>2, <3>1
    <3>3. TailOf(k, stored)' \/ chain'[k].ledger <= excused'[Factory]
      BY <1>1, <1>2, <1>8, <3>1
    <3>4. QED
      BY <3>2, <3>3 DEF Cut, TailOf
  <2>3. QED
    BY <1>1, <1>2, <1>8, <1>10, <2>1, <2>2 DEF Explained
<1>11. ASSUME NEW i \in Events, Accounted(i) PROVE Accounted(i)'
  <2>1. ASSUME Refetched(i) PROVE Refetched(i)'
    <3>1. PICK k \in Events : OnFirstPage(i, k) /\ chain[k].ledger > Pointer(Factory)
      BY <2>1 DEF Refetched
    <3>2. k \in Events' /\ OnFirstPage(i, k)' /\ chain'[k].ledger > Pointer(Factory)'
      BY <1>2, <1>3, <1>5, <1>6, <3>1
    <3>3. QED
      BY <3>2 DEF Refetched
  <2>2. QED
    BY <1>1, <1>2, <1>10, <1>11, <2>1 DEF Accounted
<1>12. ASSUME NEW i \in Events', chain'[i].ledger <= last[chain'[i].contract]
       PROVE  i \in Events
  BY <1>2, <1>3, <1>4, <1>12
<1>13. ASSUME NEW k \in Events, Settled(k) PROVE Settled(k)'
  <2>1. SUFFICES ASSUME NEW i \in Events', OnFirstPage(i, k)',
                        chain'[i].ledger <= last'[chain'[i].contract]
                 PROVE  Explained(i)'
    BY DEF Settled
  <2>2. i \in Events
    BY <1>1, <1>12, <2>1
  <2>3. Explained(i)
    BY <1>1, <1>2, <1>6, <1>13, <2>1, <2>2 DEF Settled
  <2>4. QED
    BY <1>10, <2>2, <2>3
<1>14. BoundInv'
  BY <1>1, <1>2, <1>3, <1>4 DEF BoundInv
<1>15. RowInv'
  <2>1. ASSUME pc = "child" PROVE chain'[Min(page.kids)] = chain[Min(page.kids)]
    BY <1>2, <2>1, KidFacts DEF IInv, PageInv
  <2>2. QED
    BY <1>1, <2>1 DEF LossInv, RowInv, Registered
<1>16. AnnounceInv'
  BY CloseLedgerAnnounces
<1>17. PointerInv'
  <2>1. SUFFICES ASSUME NEW i \in Events', NEW e \in Contracts, e = chain'[i].contract,
                        chain'[i].ledger <= Pointer(e)'
                 PROVE  Accounted(i)'
    BY <1>2 DEF PointerInv, Pointer
  <2>2. CASE i \in Events
    <3>1. chain[i].ledger <= Pointer(chain[i].contract)
      BY <1>2, <1>5, <2>1, <2>2
    <3>2. Accounted(i)
      BY <2>2, <3>1 DEF LossInv, PointerInv
    <3>3. QED
      BY <1>11, <2>2, <3>2
  <2>3. CASE i \notin Events
    <3>1. head + 1 <= Pointer(e) /\ chain'[i].ledger = head + 1
      BY <1>2, <1>5, <2>1, <2>3
    <3>2. startAt[e] > 0 /\ Pointer(e) = startAt[e] - 1
      BY <1>2, <1>3, <1>4, <3>1 DEF Pointer
    <3>3. chain'[i].ledger <= since'[chain'[i].contract]
      BY <1>1, <1>4, <2>1, <3>1, <3>2
    <3>4. since'[chain'[i].contract] \in Nat
      BY <1>1, <1>3, <2>1
    <3>5. ~ Owed(i)'
      BY <1>2, <3>1, <3>3, <3>4 DEF Owed
    <3>6. QED
      BY <3>5 DEF Accounted, Explained
  <2>4. QED
    BY <2>2, <2>3
<1>18. TodoInv'
  <2>1. TodoInv
    BY DEF LossInv
  <2>2. ASSUME NEW g \in cycle.todo, NEW i \in Events', chain'[i].contract \in g.members,
               chain'[i].ledger <= g.pointer
        PROVE  Accounted(i)' /\ Settled(i)'
    <3>1. g.pointer < cycle.current /\ g.pointer \in Nat
      BY <2>1, LocalTypes DEF TodoInv, IInv
    <3>2. i \in Events
      BY <1>2, <1>3, <1>4, <2>2, <3>1
    <3>3. Accounted(i) /\ Settled(i)
      BY <1>2, <2>1, <2>2, <3>2 DEF TodoInv
    <3>4. QED
      BY <1>11, <1>13, <3>2, <3>3
  <2>3. \A g \in cycle.todo :
          /\ g.pointer < cycle.current
          /\ \A c \in g.members : rowId[c] # 0
          /\ Factory \in g.members =>
               Pointer(Factory)' <= g.pointer \/ Pointer(Factory)' <= excused[Factory]
          /\ Polling => g.members \cap group.members = {}
    BY <1>3, <1>5, <2>1 DEF TodoInv, Registered
  <2>4. \A g, h \in cycle.todo : g # h => g.members \cap h.members = {}
    BY <2>1 DEF TodoInv
  <2>5. Polling' <=> Polling
    BY <1>1 DEF Polling
  <2>6. QED
    BY <1>1, <2>2, <2>3, <2>4, <2>5 DEF TodoInv, Registered
<1>19. ASSUME Polling
       PROVE  /\ \A i \in Events : Behind(i)' <=> Behind(i)
              /\ \A i \in Events' \ Events : ~ Behind(i)'
  <2>1. group.start <= head /\ (group.cursor # 0 => group.cursor \in Events)
    BY <1>19 DEF LossInv, BehindInv, IInv, GroupInv, Polling
  <2>2. \A i \in Events : Behind(i)' <=> Behind(i)
    BY <1>1, <1>2 DEF Behind
  <2>3. \A i \in Events' \ Events : ~ Behind(i)'
    BY <1>1, <1>2, <1>3, <2>1 DEF Behind
  <2>4. QED
    BY <2>2, <2>3
<1>20. BehindInv'
  <2>1. SUFFICES ASSUME Polling PROVE BehindInv'
    BY <1>1 DEF BehindInv, Polling
  <2>2. BehindInv
    BY DEF LossInv
  <2>3. \A i \in Events' : Behind(i)' => Accounted(i)' /\ Settled(i)'
    <3>1. \A i \in Events : Behind(i) => Accounted(i) /\ Settled(i)
      BY <2>1, <2>2 DEF BehindInv
    <3>2. QED
      BY <1>11, <1>13, <1>19, <2>1, <3>1
  <2>4. /\ cycle.current > 0 /\ 1 <= group.start /\ group.start <= head'
        /\ \A c \in group.members : rowId[c] # 0
        /\ group.cursor # 0 => /\ group.cursor \in stored
                               /\ Cardinality({j \in stored : j <= group.cursor}) >= PageLimit
    BY <1>1, <1>2, <1>3, <2>1, <2>2 DEF BehindInv, Registered
  <2>5. pc # "advance" /\ Factory \in group.members =>
          IF group.cursor = 0
          THEN Pointer(Factory)' < group.start \/ Pointer(Factory)' <= excused[Factory]
          ELSE Pointer(Factory)' <= chain'[group.cursor].ledger
    <3>1. group.cursor # 0 => chain'[group.cursor] = chain[group.cursor]
      BY <1>2, <1>3, <2>1, <2>2 DEF BehindInv
    <3>2. QED
      BY <1>3, <1>5, <2>1, <2>2, <3>1 DEF BehindInv
  <2>6. QED
    BY <1>1, <2>3, <2>4, <2>5 DEF BehindInv, Registered
<1>21. BatchInv'
  <2>1. SUFFICES ASSUME pc \in {"page", "child", "advance"} PROVE BatchInv'
    BY <1>1 DEF BatchInv
  <2>2. BatchInv /\ Polling
    BY <2>1 DEF LossInv, Polling
  <2>3. LastLedgerOf(page.events)' = LastLedgerOf(page.events)
    <3>1. {chain'[i].ledger : i \in page.events} = {chain[i].ledger : i \in page.events}
      BY <1>2, <1>3
    <3>2. QED
      BY <1>1, <3>1 DEF LastLedgerOf
  <2>4. IsLastPage' = IsLastPage /\ NewLedger' = NewLedger
    BY <1>1, <2>3 DEF IsLastPage, NewLedger
  <2>5. NewLedger \in Nat /\ NewLedger <= head
    BY <2>1, NewLedgerBounds
  <2>6. ASSUME NEW k \in page.events \ page.kids, NEW i \in Events', OnFirstPage(i, k)',
               chain'[i].ledger <= last'[chain'[i].contract]
        PROVE  Explained(i)' \/ InBatch(i)'
    <3>1. i \in Events /\ k \in Events
      BY <1>1, <1>3, <1>12, <2>6
    <3>2. OnFirstPage(i, k) /\ chain[i].ledger <= last[chain[i].contract]
      BY <1>1, <1>2, <1>6, <2>6, <3>1
    <3>3. Explained(i) \/ InBatch(i)
      BY <2>1, <2>2, <2>6, <3>1, <3>2 DEF BatchInv
    <3>4. QED
      BY <1>9, <1>10, <3>1, <3>3
  <2>7. ASSUME NEW i \in Events', chain'[i].contract \in group.members, ~ Behind(i)',
               chain'[i].ledger <= NewLedger
        PROVE  i \in page.events \/ (~ IsLastPage /\ \A j \in page.events : j < i)
    <3>1. i \in Events
      BY <1>2, <2>5, <2>7
    <3>2. QED
      BY <1>2, <1>19, <2>1, <2>2, <2>7, <3>1 DEF BatchInv
  <2>8. \A i \in page.events : chain'[i].contract \in group.members /\ ~ Behind(i)'
    BY <1>2, <1>3, <1>19, <2>1, <2>2 DEF BatchInv
  <2>9. /\ group.start <= page.latest /\ page.latest <= head'
        /\ page.events \subseteq page.batch /\ page.kids \subseteq page.events
    BY <1>1, <1>2, <1>3, <2>1, <2>2 DEF BatchInv
  <2>10. group.cursor # 0 => chain'[group.cursor].ledger <= page.latest
    <3>1. group.cursor # 0 => chain'[group.cursor] = chain[group.cursor]
      BY <1>2, <1>3, <2>2 DEF LossInv, BehindInv
    <3>2. QED
      BY <2>1, <2>2, <3>1 DEF BatchInv
  <2>11. pc = "advance" => /\ page.batch \subseteq stored /\ page.kids = {}
                           /\ page.left \subseteq group.members
                           /\ \A c \in group.members \ page.left : last[c] = NewLedger
    BY <2>1, <2>2 DEF BatchInv
  <2>12. QED
    BY <1>1, <2>4, <2>6, <2>7, <2>8, <2>9, <2>10, <2>11 DEF BatchInv
<1>22. QED
  BY <1>14, <1>15, <1>16, <1>17, <1>18, <1>20, <1>21 DEF LossInv

\* An empty database has passed nothing.
LEMMA InitLossInv == Init => LossInv
<1> SUFFICES ASSUME Init PROVE LossInv
  OBVIOUS
<1>1. /\ Events = {} /\ pc = "idle" /\ cycle.todo = {} /\ cycle.current = 0
      /\ globalLedger = 0 /\ head = 0 /\ oldest = 1
      /\ \A c \in Contracts : last[c] = 0 /\ startAt[c] = 0 /\ ~ active[c]
  BY DEF Init, Events, NoCycle
<1>2. BoundInv /\ RowInv /\ AnnounceInv /\ PointerInv /\ TodoInv /\ BehindInv /\ BatchInv
  BY <1>1 DEF BoundInv, RowInv, AnnounceInv, PointerInv, TodoInv, BehindInv, BatchInv, Polling
<1>3. QED
  BY <1>2 DEF LossInv

\* Every step keeps the account of what the pointers have passed.
LEMMA NextLossInv == IInv /\ LossInv /\ [Next]_vars => LossInv'
<1> SUFFICES ASSUME IInv, LossInv, [Next]_vars PROVE LossInv'
  OBVIOUS
<1>1. IInv'
  BY NextIInv
<1>2. CASE UNCHANGED vars
  <2>1. UNCHANGED <<chain, head, oldest, stored, globalLedger, rowId, active, last, startAt, pc,
                    cycle, group, page, since, excused>>
    BY <1>2 DEF vars
  <2>2. Quiet
    BY <2>1 DEF Quiet, Grows, Registered, IInv, TypeOK
  <2>3. QED
    BY <1>1, <2>1, <2>2, BesideKeepsLoss
<1>3. CASE CloseLedger
  BY <1>1, <1>3, CloseStep
<1>4. CASE Beside
  BY <1>1, <1>4, BesideStep
<1>5. CASE Within
  BY <1>1, <1>5, WithinStep
<1>6. CASE FetchChildPage
  BY <1>1, <1>6, ChildPageStep
<1>7. CASE InsertEventBatch
  BY <1>1, <1>7, InsertStep
<1>8. CASE \E c \in page.left : UpdateContractPointer(c)
  BY <1>1, <1>8, UpdateStep
<1>9. QED
  BY <1>2, <1>3, <1>4, <1>5, <1>6, <1>7, <1>8 DEF Next, Poll, Beside, Within

\* With the account, a passed event that is not stored has one of the causes.
LEMMA AccountGivesCause == IInv /\ LossInv => LossHasACause
<1> SUFFICES ASSUME IInv, LossInv, NEW i \in Events, NEW c \in Contracts, c = chain[i].contract,
                    Passed(i), chain[i].ledger >= oldest, chain[i].ledger > excused[c]
             PROVE  SplitTail(i) \/ WillRefetch(c) \/ AnnouncementLost(c)
  BY LedgerFacts DEF LossHasACause
<1>1. /\ stored \in SUBSET Events /\ stored \cup page.batch \in SUBSET Events
      /\ oldest \in Nat /\ excused[c] \in Nat /\ chain[i].ledger \in Nat
  BY LocalTypes, LedgerFacts DEF IInv, TypeOK
<1>2. \A k \in Events : TailOf(k, stored) => SplitTail(k)
  BY <1>1, TailGrows DEF SplitTail, IInv
<1>3. Accounted(i) /\ Owed(i) /\ i \notin stored
  BY DEF Passed, LossInv, PointerInv
<1>4. CASE Explained(i)
  <2>1. TailOf(i, stored) \/ Cut(c)
    BY <1>1, <1>3, <1>4 DEF Explained
  <2>2. Cut(c) => AnnouncementLost(c)
    BY <1>2 DEF Cut, AnnouncementLost
  <2>3. QED
    BY <1>2, <2>1, <2>2
<1>5. CASE Refetched(i)
  BY <1>5 DEF Refetched, OnFirstPage, WillRefetch
<1>6. QED
  BY <1>3, <1>4, <1>5 DEF Accounted

\* The pointers pass an owed event only for one of the reasons the property lists,
\* whatever fails, wherever the process dies, for any number of contracts and any page
\* size.
THEOREM LossesHaveCauses == Spec => []LossHasACause
<1>1. Init => IInv /\ LossInv
  BY InitIInv, InitLossInv
<1>2. (IInv /\ LossInv) /\ [Next]_vars => (IInv /\ LossInv)'
  BY NextIInv, NextLossInv
<1>3. IInv /\ LossInv => LossHasACause
  BY AccountGivesCause
<1>4. QED
  BY <1>1, <1>2, <1>3, PTL DEF Spec

=============================================================================
