------------------------------ MODULE MCServices ------------------------------
(***************************************************************************)
(* The services around the live poller for TLC: what each is given.        *)
(***************************************************************************)
EXTENDS Services

Range(start, end) == [start |-> start, end |-> end]

\* Two ranges that share a ledger, and one that starts behind the pointer.
ImportOptions ==
  [i1 |-> [start |-> 1, end |-> 3, defaultEnd |-> -1, advance |-> FALSE],
   i2 |-> [start |-> 3, end |-> 4, defaultEnd |-> -1, advance |-> TRUE],
   i3 |-> [start |-> -1, end |-> -1, defaultEnd |-> 4, advance |-> TRUE]]
NoEnvRange == Range(-1, -1)
ThreeEvents == [e1 |-> 1, e2 |-> 3, e3 |-> 4]

\* Every chain of up to five events on ledgers 1 to 5, for a range inside of it.
AllChains == {c \in UNION {[1 .. n -> 1 .. 5] : n \in 0 .. 5} :
                \A i, j \in DOMAIN c : i < j => c[i] <= c[j]}
WantedRange == Range(2, 4)

\* Two batches that share an event, and two events with one key.
QueueBatch == [s1 |-> <<"a", "b">>, s2 |-> <<"b", "c">>, s3 |-> <<"a", "c">>]
QueueKeyOf == [a |-> "k1", b |-> "k2", c |-> "k2"]

\* Two events of listed types, one without an id, and a "created" one.
StoreEvent(job, type, ledger, id, roles) ==
  [job |-> job, type |-> type, ledger |-> ledger, id |-> id, roles |-> roles]
InitEvent     == StoreEvent("j1", "init", 1, "n1", [client |-> "w1", freelancer |-> "w2"])
ApprovedEvent == StoreEvent("j2", "approved", 2, "none", [client |-> "w1", arbiter |-> "w2"])
StoreEvents   == {InitEvent, ApprovedEvent, StoreEvent("j1", "created", 1, "n3", [client |-> "w1"])}
StoreBatches  == {<<e>> : e \in StoreEvents} \cup {<<InitEvent, ApprovedEvent>>}
ApprovedAgain == {[events |-> <<ApprovedEvent>>, start |-> 1, end |-> 2]}
StoreRanges   == {Range(1, 1), Range(1, 2)}

\* Ranges that overlap, and one that is too long.
BackfillPosts == [a1 |-> Range(1, 2), a2 |-> Range(2, 3), a3 |-> Range(1, 4)]
BackfillRange == Range(2, 3)
FiveEvents    == <<1, 2, 2, 3, 4>>

TwoReleases == [p1 |-> 14, p2 |-> 19]

\* A funding, a release whose row cannot be read, and a refund; contract b has no events.
MoneyMove(kind, amount, readable) ==
  [contract |-> "a", kind |-> kind, amount |-> amount, readable |-> readable]
MoneyMoves ==
  [i1 |-> MoneyMove("init", 0, TRUE), f1 |-> MoneyMove("fund", 3, TRUE),
   o1 |-> MoneyMove("approve", 1, FALSE), r1 |-> MoneyMove("splitref", 1, TRUE)]
TwoContracts == <<"a", "b">>

StockTypes   == [a |-> "fund", b |-> "approve", c |-> "fund"]
StockLedgers == [a |-> 1, b |-> 1, c |-> 2]
=============================================================================
