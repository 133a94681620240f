------------------------------ MODULE Failover ------------------------------
(***************************************************************************)
(* RPC failover (src/src/indexer/failover-recovery.ts) and the poller that *)
(* uses it (src/src/indexer/poller.ts): a table with one health row per    *)
(* node, the row that names the active node, and the client the poller     *)
(* holds in memory.  A poll that succeeds or fails is recorded for the     *)
(* active node; a node that becomes unhealthy is replaced by the best of   *)
(* RPC_URLS.  The database survives a restart, the client does not.        *)
(***************************************************************************)
EXTENDS Integers, Sequences, SequencesExt

CONSTANTS
  RpcUrls,            \* RPC_URLS: the configured nodes, in order
  FailureThreshold,   \* recordNodeFailure's failureThreshold (5)
  SuccessThreshold,   \* recordNodeSuccess's successThreshold (3)
  MaxBackoff,         \* MAX_BACKOFF_MS over DEFAULT_BACKOFF_MS (300)
  MaxFailures,        \* bound: failures counted for a node
  MaxFlips,           \* bound: how often a node goes down or comes back
  MaxFaults           \* bound: polls that fail for another reason, failed writes, restarts

VARIABLES
  row,            \* rpc_node_health: node -> its row, or NoRow
  lastSuccess,    \* node -> the place of its last_success_at, the latest highest; 0: none
  dbActive,       \* failover_state.active_node_url, or NoNode
  active,         \* activeNodeUrl: the node of the poller's client
  selected,       \* failoverNodeSelected
  up,             \* the nodes that answer
  flips, faults   \* how much of the bounds is used

failoverVars == <<row, lastSuccess, dbActive, active, selected, up, flips, faults>>

Nodes  == ToSet(RpcUrls)
NoNode == "none"
NoRow  == [failures |-> -1]

\* ensureNodeRow: what a node without a row starts from (backoff in units of
\* DEFAULT_BACKOFF_MS).
FreshRow == [healthy |-> TRUE, failures |-> 0, backoff |-> 1, successes |-> 0, retryLater |-> FALSE]

RowOf(n) == IF row[n] = NoRow THEN FreshRow ELSE row[n]

MinOf(a, b) == IF a < b THEN a ELSE b
MaxOf(a, b) == IF a > b THEN a ELSE b

Init ==
  /\ row = [n \in Nodes |-> NoRow] /\ lastSuccess = [n \in Nodes |-> 0] /\ dbActive = NoNode
  /\ active = RpcUrls[1] /\ selected = FALSE
  /\ up = Nodes /\ flips = 0 /\ faults = 0

-----------------------------------------------------------------------------
\* recordNodeFailure on the row of the node.  No behaviour of the checked
\* instance reaches MaxFailures.
AfterFailure(r) ==
  [healthy    |-> r.failures + 1 < FailureThreshold,
   failures   |-> MinOf(r.failures + 1, MaxFailures),
   backoff    |-> MinOf(MaxOf(r.backoff, 1) * 2, MaxBackoff),
   successes  |-> 0,
   retryLater |-> TRUE]

\* Mutant of AfterSuccess: the backoff is halved down to nothing.
AfterSuccessHalving(r) ==
  LET failures == MaxOf(0, r.failures - 1)
  IN  [healthy    |-> r.successes + 1 >= SuccessThreshold \/ failures = 0,
       failures   |-> failures,
       backoff    |-> r.backoff \div 2,
       successes  |-> MinOf(r.successes + 1, SuccessThreshold),
       retryLater |-> FALSE]

\* recordNodeSuccess on the row of the node; the model stops counting
\* consecutive successes at the threshold, above which nothing looks.
AfterSuccess(r) ==
  LET failures == MaxOf(0, r.failures - 1)
  IN  [healthy    |-> r.successes + 1 >= SuccessThreshold \/ failures = 0,
       failures   |-> failures,
       backoff    |-> MaxOf(1, r.backoff \div 2),
       successes  |-> MinOf(r.successes + 1, SuccessThreshold),
       retryLater |-> FALSE]

\* last_success_at of n is now: its place is the highest, those above its old one move down.
Succeeded(n) ==
  [m \in Nodes |-> IF m = n THEN Len(RpcUrls)
                   ELSE IF lastSuccess[m] > lastSuccess[n] THEN lastSuccess[m] - 1 ELSE lastSuccess[m]]

\* Mutant of Before: the failures of two unhealthy nodes are not compared.
BeforeIgnoringFailures(health, m, n) ==
  IF health[m].healthy # health[n].healthy THEN health[m].healthy
  ELSE lastSuccess[m] > lastSuccess[n]

\* The comparison of selectHealthiestNode: m is sorted before n.
Before(health, m, n) ==
  IF health[m].healthy # health[n].healthy THEN health[m].healthy
  ELSE IF health[m].failures # health[n].failures THEN health[m].failures < health[n].failures
  ELSE lastSuccess[m] > lastSuccess[n]

\* selectHealthiestNode: the first node nothing is sorted before (the sort is stable).
Healthiest(health) ==
  RpcUrls[CHOOSE i \in DOMAIN RpcUrls :
            /\ \A j \in DOMAIN RpcUrls : ~ Before(health, RpcUrls[j], RpcUrls[i])
            /\ \A j \in 1 .. i - 1 : Before(health, RpcUrls[i], RpcUrls[j])]

Health(rows) == [n \in Nodes |-> IF rows[n] = NoRow THEN FreshRow ELSE rows[n]]

-----------------------------------------------------------------------------
Fault == faults < MaxFaults /\ faults' = faults + 1

\* A node stops answering, or answers again; one of them always does.
Flip(n) ==
  /\ flips < MaxFlips
  /\ up' = IF n \in up THEN up \ {n} ELSE up \cup {n}
  /\ up' # {}
  /\ flips' = flips + 1
  /\ UNCHANGED <<row, lastSuccess, dbActive, active, selected, faults>>

\* selectRpcNode: createFailoverServer writes failover_state when the choice is
\* new, and goes on with the choice when that write fails.
SelectRpcNode(rows) ==
  LET choice == Healthiest(Health(rows))
  IN  /\ active' = choice /\ selected' = TRUE
      /\ \/ dbActive' = choice /\ UNCHANGED faults
         \/ choice # dbActive /\ UNCHANGED dbActive /\ Fault   \* failoverToNode returned null

\* The first poll of a process chooses a node before it asks one.
FirstSelection ==
  /\ ~ selected
  /\ SelectRpcNode(row)
  /\ UNCHANGED <<row, lastSuccess, up, flips>>

PollSucceeds ==
  /\ selected /\ active \in up
  /\ \/ /\ row' = [row EXCEPT ![active] = AfterSuccess(RowOf(active))]
        /\ lastSuccess' = Succeeded(active)
        /\ UNCHANGED faults
     \/ UNCHANGED <<row, lastSuccess>> /\ Fault               \* recordNodeSuccess returned null
  /\ UNCHANGED <<dbActive, active, selected, up, flips>>

\* recordActiveNodeFailure: the failure is written for the active node, and a
\* node that is unhealthy now is replaced.
RecordActiveNodeFailure ==
  /\ row' = [row EXCEPT ![active] = AfterFailure(RowOf(active))]
  /\ IF row'[active].healthy
     THEN UNCHANGED <<dbActive, active, selected, faults>>
     ELSE SelectRpcNode(row')
  /\ UNCHANGED <<lastSuccess, up, flips>>

\* The active node does not answer.
PollFails ==
  /\ selected /\ active \notin up
  /\ \/ RecordActiveNodeFailure
     \/ Fault /\ UNCHANGED <<row, lastSuccess, dbActive, active, selected, up, flips>>   \* the write failed too

\* The poll fails behind the node's back (a failed commit, a schema mismatch):
\* pollEvents blames the node all the same.
PollFailsOtherwise ==
  /\ selected /\ active \in up /\ Fault
  /\ LET health == AfterFailure(RowOf(active)) IN
       /\ row' = [row EXCEPT ![active] = health]
       /\ IF health.healthy THEN UNCHANGED <<dbActive, active>>
          ELSE active' = Healthiest(Health(row')) /\ dbActive' = active'
  /\ UNCHANGED <<lastSuccess, selected, up, flips>>

\* The process starts again: the tables stay.
Restart ==
  /\ Fault
  /\ active' = RpcUrls[1] /\ selected' = FALSE
  /\ UNCHANGED <<row, lastSuccess, dbActive, up, flips>>

Poll == FirstSelection \/ PollSucceeds \/ PollFails

Next ==
  \/ Poll \/ PollFailsOtherwise \/ Restart
  \/ \E n \in Nodes : Flip(n)

Spec == Init /\ [][Next]_failoverVars /\ WF_failoverVars(Poll)

(***************************************************************************)
(* Properties                                                              *)
(***************************************************************************)

\* Type invariant; two successes have two places.
TypeOK ==
  /\ row \in [Nodes -> {NoRow} \cup
               [healthy : BOOLEAN, failures : Nat, backoff : 1 .. MaxBackoff,
                successes : 0 .. SuccessThreshold, retryLater : BOOLEAN]]
  /\ lastSuccess \in [Nodes -> 0 .. Len(RpcUrls)]
  /\ \A m, n \in Nodes : lastSuccess[m] = lastSuccess[n] /\ lastSuccess[m] > 0 => m = n
  /\ dbActive \in Nodes \cup {NoNode} /\ active \in Nodes /\ selected \in BOOLEAN
  /\ up \subseteq Nodes /\ up # {}

\* Whatever failures, failed writes and restarts came before, once the nodes
\* stop changing the poller comes to a node that answers and stays there.
PollerFindsAServingNode == <>[](active \in up)

\* The comment of recordNodeSuccess: "Record a successful call against a node,
\* easing it back toward healthy".  Then a success never makes a healthy node
\* unhealthy.
SuccessNeverDemotes ==
  [][\A n \in Nodes :
       row[n] # NoRow /\ row[n].healthy /\ row'[n] # row[n] /\ row'[n].failures <= row[n].failures
         => row'[n].healthy]_failoverVars
=============================================================================
