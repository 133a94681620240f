----------------------------- MODULE InsertLocks -----------------------------
(***************************************************************************)
(* insertEventLocked and insertEventBatchLocked (src/src/indexer/db.ts):   *)
(* an insert takes the lock of every key of its batch, one after the       *)
(* other, each key a chain of promises in the order of arrival.  An insert *)
(* joins the chain of its next key before anybody else runs, writes when   *)
(* it holds them all, and gives them back from the last to the first.      *)
(***************************************************************************)
EXTENDS Integers, Sequences, SequencesExt

CONSTANTS
  Inserts,    \* calls of the two functions
  KeyRank,    \* key -> its place in the order of the strings
  KeysOf      \* insert -> the keys of its events, in the order of the batch

VARIABLES
  chain,      \* eventInsertLockTails: key -> the inserts on its chain, the holder first
  held,       \* insert -> the keys it holds
  waiting,    \* insert -> it is on the chain of its next key
  stage       \* insert -> "idle", "locking", "releasing", "done"

locksVars == <<chain, held, waiting, stage>>

Keys == DOMAIN KeyRank

\* [...new Set(keys)] of insertEventBatchLocked; insertEventLocked has one key.
KeySet(c) == ToSet(KeysOf[c])
Missing(c) == KeySet(c) \ held[c]

Init ==
  /\ chain = [k \in Keys |-> <<>>]
  /\ held = [c \in Inserts |-> {}] /\ waiting = [c \in Inserts |-> FALSE]
  /\ stage = [c \in Inserts |-> "idle"]

\* Mutant of NextKey: the keys are locked in the order of the batch.
NextKeyOfBatch(c) ==
  KeysOf[c][CHOOSE i \in DOMAIN KeysOf[c] :
    KeysOf[c][i] \in Missing(c) /\ \A j \in 1 .. i - 1 : KeysOf[c][j] \notin Missing(c)]

\* The keys are sorted before they are locked, and given back from the last to the first.
NextKey(c) == CHOOSE k \in Missing(c) : \A j \in Missing(c) : KeyRank[k] <= KeyRank[j]
LastKey(c) == CHOOSE k \in held[c] : \A j \in held[c] : KeyRank[j] <= KeyRank[k]

Begin(c) ==
  /\ stage[c] = "idle" /\ stage' = [stage EXCEPT ![c] = "locking"]
  /\ UNCHANGED <<chain, held, waiting>>

\* withEventInsertLock puts its gate at the end of the chain.
Join(c) ==
  /\ stage[c] = "locking" /\ ~ waiting[c] /\ Missing(c) # {}
  /\ chain' = [chain EXCEPT ![NextKey(c)] = Append(@, c)]
  /\ waiting' = [waiting EXCEPT ![c] = TRUE]
  /\ UNCHANGED <<held, stage>>

\* The promise before it has settled.
Acquire(c) ==
  /\ waiting[c] /\ Head(chain[NextKey(c)]) = c
  /\ held' = [held EXCEPT ![c] = @ \cup {NextKey(c)}]
  /\ waiting' = [waiting EXCEPT ![c] = FALSE]
  /\ UNCHANGED <<chain, stage>>

\* acquireEventLocksInOrder has no key left: the insert runs.
Insert(c) ==
  /\ stage[c] = "locking" /\ Missing(c) = {}
  /\ stage' = [stage EXCEPT ![c] = "releasing"]
  /\ UNCHANGED <<chain, held, waiting>>

\* The finally clauses, whether the insert threw or not.
Release(c) ==
  /\ stage[c] = "releasing" /\ UNCHANGED waiting
  /\ \/ /\ held[c] = {}
        /\ stage' = [stage EXCEPT ![c] = "done"] /\ UNCHANGED <<chain, held>>
     \/ /\ held[c] # {}
        /\ chain' = [chain EXCEPT ![LastKey(c)] = Tail(@)]
        /\ held' = [held EXCEPT ![c] = @ \ {LastKey(c)}]
        /\ UNCHANGED stage

Step(c) == Begin(c) \/ Join(c) \/ Acquire(c) \/ Insert(c) \/ Release(c)

Next == \E c \in Inserts : Step(c)

Spec == Init /\ [][Next]_locksVars /\ \A c \in Inserts : WF_locksVars(Step(c))

(***************************************************************************)
(* Properties                                                              *)
(***************************************************************************)

\* Type invariant; the chain of a key has no insert twice.
TypeOK ==
  /\ chain \in [Keys -> Seq(Inserts)] /\ \A k \in Keys : IsInjective(chain[k])
  /\ held \in [Inserts -> SUBSET Keys] /\ \A c \in Inserts : held[c] \subseteq KeySet(c)
  /\ waiting \in [Inserts -> BOOLEAN]
  /\ stage \in [Inserts -> {"idle", "locking", "releasing", "done"}]

\* d is before c on the chain c waits on.
WaitsFor(c, d) ==
  /\ waiting[c]
  /\ \E i, j \in DOMAIN chain[NextKey(c)] :
       i < j /\ chain[NextKey(c)][i] = d /\ chain[NextKey(c)][j] = c

\* No two inserts write rows with the same key at once, and batches whose events
\* overlap, in whatever order each lists them, never wait for each other in a
\* circle (withEventInsertLock, acquireEventLocksInOrder).
LocksAreSafe ==
  /\ \A c, d \in Inserts : c # d => held[c] \cap held[d] = {}
  /\ \A waiters \in SUBSET Inserts :
       waiters # {} => \E c \in waiters : \A d \in waiters : ~ WaitsFor(c, d)

\* Every insert ends.
EveryInsertEnds == \A c \in Inserts : <>(stage[c] = "done")
=============================================================================
