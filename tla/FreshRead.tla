----------------------------- MODULE FreshRead -----------------------------
(***************************************************************************)
(* What GET /api/jobs/:contractId promises its callers, cache or no cache: *)
(* an answer is a state the contract had, no older than the last event the *)
(* indexer had stored when the call was made.  State 0 is a contract       *)
(* without a job.                                                          *)
(***************************************************************************)
EXTENDS Integers

CONSTANTS
  Callers,   \* concurrent HTTP requests for one contract
  MaxState   \* bound: states of the contract

VARIABLES
  chain,     \* the state of the contract on the chain
  indexed,   \* the state the stored events lead to
  floor,     \* caller -> the state indexed when the call was made, Idle without one
  answer     \* caller -> the last answer

Idle     == -1
NoAnswer == -1
Failed   == -2

fresh == <<chain, indexed, floor, answer>>

Init ==
  /\ chain = 0 /\ indexed = 0
  /\ floor = [c \in Callers |-> Idle]
  /\ answer = [c \in Callers |-> NoAnswer]

Change ==
  /\ chain < MaxState
  /\ chain' = chain + 1
  /\ UNCHANGED <<indexed, floor, answer>>

Index(s) ==
  /\ s \in indexed .. chain
  /\ indexed' = s
  /\ UNCHANGED <<chain, floor, answer>>

Call(c) ==
  /\ floor[c] = Idle
  /\ floor' = [floor EXCEPT ![c] = indexed]
  /\ answer' = [answer EXCEPT ![c] = NoAnswer]
  /\ UNCHANGED <<chain, indexed>>

\* One load may answer several callers, a cached state one of them at once.
Answer(S, s) ==
  /\ \A c \in S : floor[c] # Idle
  /\ \/ s = Failed
     \/ s \in 0 .. chain /\ \A c \in S : floor[c] <= s
  /\ floor' = [c \in Callers |-> IF c \in S THEN Idle ELSE floor[c]]
  /\ answer' = [c \in Callers |-> IF c \in S THEN s ELSE answer[c]]
  /\ UNCHANGED <<chain, indexed>>

\* A call answered in the step that makes it: the answer is fresh on the spot.
CallAnswered(c, s) ==
  /\ floor[c] = Idle
  /\ s \in indexed .. chain
  /\ answer' = [answer EXCEPT ![c] = s]
  /\ UNCHANGED <<chain, indexed, floor>>

Next ==
  \/ Change
  \/ \E s \in 0 .. MaxState : Index(s)
  \/ \E c \in Callers : Call(c)
  \/ \E S \in SUBSET Callers, s \in {Failed} \cup 0 .. MaxState : Answer(S, s)
  \/ \E c \in Callers, s \in 0 .. MaxState : CallAnswered(c, s)

Spec == Init /\ [][Next]_fresh
=============================================================================
