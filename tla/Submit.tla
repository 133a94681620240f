------------------------------- MODULE Submit -------------------------------
(***************************************************************************)
(* POST /api/jobs/submit (src/src/routes/jobs/submit.ts) for one signed    *)
(* transaction: results of the network are cached for SUBMIT_CACHE_TTL_S,  *)
(* and requests that come while a submission is in flight await the same   *)
(* promise.  sendTransaction is an await; what its answer sets off in the  *)
(* requests that wait for it runs before any other request.                *)
(***************************************************************************)
EXTENDS Integers, FiniteSets

CONSTANT Senders   \* HTTP requests that carry the transaction

VARIABLES
  accepted,         \* the network has taken the transaction
  submitCache,      \* a status, or NoStatus
  inFlightSubmit,   \* inFlightSubmitRequests: the sender whose promise it is, or NoSender
  send,             \* sender -> its own sendTransaction: NoStatus, Sending, or its outcome
  awaited,          \* sender -> the sender whose promise it awaits, or NoSender
  reply             \* sender -> its last answer

submitVars == <<accepted, submitCache, inFlightSubmit, send, awaited, reply>>

NoSender == "nobody"
NoStatus == "none"
Sending  == "waiting"

\* sendTransaction resolves with one of four statuses, or it throws.
Taken    == {"PENDING", "DUPLICATE"}
Refused  == {"ERROR", "TRY_AGAIN_LATER"}
Outcomes == Taken \cup Refused \cup {"throw"}

ASSUME SubmitSendersAssumption == NoSender \notin Senders

SubmitInit ==
  /\ accepted = FALSE /\ submitCache = NoStatus /\ inFlightSubmit = NoSender
  /\ send = [c \in Senders |-> NoStatus]
  /\ awaited = [c \in Senders |-> NoSender]
  /\ reply = [c \in Senders |-> "none"]

Idle(c) == awaited[c] = NoSender

\* SUBMIT_CACHE_TTL_S is over.
ExpireResult ==
  /\ submitCache # NoStatus
  /\ submitCache' = NoStatus
  /\ UNCHANGED <<accepted, inFlightSubmit, send, awaited, reply>>

ServeCachedResult(c) ==
  /\ Idle(c) /\ submitCache # NoStatus
  /\ reply' = [reply EXCEPT ![c] = "success"]
  /\ UNCHANGED <<accepted, submitCache, inFlightSubmit, send, awaited>>

\* What a request reports that awaits somebody else's promise.
JoinerAnswer(outcome) == IF outcome = "throw" THEN "error" ELSE "success"

\* A request that awaits a promise that is settled goes on at once.
JoinSubmission(c) ==
  /\ Idle(c) /\ submitCache = NoStatus /\ inFlightSubmit # NoSender
  /\ IF send[inFlightSubmit] = Sending
     THEN /\ awaited' = [awaited EXCEPT ![c] = inFlightSubmit]
          /\ reply' = [reply EXCEPT ![c] = "none"]
     ELSE /\ reply' = [reply EXCEPT ![c] = JoinerAnswer(send[inFlightSubmit])]
          /\ UNCHANGED awaited
  /\ UNCHANGED <<accepted, submitCache, inFlightSubmit, send>>

\* Mutant of Vacant: a submission in flight is not looked for.
VacantAlways == TRUE

Vacant == inFlightSubmit = NoSender

StartSubmission(c) ==
  /\ Idle(c) /\ submitCache = NoStatus /\ Vacant
  /\ inFlightSubmit' = c
  /\ send' = [send EXCEPT ![c] = Sending]
  /\ awaited' = [awaited EXCEPT ![c] = c]
  /\ reply' = [reply EXCEPT ![c] = "none"]
  /\ UNCHANGED <<accepted, submitCache>>

\* What the network may answer: PENDING once, DUPLICATE from then on.
Answers == {o \in Outcomes : (o = "PENDING" => ~ accepted) /\ (o = "DUPLICATE" => accepted)}

\* Mutant of Cacheable: whatever the RPC resolves with is cached.
CacheableResolved(outcome) == outcome # "throw"

Cacheable(outcome) == outcome \in Taken

\* submitCache after the submission: the catch clause of the owner deletes.
CachedAfter(outcome) ==
  IF Cacheable(outcome) THEN outcome ELSE IF outcome = "throw" THEN NoStatus ELSE submitCache

\* Mutant of ClearedAfter: the entry is deleted behind the await, not in finally.
ClearedOnResolve(outcome) == IF outcome = "throw" THEN inFlightSubmit ELSE NoSender

ClearedAfter(outcome) == NoSender

\* The owner classifies the status before it answers.
OwnerAnswer(outcome) == IF outcome \in Taken THEN "success" ELSE "error"

FinishSubmission(c) ==
  /\ send[c] = Sending
  /\ \E outcome \in Answers :
       /\ \/ accepted' = (accepted \/ outcome = "PENDING")
          \/ outcome = "throw" /\ accepted' = TRUE   \* taken, but the answer was lost
       /\ submitCache' = CachedAfter(outcome)
       /\ inFlightSubmit' = ClearedAfter(outcome)
       /\ send' = [send EXCEPT ![c] = outcome]
       /\ reply' = [d \in Senders |-> IF awaited[d] # c THEN reply[d]
                                       ELSE IF d = c THEN OwnerAnswer(outcome)
                                       ELSE JoinerAnswer(outcome)]
  /\ awaited' = [d \in Senders |-> IF awaited[d] = c THEN NoSender ELSE awaited[d]]

SubmitNext ==
  \/ ExpireResult
  \/ \E c \in Senders :
       \/ ServeCachedResult(c)
       \/ JoinSubmission(c)
       \/ StartSubmission(c)
       \/ FinishSubmission(c)

SubmitSpec == SubmitInit /\ [][SubmitNext]_submitVars

(***************************************************************************)
(* Properties                                                              *)
(***************************************************************************)

\* Type invariant.
SubmitTypeOK ==
  /\ accepted \in BOOLEAN
  /\ submitCache \in {NoStatus} \cup Taken
  /\ inFlightSubmit \in {NoSender} \cup Senders
  /\ send \in [Senders -> {NoStatus, Sending} \cup Outcomes]
  /\ awaited \in [Senders -> {NoSender} \cup Senders]
  /\ reply \in [Senders -> {"none", "success", "error"}]

\* However many requests carry one transaction, the network is asked by one of
\* them at a time.
OneSubmissionAtATime ==
  \A c, d \in Senders : send[c] = Sending /\ send[d] = Sending => c = d

\* A refusal is not remembered as a success: what the cache answers a retry
\* with, the network has taken (#614).
CachedIsAccepted == submitCache # NoStatus => accepted

\* A failure is reported only by the submission it happened in: a retry that
\* comes later reaches the network or the cache, never an old failure.
FailuresAreFresh ==
  [][\A c \in Senders : reply'[c] = "error" /\ reply[c] # "error" =>
       \E d \in Senders : send[d] = Sending /\ send'[d] # Sending]_submitVars

\* A refused or overloaded state is classified instead of reported as success
\* (the comment behind the await).
RefusalIsReported == \A c \in Senders : reply[c] = "success" => accepted
=============================================================================
