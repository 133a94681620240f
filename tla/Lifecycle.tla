----------------------------- MODULE Lifecycle ------------------------------
(***************************************************************************)
(* A process from its start to its exit (src/src/index.ts, shutdown.ts,    *)
(* poller.ts): configuration, migrations, the network check that starts   *)
(* the poller, HTTP requests, and the signals that drain the process.  The *)
(* check, the requests and a running poll cycle are awaits.                *)
(***************************************************************************)
EXTENDS Integers, FiniteSets

CONSTANTS
  Clients,       \* connections of the HTTP server
  MaxSignals,    \* bound: signals
  MaxCycles      \* bound: polls

VARIABLES
  state,         \* starting, serving, draining, ended
  exitCode,      \* -1: it runs; 2: whatever Node makes of a module that threw
  network,       \* assertRpcNetworkMatches: pending, ok, mismatch
  busy,          \* the requests the server has accepted and not answered
  dbOpen,        \* dbInstance is set
  pollerRunning, inCycle,
  forceTimer,    \* the shutdown timeout is armed
  signals, cycles

lifeVars == <<state, exitCode, network, busy, dbOpen, pollerRunning, inCycle, forceTimer, signals, cycles>>

Running == exitCode = -1
Exit(code) == exitCode' = code /\ state' = "ended" /\ busy' = {} /\ inCycle' = FALSE

Init ==
  /\ state = "starting" /\ exitCode = -1 /\ network = "pending"
  /\ busy = {} /\ dbOpen = FALSE /\ pollerRunning = FALSE /\ inCycle = FALSE
  /\ forceTimer = FALSE /\ signals = 0 /\ cycles = 0

-----------------------------------------------------------------------------
\* The body of index.ts in one turn: a bad environment variable or a failed
\* migration throws before the server listens, and nothing keeps the process.
StartUp ==
  /\ state = "starting"
  /\ \/ /\ state' = "serving" /\ dbOpen' = TRUE
        /\ UNCHANGED <<exitCode, busy, inCycle>>
     \/ Exit(2) /\ UNCHANGED dbOpen
  /\ UNCHANGED <<network, pollerRunning, forceTimer, signals, cycles>>

\* assertRpcNetworkMatches resolves: startPoller, also while the server drains.
NetworkMatches ==
  /\ Running /\ state # "starting" /\ network = "pending"
  /\ network' = "ok"
  /\ pollerRunning' = TRUE /\ inCycle' = TRUE
  /\ UNCHANGED <<state, exitCode, busy, dbOpen, forceTimer, signals, cycles>>

\* Another passphrase, a node that cannot be asked, or a schema startPoller refuses.
NetworkDiffers ==
  /\ Running /\ state # "starting" /\ network = "pending"
  /\ network' = "mismatch"
  /\ Exit(1)
  /\ UNCHANGED <<dbOpen, pollerRunning, forceTimer, signals, cycles>>

\* A poll cycle ends; pollLoop goes on unless the poller was stopped.
EndCycle ==
  /\ Running /\ inCycle
  /\ inCycle' = FALSE
  /\ UNCHANGED <<state, exitCode, network, busy, dbOpen, pollerRunning, forceTimer, signals, cycles>>

BeginCycle ==
  /\ Running /\ pollerRunning /\ ~ inCycle /\ cycles < MaxCycles
  /\ inCycle' = TRUE /\ cycles' = cycles + 1
  /\ UNCHANGED <<state, exitCode, network, busy, dbOpen, pollerRunning, forceTimer, signals>>

\* The server accepts connections until it is closed, and answers a request in
\* its own time, or never.
Arrive(c) ==
  /\ state = "serving" /\ c \notin busy
  /\ busy' = busy \cup {c}
  /\ UNCHANGED <<state, exitCode, network, dbOpen, pollerRunning, inCycle, forceTimer, signals, cycles>>

Respond(c) ==
  /\ c \in busy /\ busy' = busy \ {c}
  /\ UNCHANGED <<state, exitCode, network, dbOpen, pollerRunning, inCycle, forceTimer, signals, cycles>>

-----------------------------------------------------------------------------
\* Mutant of Arm: the timeout is only armed when there is something to wait for.
ArmWhenPolling == forceTimer' = inCycle

Arm == forceTimer' = TRUE

\* run: the first signal arms the timeout, stops the poller and closes the
\* server; the others do nothing.
Signal ==
  /\ state \in {"serving", "draining"} /\ signals < MaxSignals
  /\ signals' = signals + 1
  /\ IF state = "draining" THEN UNCHANGED <<state, forceTimer, pollerRunning>>
     ELSE state' = "draining" /\ Arm /\ pollerRunning' = FALSE
  /\ UNCHANGED <<exitCode, network, busy, dbOpen, inCycle, cycles>>

\* Mutant of Drained: the database is closed when the server stops accepting.
DrainedAtOnce == state = "draining"

\* closeServer has resolved.
Drained == state = "draining" /\ busy = {}

\* The rest of shutdown: closeDb, clear the timer, exit(0).
FinishShutdown ==
  /\ Drained
  /\ dbOpen' = FALSE /\ forceTimer' = FALSE
  /\ exitCode' = 0 /\ state' = "ended" /\ inCycle' = FALSE
  /\ UNCHANGED <<network, busy, pollerRunning, signals, cycles>>

\* The timeout: exit(1) with the requests still open.
ForceExit ==
  /\ Running /\ forceTimer
  /\ Exit(1)
  /\ UNCHANGED <<network, dbOpen, pollerRunning, forceTimer, signals, cycles>>

Next ==
  \/ StartUp \/ NetworkMatches \/ NetworkDiffers
  \/ EndCycle \/ BeginCycle
  \/ \E c \in Clients : Arrive(c) \/ Respond(c)
  \/ Signal \/ FinishShutdown \/ ForceExit

Spec == Init /\ [][Next]_lifeVars /\ WF_lifeVars(ForceExit) /\ WF_lifeVars(FinishShutdown)

(***************************************************************************)
(* Properties                                                              *)
(***************************************************************************)

\* Type invariant.
TypeOK ==
  /\ state \in {"starting", "serving", "draining", "ended"} /\ exitCode \in {-1, 0, 1, 2}
  /\ network \in {"pending", "ok", "mismatch"} /\ busy \subseteq Clients
  /\ dbOpen \in BOOLEAN /\ pollerRunning \in BOOLEAN /\ inCycle \in BOOLEAN /\ forceTimer \in BOOLEAN
  /\ signals \in 0 .. MaxSignals /\ cycles \in 0 .. MaxCycles

\* A signal ends the process, though requests may never be answered and the
\* network check may answer, start the poller or fail at any moment.
SignalEndsProcess == signals > 0 ~> ~ Running

\* The database outlives the requests: it is only closed when every request that
\* was accepted has been answered, and exit code 0 means that.
DatabaseOutlivesRequests ==
  [][(dbOpen /\ ~ dbOpen') \/ (Running /\ exitCode' = 0) => busy = {} /\ state = "draining"]_lifeVars
=============================================================================
