SPECIFICATION ServerSpec
CONSTANTS
  Modes = {"failover"}
  Callers = {c1, c2, c3}
  Caching = TRUE
  MaxState = 2
  MaxGeneration = 3
  Senders = {s1, s2, s3}
  Requests = {r1, r2, r3}
  Routes = {"build-tx", "claim-auto-release", "partial-release"}
  Second = 2
  Timeout = 7
  MinRemaining = 2
  Ttl = 4
  MaxNow = 16
  RpcUrls <- TwoNodes
  FailureThreshold = 3
  SuccessThreshold = 2
  MaxBackoff = 3
  MaxFailures = 8
  MaxFlips = 4
  MaxPollFaults = 2
  Inserts = {"c1", "c2", "c3"}
  KeyRank <- RankOfKeys
  KeysOf <- KeysOfBatch
  Connections = {"r1", "r2"}
  MaxSignals = 2
  MaxCycles = 2
  Ledgers = {1, 2}
  Cleanups = {"c1", "c2"}
  MaxRetries = 1
  MaxPruneFaults = 1
  MaxAmount = 127
  MaxSafe = 99
  Bps = 10
  BpsScale = 10
  Inputs <- AmountInputs
  GivenAmounts <- GivenParts
  Shares = {0, 1, 4, 20}
  Percentages = {1, 5, 10, 20}
  MaxParts = 3
  Brackets <- TaxBrackets
  MaxBrackets = 3
  Policies = {"truncate", "half-even", "floor"}
  CentsDecimals = 1
  MaxDecimals = 2
  MaxPlaces = 3
  Digits <- TextDigits
PROPERTY SuccessNeverDemotes
CHECK_DEADLOCK FALSE
