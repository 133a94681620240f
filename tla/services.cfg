SPECIFICATION Spec
CONSTANTS
  Modes = {"range_tracker", "historical_fetch", "event_queue", "event_store", "backfill", "migrations", "reconciliation", "metrics", "retry", "throttle", "monitor", "limiter", "metadata"}
  Imports = {"i1", "i2", "i3"}
  Options <- ImportOptions
  EnvRange <- NoEnvRange
  TrackedEvents <- ThreeEvents
  PageSize = 2
  MaxRetries = 1
  MaxLedger = 4
  Chains <- AllChains
  Wanted <- WantedRange
  Limit = 2
  MaxRequests = 2
  Submitters = {"s1", "s2", "s3"}
  Batch <- QueueBatch
  KeyOf <- QueueKeyOf
  MaxQueueSize = 2
  MaxRefusals = 1
  Events <- StoreEvents
  Batches <- StoreBatches
  Wallets = {"w1", "w2"}
  StoreImports <- ApprovedAgain
  Ranges <- StoreRanges
  JobsPageSize = 1
  MaxRows = 2
  Posts <- BackfillPosts
  Configured <- BackfillRange
  OnChain <- FiveEvents
  Undecodable = {3}
  MaxSpan = 3
  MaxHead = 4
  MaxCrashes = 1
  Processes = {"p1", "p2"}
  Shipped <- TwoReleases
  Stored = 8
  OldRows = {1, 2}
  MaxFaults = 1
  Moves = {"i1", "f1", "o1", "r1"}
  MoveOf <- MoneyMoves
  Contracts <- TwoContracts
  MaxResults = 2
  Stock = {"a", "b", "c"}
  TypeOf <- StockTypes
  LedgerOf <- StockLedgers
  RetryLimit = 3
  MaxBackoff = 5
  Hints = {3, 9}
  BaseInterval = 4
  MinInterval = 1
  MaxInterval = 10
  IdleThreshold = 3
  Threshold = 3
  MaxFailures = 5
  Clients = {"c1", "c2"}
  Window = 3
  MaxCalls = 2
  MaxNow = 6
  Callers = {"c1", "c2"}
  Decimals = 2
  DefaultDecimals = 7
  CacheTtl = 4
  FailureTtl = 2
INVARIANTS
  ServicesTypeOK
  
  NoKeyIsStuck
  PageIsCurrent
  
  MigrationsAreAtomic
  SnapshotAddsUp
  FailuresAreHandled
  RateIsBounded
  MetadataIsSound
PROPERTIES
  WorkIsExclusive
  ImportsEnd
  
  SlowsDownOnlyWhenQuiet
CHECK_DEADLOCK FALSE
