SPECIFICATION FairSpec
CONSTANTS
  Urls = {u}
  Outcomes = {"ok", "failed"}
  MaxTries = 2
  MaxAttempts = 3
  DisableAfter = 2
  SweepLimit = 1
  PageSize = 1
  Retention = TRUE
  MaxLedger = 2
  MaxSpan = 2
  MaxOverlap = 1
  MaxCrashes = 1
  MaxSubs = 1
  MaxQueue = 2
INVARIANTS
  TypeOK
  EveryRowHasVerdict
  VerdictsMatchPosts
PROPERTIES
  FirstPostsInOrder
  FailedIsSettled
