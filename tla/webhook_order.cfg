SPECIFICATION Spec
CONSTANTS
  Urls = {u}
  Outcomes = {"ok", "failed"}
  MaxTries = 2
  MaxAttempts = 3
  DisableAfter = 2
  SweepLimit = 1
  PageSize = 2
  Retention = FALSE
  MaxLedger = 2
  MaxSpan = 1
  MaxOverlap = 0
  MaxCrashes = 0
  MaxSubs = 1
  MaxQueue = 2
PROPERTIES
  RetriesBeforeLaterRanges
