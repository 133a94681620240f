SPECIFICATION Spec
CONSTANTS
  Factory = factory
  Children = {child}
  Adopted = {}
  Legacy = {}
  Managed = {}
  PageLimit = 1
  MaxPages = 1
  AdminStarts = {0}
  Faults = {"rpc", "db"}
  MaxLedger = 2
  LedgerLimit = 1
  MaxOldest = 1
  MaxQueue = 1
INVARIANTS
  SkippedChildCatchesUp
