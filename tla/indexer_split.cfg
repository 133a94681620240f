SPECIFICATION Spec
CONSTANTS
  Factory = factory
  Children = {}
  Adopted = {adopted}
  Legacy = {adopted}
  Managed = {}
  PageLimit = 2
  MaxPages = 2
  AdminStarts = {0}
  Faults = {"rpc"}
  MaxLedger = 3
  LedgerLimit = 3
  MaxOldest = 1
  MaxQueue = 1
INVARIANTS
  PointerAtFullyStoredLedger
