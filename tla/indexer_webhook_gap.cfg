SPECIFICATION Spec
CONSTANTS
  Factory = factory
  Children = {child}
  Adopted = {}
  Legacy = {}
  Managed = {}
  PageLimit = 9
  MaxPages = 2
  AdminStarts = {0}
  Faults = {}
  MaxLedger = 3
  LedgerLimit = 2
  MaxOldest = 1
  MaxQueue = 1
INVARIANTS
  EveryRowIsOffered
