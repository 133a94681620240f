SPECIFICATION FairSpec
CONSTANTS
  Factory = factory
  Children = {child}
  Adopted = {adopted}
  Legacy = {adopted}
  Managed = {adopted}
  PageLimit = 1
  MaxPages = 1
  AdminStarts = {0}
  Faults = {"db", "crash"}
  MaxLedger = 2
  LedgerLimit = 1
  MaxOldest = 2
  MaxQueue = 1
PROPERTIES
  RecoversFromFaults
  AdoptedStaysDeregistered
