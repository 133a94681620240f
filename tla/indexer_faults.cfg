SPECIFICATION Spec
CONSTANTS
  Factory = factory
  Children = {child}
  Adopted = {adopted}
  Legacy = {adopted}
  Managed = {}
  PageLimit = 2
  MaxPages = 2
  AdminStarts = {0}
  Faults = {"rpc", "db", "crash"}
  MaxLedger = 2
  LedgerLimit = 3
  MaxOldest = 2
  MaxQueue = 1
INVARIANTS
  TypeOK
  
PROPERTIES
  WebhookLossOnlyByFailure
