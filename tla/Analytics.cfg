SPECIFICATION Spec
CONSTANTS
  MaxBatch = 2
  MaxEvents = 4
  MaxChain = 4
  MaxEpoch = 2
INVARIANTS
  AFlushForEveryEvent
PROPERTIES
  SentUnderItsConsent
  ImplementsSink
CHECK_DEADLOCK FALSE
