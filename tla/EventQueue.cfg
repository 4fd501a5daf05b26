SPECIFICATION Spec
CONSTANTS
  MaxBatch = 2
  MaxEvents = 5
  MaxChain = 2
INVARIANTS
  NothingStranded
  FlushIsABarrier
  OncePerEventInOrder
PROPERTIES
  ImplementsSink
  EveryEventLeaves
CHECK_DEADLOCK FALSE
