SPECIFICATION Spec
CONSTANTS
  MaxRecords = 3
  MaxPasses = 2
INVARIANTS
  QuietKeyIsSilent
  DeadKeyStaysDead
  OffIsEmpty
PROPERTIES
  CloseEnds
