SPECIFICATION Spec
CONSTANTS
  Documents <- MCDocuments
  MaxPages = 3
INVARIANTS
  ErrorsOnlyWithoutPolicy
  QuietPage
PROPERTIES
  StoppedForThePage
CHECK_DEADLOCK FALSE
