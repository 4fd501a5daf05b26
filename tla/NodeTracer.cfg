SPECIFICATION Spec
CONSTANTS
  Requests = {r1, r2}
  Calls = {c1}
  Queries = {q1, q2}
  None = None
  MaxSpans = 3
  MaxSql = 1
  Reserved = 2
  MaxScopes = 2
  MaxChained = 1
SYMMETRY Symmetry
CONSTRAINT Apart
INVARIANTS
  RoomForOthers
  AbsorbedArrives
  ScopesRestore
CHECK_DEADLOCK FALSE
