SPECIFICATION Spec
CONSTANTS
  Requests = {r1}
  Calls = {c1}
  Queries = {q1}
  None = None
  MaxSpans = 3
  MaxSql = 1
  Reserved = 2
  MaxScopes = 1
  MaxChained = 1
CHECK_DEADLOCK FALSE
INVARIANT AnsweredIsSent
