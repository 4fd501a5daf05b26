SPECIFICATION Spec
CONSTANTS
  Requests = {r1}
  Children = {c1}
  Vitals = {v1}
  Limit = 2
  AutoFlush = 2
  MaxTraces = 2
  MaxChained = 1
  MaxFailures = 1
INVARIANTS
  SentWasKept
  TimerWhileOpen
PROPERTIES
  VitalsFollowTheDocument
  EndedSpansAreSent
CHECK_DEADLOCK FALSE
