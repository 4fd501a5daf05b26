SPECIFICATION Spec
CONSTANTS
  Contexts = {c1, c2}
  NoContext = NoContext
  MaxPages = 2
  MaxPolicies = 3
  MaxSets = 2
  MaxCalls = 2
INVARIANTS
  PollGoesOn
PROPERTIES
  ShutIsQuiet
  AnswersInTime
  FollowsTheContext
CHECK_DEADLOCK FALSE
