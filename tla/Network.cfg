SPECIFICATION NetworkSpec
CONSTANTS
  a1 = a1
  a2 = a2
  Requests <- MCRequests
  FirstParty <- MCFirstParty
  Listed <- MCListed
  Ignored <- MCIgnored
  Url <- MCUrl
  Errors <- MCErrors
  Likely <- MCLikely
SYMMETRY Symmetry
INVARIANTS
  SuppressionIsPaidFor
  OneEventPerFailure
CHECK_DEADLOCK FALSE
