SPECIFICATION Spec
CONSTANTS
  SessionSegments = 3
  ClipSegments = 2
  ClipBytes = 3
  Sizes = {2}
  ChunkLen = 2
  Faults = {"transient", "limit", "oversized"}
  MaxEvents = 1
  MaxCaptures = 2
  MaxCalls = 1
  MaxClips = 1
  MaxHolds = 0
INVARIANTS
  PostedWhileOpen
  SegmentsContinueTheReplay
  SegmentZeroPaints
  ClipWithinBudget
  LinkLanded
PROPERTIES
  EveryClipEnds
  EveryErrorReported
CHECK_DEADLOCK FALSE
