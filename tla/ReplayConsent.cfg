SPECIFICATION SafeSpec
CONSTANTS
  SessionSegments = 3
  ClipSegments = 2
  ClipBytes = 3
  Sizes = {2}
  ChunkLen = 2
  Faults = {"transient", "scope", "permanent"}
  MaxEvents = 0
  MaxCaptures = 1
  MaxCalls = 1
  MaxClips = 1
  MaxHolds = 1
CONSTRAINT MayStart
PROPERTY StartedWithConsent
CHECK_DEADLOCK FALSE
