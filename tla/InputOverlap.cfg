CONSTANTS
  PtyPanes = {}
  TmuxPanes = {p1}
  MaxKeys = 3
  FrameKeys = 2
  Capacity = 3
  MaxCrashes = 0
  MaxRetries = 0
  NoFrame = NoFrame
SPECIFICATION Spec
CHECK_DEADLOCK FALSE
INVARIANTS
  EmissionOrder
