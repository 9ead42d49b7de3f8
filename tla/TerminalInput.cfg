CONSTANTS
  Calls = {c1, c2, c3}
  QueueCapacity = 2
  Nothing = Nothing
  PtyPanes = {p1}
  TmuxPanes = {p2}
  MaxKeys = 3
  FrameKeys = 2
  Capacity = 2
  MaxCrashes = 1
  MaxRetries = 1
  NoFrame = NoFrame
SPECIFICATION MCFairSpec
CHECK_DEADLOCK FALSE
INVARIANTS
  TypeOK
  UnsentIsNeverWritten
  CompletionHasRoom
  BufferedIsHeld
  NoKeyIsLost
  
  CertainKeysKeepOrder
PROPERTIES
  KeepsPromise
  EveryCallReturns
  InputIsSettled
