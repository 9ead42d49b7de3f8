CONSTANTS
  p1 = p1
  p2 = p2
  h1 = h1
  h2 = h2
  Nobody = Nobody
  Discarded = Discarded
  Panes = {p1}
  Kinds = {"Attention"}
  Instants = {1, 2}
  Capacity = 2
  LaneCapacity = 2
  MaxStored = 2
  MaxCrashes = 1
  MaxMarks = 1
  MayClear = TRUE
SPECIFICATION MCFairSpec
CHECK_DEADLOCK FALSE
INVARIANTS
  CleanIsOnDisk
  AckedReadsSurvive
  TabLimit
PROPERTIES
  
  SnapshotCatchesUp
