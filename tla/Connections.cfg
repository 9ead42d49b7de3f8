CONSTANTS
  Panes = {1, 2}
  TabOf <- TwoTabs
  Budget = 1
  LaneCapacity = 1
  MaxChanges = 2
  MaxReplaced = 1
  Nothing = Nothing
  Calls = {c1, c2, c3}
  Chunks = 2
SPECIFICATION MCFairSpec
CHECK_DEADLOCK FALSE
INVARIANTS
  RepliesFindTheirWaiters
  AcknowledgedIsTyped
  UnchangedHidesNothing
PROPERTIES
  
  ScreenCatchesUp
  ClosedPanesAreForgotten
  LostClientFreesEveryCall
