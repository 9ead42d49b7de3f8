CONSTANTS
  Panes = {1}
  TabOf <- TwoTabs
  Budget = 1
  LaneCapacity = 1
  MaxChanges = 1
  MaxReplaced = 1
  Nothing = Nothing
SPECIFICATION FairSpec
CHECK_DEADLOCK FALSE
PROPERTIES
  StaleCursorResyncs
