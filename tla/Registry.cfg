CONSTANTS
  t1 = t1
  t2 = t2
  v1 = v1
  a1 = a1
  c1 = c1
  None = None
  w1 = w1
  w2 = w2
  p1 = p1
  Callers = {c1}
  TabPanes <- TabIds
  Backend <- Kinds
  Home = 0
  WorkspaceIds = {1, 2}
  PaneIds = {1, 2, 3}
  Requests = {1, 2}
  MaxWorkspaces = 3
  MaxPanes = 2
  MaxDepth = 2
  MaxRequests = 4
  LocalWorkstations = {w1, w2}
  LocalPanes = {p1}
  MaxWindows = 2
  MaxClients = 3
  MaxSessions = 2
SPECIFICATION MCSpec
SYMMETRY Swap
CHECK_DEADLOCK FALSE
INVARIANTS
  
  OnlyDepthAndSwapsBlockSaves
  OnlyOrphansAndOfflinePanesBlockSaves
  PanesAreShown
  PanesAreConnected
PROPERTIES
  OnlyTheDraggedMoves
