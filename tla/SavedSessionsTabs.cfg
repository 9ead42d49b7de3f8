SPECIFICATION OneRequestSpec
CONSTANTS
  p1 = p1
  p2 = p2
  h1 = h1
  h2 = h2
  Panes = {p1, p2}
  Handlers = {h1}
  MaxWindows = 3
  MaxTabs = 2
  Operations = {"create", "close", "reattach", "reorder"}
  Nobody = Nobody
  Discarded = Discarded
  TmuxMayEnd = FALSE
  WritesMayFail = TRUE
SYMMETRY PaneSymmetry
INVARIANTS TypeOK EveryPaneOwnsItsWindow NoSharedWindow Ownership RecoveryKeepsPrograms
