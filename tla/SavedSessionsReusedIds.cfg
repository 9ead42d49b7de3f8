SPECIFICATION Spec
CONSTANTS
  p1 = p1
  p2 = p2
  h1 = h1
  h2 = h2
  Panes = {p1, p2}
  Handlers = {h1}
  MaxWindows = 2
  MaxTabs = 2
  Operations = {"create", "reattach"}
  Nobody = Nobody
  Discarded = Discarded
  TmuxMayEnd = TRUE
  WritesMayFail = FALSE
INVARIANTS EveryPaneOwnsItsWindow
