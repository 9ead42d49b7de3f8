CONSTANTS
  Urls = {Blank, url1, url2}
  Polls = {loop}
  MaxVisits = 2
  MaxSubmits = 1
  MaxRevision = 3
  Callers = {call1, call2}
  MaxRestarts = 1
  Panes = {p1, p2}
  Threads = {h1, h2}
  MaxShells = 3
  MaxLive = 1
  Requests = {q1, q2}
  MaxWindows = 2
  MaxClients = 2
  Files = {f1, f2}
  Places = {tab1, tab2}
  tab1 = tab1
  None = None
  Blank = Blank
  url1 = url1
  url2 = url2
  call1 = call1
  call2 = call2
  p1 = p1
  p2 = p2
  q1 = q1
  q2 = q2
  f1 = f1
  f2 = f2
  Clip = Clip
  Nowhere = Nowhere
  h1 = h1
  h2 = h2
  Absent = Absent
  Broken = Broken
  hh = hh
  Entries = {menu}
  MaxInstalls = 3
SPECIFICATION MCSpec
SYMMETRY Swap
CHECK_DEADLOCK FALSE
INVARIANTS
  UpdatesAreAllOrNothing
  QuietPageIsSaved
  AnswersAreTrue
  RemoteWindowsMatchTabs
  ShellsAreShown
  
  PastesArriveWhole
