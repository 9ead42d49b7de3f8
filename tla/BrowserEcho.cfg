CONSTANTS
  Urls = {a, b, c}
  Blank = a
  None = None
  Polls = {loop}
  MaxVisits = 2
  MaxSubmits = 0
  MaxRevision = 3
SPECIFICATION Spec
CHECK_DEADLOCK FALSE
PROPERTIES
  EchoNeverNavigates
