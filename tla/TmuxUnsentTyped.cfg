CONSTANTS
  Calls = {c1}
  Chunks = 1
SPECIFICATION Spec
CHECK_DEADLOCK FALSE
INVARIANTS
  UnsentIsNeverTyped
