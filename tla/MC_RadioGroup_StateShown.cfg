CONSTANTS
  r1 = r1
  r2 = r2
  r3 = r3
  NULL = NULL
  Btn <- MCBtn
  Values <- MCValues
SPECIFICATION Spec
INVARIANTS
  StateShown
CHECK_DEADLOCK FALSE
