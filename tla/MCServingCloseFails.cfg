CONSTANTS
  r1 = r1
  r2 = r2
  r3 = r3
  Requests = {r1,r2,r3}
  MaxConcurrent = 1
  MaxQueued = 1
  RenotifyOnCancel = TRUE
SPECIFICATION Spec
INVARIANTS NothingLeftBehind
CHECK_DEADLOCK FALSE
