CONSTANTS
  r1 = r1
  r2 = r2
  r3 = r3
  r4 = r4
  Requests = {r1,r2,r3,r4}
  MaxConcurrent = 1
  MaxQueued = 2
  RenotifyOnCancel = TRUE
SPECIFICATION FairSpec
INVARIANTS TypeOK BackendLoadBounded OnlyFailedCloseLeaves
PROPERTIES DisconnectFreesSlot EveryRequestEnds
CHECK_DEADLOCK FALSE
