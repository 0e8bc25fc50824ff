CONSTANTS
  r1 = r1
  r2 = r2
  r3 = r3
  r4 = r4
  r5 = r5
  Requests = {r1, r2, r3, r4, r5}
  MaxConcurrent = 2
  MaxQueued = 2
  RenotifyOnCancel = FALSE
SPECIFICATION FairSpec
INVARIANTS TypeOK Accounting DequeMatchesQueue NoLostWakeup
PROPERTIES ImplementsBoundedAdmission
