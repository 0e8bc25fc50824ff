CONSTANTS
  w1 = w1
  w2 = w2
  r1 = r1
  none = none
  Writers = {w1,w2}
  Reporters = {r1}
  None = none
  NumPrompts = 2
  MeasuredRuns = 2
  t1 = t1
  t2 = t2
  Tokens = {t1,t2}
  MaxPowerLosses = 2
SPECIFICATION Spec
SYMMETRY Alike
INVARIANTS TypeOK VisibleIsComplete ReportTellsTheFile ErrorsLeaveNoLitter
PROPERTIES ImplementsWriteOnce
CHECK_DEADLOCK FALSE
