CONSTANTS
  a = a
  b = b
  nobody = nobody
  r1 = r1
  r2 = r2
  Users = {a,b}
  Requests = {r1,r2}
  NoUser = nobody
  Burst = 1
  MaxConnections = 1
  MaxRestarts = 1
SPECIFICATION FairSpec
INVARIANTS TypeOK ConnectionsReturned RevokedStayOut CountersMatchAnswers OnlyOwnRequestsCount
PROPERTIES EveryRequestEnds ReadinessRecovers
CHECK_DEADLOCK FALSE
