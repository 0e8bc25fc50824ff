CONSTANTS
  b1 = b1
  b2 = b2
  s1 = s1
  s2 = s2
  none = none
  Backends = {b1,b2}
  Servers = {s1,s2}
  None = none
SPECIFICATION FairSpec
INVARIANTS TypeOK NothingForgotten LoadedIsWhole
PROPERTIES CallsReturn ClosedServersEnd
