CONSTANTS
  c1 = c1
  c2 = c2
  c3 = c3
  Clients = {c1, c2, c3}
  RequestsPerMinute = 30
  Burst = 2
  MaxClients = 2
  MaxTime = 4
SPECIFICATION Spec
SYMMETRY ClientSymmetry
INVARIANTS TypeOK RateBound RefusalsAreEarned
