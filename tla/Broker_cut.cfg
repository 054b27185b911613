CONSTANTS
  Workers = {w1}
  Grants = {g1}
  NoWorker = NoWorker
  Expiries = {2, 9}
  Lease = 2
  Grace = 1
  Skew = 1
  LeaseMin = 1
  LeaseMax = 3
  GraceMin = 0
  GraceMax = 3
  Slas <- MCSlas
  QueryTimeout = 1
  ClockStep = 1
  MaxTime = 6
SPECIFICATION Spec
PROPERTIES RevocationCut
