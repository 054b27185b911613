CONSTANTS
  Workers = {w1, w2}
  Grants = {g1}
  NoWorker = NoWorker
  Expiries = {0}
  Lease = 1
  Grace = 1
  Skew = 0
  LeaseMin = 1
  LeaseMax = 1
  GraceMin = 0
  GraceMax = 1
  Slas = {}
  QueryTimeout = 1
  ClockStep = 0
  MaxTime = 2
SPECIFICATION Spec
PROPERTIES ShutdownDrains
