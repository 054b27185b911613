SPECIFICATION Spec
CONSTANTS
  p1 = p1
  Procs <- OneProc
  LastEpoch = 2
  Bound = 2
  CacheAge = 2
  Retries = 1
  CdnLag = 1
  CutWindow = 9
  Span = 0
  Horizon = 5
  Unreachable = FALSE
  MisKeyed <- None
  DoubleKeyed <- None
  BadGenesis <- Second
  Kinds <- Watching
INVARIANTS EndedEpochNotUsedLong DisagreementBounded
