SPECIFICATION Spec
CONSTANTS
  p1 = p1
  Procs <- OneProc
  LastEpoch = 3
  Bound = 2
  CacheAge = 1
  Retries = 0
  CdnLag = 1
  CutWindow = 1
  Span = 0
  Horizon = 2
  Unreachable = TRUE
  MisKeyed <- None
  DoubleKeyed <- None
  BadGenesis <- None
  Kinds <- Binding
INVARIANTS HonestServerUnalarmed OneEpochPerCommand
