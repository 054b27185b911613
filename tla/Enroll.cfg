SPECIFICATION Spec
CONSTANTS
  Handles <- Prsns
  Runs = {"r1", "r2"}
  Codes = {"c1", "c2"}
  NoCode = NoCode
  HandleOf <- Named
  NoHandle = NoHandle
  Machine <- Mac
  OldKeys <- None
  OldDefault = NoHandle
  MaxRetries = 1
  MaxMishaps = 1
INVARIANTS TypeOK FailureLeavesNoKey
PROPERTIES EnrolledIsUsable EnrollEnds
CHECK_DEADLOCK FALSE
