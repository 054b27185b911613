SPECIFICATION Spec
CONSTANTS
  Handles <- Prsns
  Runs = {"r1"}
  Codes = {"c1"}
  NoCode = NoCode
  HandleOf <- Named
  NoHandle = NoHandle
  Machine <- Mac
  OldKeys <- Classical
  OldDefault = "ada-ai"
  MaxRetries = 1
  MaxMishaps = 0
PROPERTY OnlyJustGeneratedRemoved
CHECK_DEADLOCK FALSE
