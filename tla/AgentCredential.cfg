SPECIFICATION Spec
CONSTANTS
  Agents = {"a1", "a2", "a3"}
  Provs = {"v1"}
  Kinds <- UsesAndAny
  MaxOps <- OneOneTwo
  Attempts = 2
  MaxEvents = 1
  MaxTime = 5
  AgentValidity = 4
  TokenTtl = 1
  Skew = 0
  Margin = 0
  Lag = 1
  Jumps <- Times
  Casts <- Pairs
  MaxRetries = 1
INVARIANTS TypeOK TokenBoundToCert AtMostOnce AloneItWorks NamedKeyKept
PROPERTIES RepickupEarned
CHECK_DEADLOCK FALSE
