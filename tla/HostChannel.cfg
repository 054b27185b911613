SPECIFICATION Spec
CONSTANTS
  Handles <- TwoHandles
  Channels = {1}
  Cmds = {1, 2}
  Wired <- OneContainer
  Calls <- CallsOf
  Asserted <- AdaEverywhere
  NoHandle = NoHandle
  HasPq = TRUE
  Window = 1
  EvictAfter = 1
  MaxProvisions = 2
  MaxMishaps = 1
INVARIANTS TypeOK AnswerFromOwnRun
PROPERTIES PinLasts ReplayWindow TimedOutNotRunLater RequestsDrain
CHECK_DEADLOCK FALSE
