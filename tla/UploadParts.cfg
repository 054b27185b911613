\* Two workers, a one-slot buffer, more parts than workers and buffer together.
CONSTANTS
  NoWorker = NoWorker
  PartCount = 5
  w1 = w1
  w2 = w2
  Workers <- TwoWorkers
  PrepareAhead = 2
  Attempts = 2
  Rates = {5}
  MinCredibleRate = 2
SPECIFICATION Spec
INVARIANTS ResultComplete
PROPERTIES OneHalvingPerEvent Termination
