\* Liveness: two rows, so that a batch of one leaves a row behind; one fault.
SPECIFICATION FairSpec
CONSTANTS
  Jobs = {1, 2}
  Workers = {w1}
  Publishers = {p1}
  NoWorker = NoWorker
  MaxAttempts = 2
  StaleAfter = 1
  BatchSize = 1
  MaxStalls = 1
  FaultKinds = {"crash", "queue", "loss"}
  MaxFaults = 1
  MaxClock = 1
INVARIANTS FailedEntryMeansTerminal
PROPERTIES JobsDrainUnlessKept
CHECK_DEADLOCK FALSE
