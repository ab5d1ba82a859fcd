\* docs/operations/observability.md:236 with two database errors.
SPECIFICATION FairSpec
CONSTANTS
  Jobs = {1}
  Workers = {w1}
  Publishers = {p1}
  NoWorker = NoWorker
  MaxAttempts = 2
  StaleAfter = 1
  BatchSize = 1
  MaxStalls = 1
  FaultKinds = {"db"}
  MaxFaults = 2
  MaxClock = 1
PROPERTIES JobsDrain
CHECK_DEADLOCK FALSE
