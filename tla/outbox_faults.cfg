\* One row, two handlers and two publishers on it, any two faults, two units
\* of time (a claim can become stale twice).
SPECIFICATION Spec
CONSTANTS
  Jobs = {1}
  Workers = {w1, w2}
  Publishers = {p1, p2}
  NoWorker = NoWorker
  MaxAttempts = 2
  StaleAfter = 1
  BatchSize = 1
  MaxStalls = 1
  FaultKinds = {"crash", "db", "queue", "stall", "loss"}
  MaxFaults = 2
  MaxClock = 2
SYMMETRY Symmetry
INVARIANTS ExclusiveSideEffects SucceededWasDelivered
PROPERTIES OnlyOwnerEndsAttempt ImplementsLease
CHECK_DEADLOCK FALSE
