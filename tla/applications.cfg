\* Two record ids and two jobs, so that creations of one job race and two
\* records exist side by side; two handlers, up to three history entries per
\* record, one failing handler.
SPECIFICATION Spec
CONSTANTS
  Applications = {a1, a2}
  Jobs = {j1, j2}
  Requests = {r1, r2}
  MaxHistory = 3
  MaxFaults = 1
  NoJob = NoJob
  NoApplication = NoApplication
  NoStatus = NoStatus
INVARIANTS
  SequentialHistory
  EntriesAreAllowed
  StatusIsOnRecord
SYMMETRY Symmetry
